------------------------------ MODULE AgentProofs ------------------------------
(***************************************************************************)
(* What every behaviour of AgentTurn keeps, for any tasks, calls, sessions *)
(* and configurations, with Rbac at the end for the roles that the levels  *)
(* of the approval chain come from.                                        *)
(*                                                                         *)
(* First, that no tool runs unreviewed or outside its sandbox.  The gate's *)
(* own part of the state changes in six ways: a step of a call, a decision *)
(* of the human, and four ways in which a turn touches it (the model asks  *)
(* for calls, their threads start, their answers are read, the process     *)
(* dies).  GateInv is preserved by each; what a turn has to know of its    *)
(* calls for that is BatchInv.                                             *)
(*                                                                         *)
(* Then, what is in the session files.  LogInv says for each connection    *)
(* what its handler knows of the turn it is in, and what its file holds of *)
(* every turn.  A connection's own steps either write nothing or write     *)
(* whole lines of the current turn to a file without torn lines; what      *)
(* others write to the file is of no turn of its own; a crash closes it.   *)
(***************************************************************************)
EXTENDS AgentTurn, Rbac, TLAPS

\* The calls of the AI message a task is at.
Mine(t) == ToSet(batch[t])

\* What the chain and the tables hold of a call, place by place.
CallInv(c) ==
    /\ pc[c] \notin {"idle", "asked", "over"} => op[c] \in Ops /\ sess[c] \in Sessions
    /\ pc[c] = "llm" => level[c] = "L3" /\ ~Settled(op[c])
    /\ pc[c] \in {"route"} \cup InSandbox \cup Ran => Permitted(c)
    /\ approvals[c] # "none" => pc[c] \in {"pending", "over"}
    /\ pc[c] = "host" /\ sandbox.enabled => op[c].tool \notin SANDBOXED_TOOLS
    /\ pc[c] \in {"idle", "asked", "check", "llm", "route"} => c \notin started
    /\ pc[c] = "store" => Disabled \/ box[sess[c]] # None
    /\ pc[c] \in {"run", "box", "timeout"} => inBox[c] \in started /\ sess[inBox[c]] = sess[c]

TablesInv ==
    /\ \A s \in Sessions : box[s] # None => box[s] \in started /\ sess[box[s]] = s
    /\ \A s \in table : ~Disabled => box[s] # None

GateInv ==
    /\ GateTypeOK
    /\ \A c \in Calls : CallInv(c)
    /\ TablesInv

\* A call belongs to one batch, from when it is asked for until its answer is read;
\* until its thread starts nothing else has touched it.
BatchInv ==
    /\ batch \in [Tasks -> Seq(Calls)]
    /\ at \in [Tasks -> {"new", "ready", "stream", "sending", "ending", "tools", "proxy", "closed"}]
    /\ target \in [Tasks -> Tasks]
    /\ \A t \in Tasks : \A c \in Mine(t) :
        /\ pc[c] # "idle"
        /\ at[t] \in {"stream", "sending"} => pc[c] = "asked"
        /\ at[t] \in {"stream", "sending", "tools"}
    /\ \A t, u \in Tasks : t # u => Mine(t) \cap Mine(u) = {}

IInv == GateInv /\ BatchInv

---------------------------------------------------------------------------
(* The steps of a call *)

\* What a step of call c leaves alone.
StepOf(c) ==
    /\ op' = op /\ sess' = sess /\ sandbox' = sandbox
    /\ \A d \in Calls \ {c} :
        /\ pc'[d] = pc[d] /\ level'[d] = level[d] /\ llm'[d] = llm[d]
        /\ approvals'[d] = approvals[d] /\ inBox'[d] = inBox[d]
    /\ started \subseteq started' /\ started' \subseteq started \cup {c}
    /\ \A s \in Sessions : box[s] # None => box'[s] # None

\* Therefore the other calls keep what is known of them.
LEMMA OthersKept ==
    ASSUME GateInv, GateTypeOK', NEW c \in Calls, StepOf(c), NEW d \in Calls \ {c}
    PROVE  CallInv(d)'
<1>1. CallInv(d)
  BY DEF GateInv
<1>2. Disabled' = Disabled
  BY DEF StepOf, Disabled
<1>3. Permitted(d) => Permitted(d)'
  BY DEF StepOf, Permitted, IsChecked, Forbidden, Whitelisted
<1>4. ASSUME pc[d] = "store" PROVE Disabled \/ box'[sess[d]] # None
  BY <1>1, <1>4 DEF CallInv, StepOf
<1> QED
  BY <1>1, <1>2, <1>3, <1>4 DEF CallInv, StepOf, Settled, IsChecked, Forbidden, Whitelisted

\* The steps of the chain.
LEMMA ReviewKeepsGate ==
    ASSUME GateInv, NEW c \in Calls,
           Check(c) \/ Escalate(c) \/ Review(c) \/ ReviewFails(c)
    PROVE  GateInv'
<1>0. /\ GateTypeOK /\ CallInv(c) /\ TablesInv
      /\ sandboxVars' = sandboxVars /\ op' = op /\ sess' = sess
  BY DEF GateInv, Check, Escalate, Review, ReviewFails, reviewVars
<1>1. GateTypeOK' /\ StepOf(c)
  <2>1. CASE Check(c)
    BY <1>0, <2>1 DEF GateTypeOK, StepOf, Check, Goto, AfterL2, reviewVars, sandboxVars, InSandbox, Ended, Ran
  <2>2. CASE Escalate(c)
    <3>1. PICK l \in Levels : /\ level' = [level EXCEPT ![c] = l]
                              /\ Goto(c, Escalated(l)) /\ File(c, Escalated(l)) /\ llm' = llm
      BY <2>2 DEF Escalate
    <3>2. Escalated(l) \in {"blocked", "llm", "pending"}
      BY DEF Escalated, Levels
    <3> QED
      BY <1>0, <3>1, <3>2 DEF GateTypeOK, StepOf, Goto, File, sandboxVars, InSandbox, Ended, Ran
  <2>3. CASE Review(c)
    <3>1. PICK v \in Verdicts : /\ llm' = [llm EXCEPT ![c] = v]
                                /\ Goto(c, AfterL3(v)) /\ File(c, AfterL3(v)) /\ level' = level
      BY <2>3 DEF Review
    <3>2. AfterL3(v) \in {"blocked", "route", "pending"}
      BY DEF AfterL3, Verdicts
    <3> QED
      BY <1>0, <3>1, <3>2 DEF GateTypeOK, StepOf, Goto, File, sandboxVars, InSandbox, Ended, Ran
  <2>4. CASE ReviewFails(c)
    BY <1>0, <2>4 DEF GateTypeOK, StepOf, ReviewFails, Goto, reviewVars, sandboxVars, InSandbox, Ended, Ran
  <2> QED
    BY <2>1, <2>2, <2>3, <2>4
<1>2. CallInv(c)'
  <2>1. CASE Check(c)
    <3>1. /\ pc[c] = "check" /\ Settled(op[c]) /\ pc'[c] = AfterL2(op[c])
          /\ level' = level /\ llm' = llm /\ approvals' = approvals
      BY <1>0, <2>1 DEF Check, Goto, GateTypeOK, reviewVars
    <3>2. pc'[c] = "route" => Permitted(c)'
      BY <1>0, <3>1 DEF AfterL2, Permitted, Settled, IsChecked, Forbidden, Whitelisted
    <3> QED
      BY <1>0, <3>1, <3>2 DEF AfterL2, CallInv, sandboxVars, InSandbox, Ran
  <2>2. CASE Escalate(c)
    <3>1. PICK l \in Levels : /\ level' = [level EXCEPT ![c] = l]
                              /\ pc[c] = "check" /\ ~Settled(op[c])
                              /\ Goto(c, Escalated(l)) /\ File(c, Escalated(l)) /\ llm' = llm
      BY <2>2 DEF Escalate
    <3>2. pc'[c] = Escalated(l) /\ level'[c] = l
      BY <1>0, <3>1 DEF Goto, GateTypeOK
    <3>3. Escalated(l) \in {"blocked", "llm", "pending"} /\ (Escalated(l) = "llm" => l = "L3")
      BY DEF Escalated, Levels
    <3>4. approvals'[c] # "none" => Escalated(l) = "pending"
      BY <1>0, <3>1 DEF File, CallInv
    <3>5. Settled(op[c])' = Settled(op[c])
      BY <1>0 DEF Settled, IsChecked, Forbidden, Whitelisted
    <3> QED
      BY <1>0, <3>1, <3>2, <3>3, <3>4, <3>5 DEF CallInv, sandboxVars, InSandbox, Ran
  <2>3. CASE Review(c)
    <3>1. PICK v \in Verdicts : /\ llm' = [llm EXCEPT ![c] = v] /\ pc[c] = "llm"
                                /\ Goto(c, AfterL3(v)) /\ File(c, AfterL3(v)) /\ level' = level
      BY <2>3 DEF Review
    <3>2. pc'[c] = AfterL3(v) /\ llm'[c] = v
      BY <1>0, <3>1 DEF Goto, GateTypeOK
    <3>3. AfterL3(v) \in {"blocked", "route", "pending"} /\ (AfterL3(v) = "route" => v = "SAFE")
      BY DEF AfterL3, Verdicts
    <3>4. approvals'[c] # "none" => AfterL3(v) = "pending"
      BY <1>0, <3>1 DEF File, CallInv
    <3>5. AfterL3(v) = "route" => Permitted(c)'
      BY <1>0, <3>1, <3>2, <3>3 DEF CallInv, Permitted, Settled, IsChecked, Forbidden, Whitelisted
    <3> QED
      BY <1>0, <3>1, <3>2, <3>3, <3>4, <3>5 DEF CallInv, sandboxVars, InSandbox, Ran
  <2>4. CASE ReviewFails(c)
    <3>1. pc[c] = "llm" /\ pc'[c] = "failed" /\ approvals' = approvals
      BY <1>0, <2>4 DEF ReviewFails, Goto, GateTypeOK, reviewVars
    <3> QED
      BY <1>0, <3>1 DEF CallInv, sandboxVars, InSandbox, Ran
  <2> QED
    BY <2>1, <2>2, <2>3, <2>4
<1>3. TablesInv'
  BY <1>0 DEF TablesInv, sandboxVars, Disabled
<1> QED
  BY <1>1, <1>2, <1>3, OthersKept DEF GateInv

\* The steps of the sandbox: the review's tables stay as they are.
LEMMA SandboxKeepsTypes ==
    ASSUME GateInv, NEW c \in Calls,
           \/ Route(c) \/ BackendLookup(c) \/ BackendStart(c) \/ BackendStartFails(c) \/ StoreSession(c)
           \/ Exec(c) \/ RunEnds(c) \/ RunTimesOut(c) \/ RunFails(c)
    PROVE  GateTypeOK' /\ StepOf(c)
<1>0. GateTypeOK /\ CallInv(c) /\ reviewVars' = reviewVars /\ sandbox' = sandbox
  BY DEF GateInv, Route, BackendLookup, BackendStart, BackendStartFails, StoreSession,
         Exec, RunEnds, RunTimesOut, RunFails, sandboxVars
<1> USE <1>0 DEF GateTypeOK, StepOf, Goto, reviewVars, sandboxVars, InSandbox, Ended, Ran
<1>1. CASE Route(c)
  <2>1. PICK p \in {"host", "refused", "exec", "backend"} : Goto(c, p)
    BY <1>1 DEF Route
  <2> QED
    BY <1>1, <2>1 DEF Route
<1>2. CASE BackendLookup(c)
  BY <1>2 DEF BackendLookup
<1>3. CASE BackendStart(c)
  <2>1. sess[c] \in Sessions
    BY <1>3 DEF BackendStart, CallInv
  <2> QED
    BY <1>3, <2>1, NoneAssumption DEF BackendStart
<1>4. CASE BackendStartFails(c)
  BY <1>4 DEF BackendStartFails
<1>5. CASE StoreSession(c)
  <2>1. sess[c] \in Sessions
    BY <1>5 DEF StoreSession, CallInv
  <2> QED
    BY <1>5, <2>1 DEF StoreSession
<1>6. CASE Exec(c)
  <2>1. sess[c] \in Sessions
    BY <1>6 DEF Exec, CallInv
  <2> QED
    BY <1>6, <2>1 DEF Exec
<1>7. CASE RunEnds(c)
  BY <1>7 DEF RunEnds
<1>8. CASE RunTimesOut(c)
  <2>1. inBox[c] \in Calls
    BY <1>8 DEF RunTimesOut, CallInv
  <2> QED
    BY <1>8, <2>1 DEF RunTimesOut
<1>9. CASE RunFails(c)
  BY <1>9 DEF RunFails
<1> QED
  BY <1>1, <1>2, <1>3, <1>4, <1>5, <1>6, <1>7, <1>8, <1>9

LEMMA SandboxKeepsCall ==
    ASSUME GateInv, NEW c \in Calls, GateTypeOK',
           \/ Route(c) \/ BackendLookup(c) \/ BackendStart(c) \/ BackendStartFails(c) \/ StoreSession(c)
           \/ Exec(c) \/ RunEnds(c) \/ RunTimesOut(c) \/ RunFails(c)
    PROVE  CallInv(c)'
<1>0. /\ GateTypeOK /\ CallInv(c) /\ TablesInv /\ sandbox' = sandbox
      /\ op' = op /\ sess' = sess /\ level' = level /\ llm' = llm /\ approvals' = approvals
  BY DEF GateInv, Route, BackendLookup, BackendStart, BackendStartFails, StoreSession,
         Exec, RunEnds, RunTimesOut, RunFails, sandboxVars, reviewVars
<1>1. Permitted(c)' = Permitted(c) /\ Disabled' = Disabled
  BY <1>0 DEF Permitted, IsChecked, Forbidden, Whitelisted, Disabled
<1>2. Settled(op[c])' = Settled(op[c])
  BY <1>0 DEF Settled, IsChecked, Forbidden, Whitelisted
<1>3. CASE Route(c)
  <2>1. /\ pc[c] = "route" /\ sandboxVars' = sandboxVars
        /\ pc'[c] \in {"host", "refused", "exec", "backend"}
        /\ pc'[c] = "host" => ~ToSandbox(op[c])
    BY <1>0, <1>3 DEF Route, Goto, GateTypeOK
  <2> QED
    BY <1>0, <1>1, <1>2, <2>1 DEF CallInv, sandboxVars, InSandbox, Ran, ToSandbox
<1>4. CASE BackendLookup(c)
  <2>1. /\ pc[c] = "backend" /\ sandboxVars' = sandboxVars
        /\ pc'[c] \in {"store", "start"}
        /\ pc'[c] = "store" => Disabled \/ box[sess[c]] # None
    BY <1>0, <1>4 DEF BackendLookup, Goto, GateTypeOK
  <2> QED
    BY <1>0, <1>1, <1>2, <2>1 DEF CallInv, sandboxVars, InSandbox, Ran
<1>5. CASE BackendStart(c)
  <2>1. /\ pc[c] = "start" /\ pc'[c] = "store" /\ sess[c] \in Sessions /\ inBox' = inBox
    BY <1>0, <1>5 DEF BackendStart, Goto, GateTypeOK, CallInv
  <2>2. box'[sess[c]] # None
    BY <1>0, <1>5, <2>1, NoneAssumption DEF BackendStart, GateTypeOK
  <2> QED
    BY <1>0, <1>1, <1>2, <2>1, <2>2 DEF CallInv, InSandbox, Ran
<1>6. CASE BackendStartFails(c)
  <2>1. pc[c] = "start" /\ pc'[c] = "refused"
    BY <1>0, <1>6 DEF BackendStartFails, Goto, GateTypeOK
  <2> QED
    BY <1>0, <1>1, <1>2, <2>1 DEF CallInv, InSandbox, Ran
<1>7. CASE StoreSession(c)
  <2>1. pc[c] = "store" /\ pc'[c] = "exec"
    BY <1>0, <1>7 DEF StoreSession, Goto, GateTypeOK
  <2> QED
    BY <1>0, <1>1, <1>2, <2>1 DEF CallInv, InSandbox, Ran
<1>8. CASE Exec(c)
  <2>1. /\ pc[c] = "exec" /\ pc'[c] \in {"refused", "run"} /\ inBox'[c] = box[sess[c]]
        /\ pc'[c] = "run" => box[sess[c]] # None
        /\ box' = box /\ started' = started /\ sess[c] \in Sessions
    BY <1>0, <1>8 DEF Exec, Goto, GateTypeOK, CallInv
  <2>2. pc'[c] = "run" => inBox'[c] \in started' /\ sess'[inBox'[c]] = sess'[c]
    BY <1>0, <2>1 DEF TablesInv
  <2> QED
    BY <1>0, <1>1, <1>2, <2>1, <2>2 DEF CallInv, InSandbox, Ran
<1>9. CASE RunEnds(c) \/ RunTimesOut(c) \/ RunFails(c)
  <2>1. /\ pc[c] = "run" /\ pc'[c] \in {"box", "timeout", "refused"}
        /\ started' = started /\ inBox' = inBox
    BY <1>0, <1>9 DEF RunEnds, RunTimesOut, RunFails, Goto, GateTypeOK, sandboxVars
  <2> QED
    BY <1>0, <1>1, <1>2, <2>1 DEF CallInv, InSandbox, Ran
<1> QED
  BY <1>3, <1>4, <1>5, <1>6, <1>7, <1>8, <1>9

LEMMA SandboxKeepsTables ==
    ASSUME GateInv, NEW c \in Calls,
           \/ Route(c) \/ BackendLookup(c) \/ BackendStart(c) \/ BackendStartFails(c) \/ StoreSession(c)
           \/ Exec(c) \/ RunEnds(c) \/ RunTimesOut(c) \/ RunFails(c)
    PROVE  TablesInv'
<1>0. /\ GateTypeOK /\ CallInv(c) /\ TablesInv
      /\ sandbox' = sandbox /\ sess' = sess /\ Disabled' = Disabled
  BY DEF GateInv, Route, BackendLookup, BackendStart, BackendStartFails, StoreSession,
         Exec, RunEnds, RunTimesOut, RunFails, sandboxVars, reviewVars, Disabled
<1>1. CASE UNCHANGED <<table, box, started>>
  BY <1>0, <1>1 DEF TablesInv
<1>2. CASE BackendStart(c)
  <2>1. /\ box' = [box EXCEPT ![sess[c]] = c] /\ started' = started \cup {c} /\ table' = table
        /\ sess[c] \in Sessions /\ c # None
    BY <1>0, <1>2, NoneAssumption DEF BackendStart, CallInv
  <2> QED
    BY <1>0, <2>1 DEF TablesInv, GateTypeOK
<1>3. CASE StoreSession(c)
  BY <1>0, <1>3 DEF StoreSession, TablesInv, CallInv
<1> QED
  BY <1>1, <1>2, <1>3 DEF Route, BackendLookup, BackendStartFails, Exec, RunEnds, RunTimesOut,
     RunFails, sandboxVars

LEMMA CallStepKeepsGate ==
    ASSUME GateInv, NEW c \in Calls, CallStep(c)
    PROVE  GateInv'
<1>1. CASE Check(c) \/ Escalate(c) \/ Review(c) \/ ReviewFails(c)
  BY <1>1, ReviewKeepsGate
<1>2. CASE \/ Route(c) \/ BackendLookup(c) \/ BackendStart(c) \/ BackendStartFails(c) \/ StoreSession(c)
           \/ Exec(c) \/ RunEnds(c) \/ RunTimesOut(c) \/ RunFails(c)
  <2>1. GateTypeOK' /\ StepOf(c)
    BY <1>2, SandboxKeepsTypes
  <2>2. CallInv(c)'
    BY <1>2, <2>1, SandboxKeepsCall
  <2>3. TablesInv'
    BY <1>2, SandboxKeepsTables
  <2> QED
    BY <2>1, <2>2, <2>3, OthersKept DEF GateInv
<1> QED
  BY <1>1, <1>2 DEF CallStep

---------------------------------------------------------------------------
(* What else touches the gate *)

\* The human decides an entry: its call is answered already.
LEMMA DecideKeepsGate ==
    ASSUME GateInv, NEW i \in Calls, NEW d \in {"approved", "rejected"}, Decide(i, d)
    PROVE  GateInv'
<1>1. /\ UNCHANGED <<pc, op, sess, level, llm, sandboxVars>>
      /\ approvals' = [approvals EXCEPT ![i] = d] /\ approvals[i] # "none"
  BY DEF Decide, Known
<1>2. GateTypeOK'
  BY <1>1 DEF GateInv, GateTypeOK, sandboxVars
<1>3. ASSUME NEW c \in Calls PROVE CallInv(c)'
  BY <1>1 DEF GateInv, GateTypeOK, CallInv, sandboxVars, Settled, Permitted, IsChecked, Forbidden,
              Whitelisted, Disabled
<1>4. TablesInv'
  BY <1>1 DEF GateInv, TablesInv, sandboxVars, Disabled
<1> QED
  BY <1>2, <1>3, <1>4 DEF GateInv

\* A step that does not touch the gate.
LEMMA SameKeepsGate ==
    ASSUME GateInv, UNCHANGED gateVars
    PROVE  GateInv'
<1>1. UNCHANGED <<pc, op, sess, level, llm, approvals, sandbox, table, box, started, dead, inBox>>
  BY DEF gateVars, reviewVars, sandboxVars
<1> QED
  BY <1>1 DEF GateInv, GateTypeOK, CallInv, TablesInv, Settled, Permitted, IsChecked, Forbidden,
              Whitelisted, Disabled

\* The model asks for the calls cs.
LEMMA AskKeepsGate ==
    ASSUME GateInv, NEW cs, \A c \in cs : c \in Calls /\ pc[c] = "idle",
           pc' = [c \in Calls |-> IF c \in cs THEN "asked" ELSE pc[c]],
           UNCHANGED <<reviewVars, sandboxVars>>
    PROVE  GateInv'
<1>1. UNCHANGED <<op, sess, level, llm, approvals, sandbox, table, box, started, dead, inBox>>
  BY DEF reviewVars, sandboxVars
<1>2. GateTypeOK'
  BY <1>1 DEF GateInv, GateTypeOK
<1>3. ASSUME NEW c \in Calls PROVE CallInv(c)'
  <2>1. c \in cs => pc[c] = "idle" /\ pc'[c] = "asked"
    OBVIOUS
  <2>2. c \notin cs => pc'[c] = pc[c]
    OBVIOUS
  <2> QED
    BY <1>1, <2>1, <2>2 DEF GateInv, CallInv, Settled, Permitted, IsChecked, Forbidden,
              Whitelisted, Disabled, InSandbox, Ran
<1>4. TablesInv'
  BY <1>1 DEF GateInv, TablesInv, Disabled
<1> QED
  BY <1>2, <1>3, <1>4 DEF GateInv

\* The threads of the calls cs start.
LEMMA StartKeepsGate ==
    ASSUME GateInv, NEW cs, \A c \in cs : c \in Calls /\ pc[c] = "asked",
           NEW s \in Sessions, NEW ask, \A c \in cs : ask[c] \in Ops,
           pc' = [c \in Calls |-> IF c \in cs THEN "check" ELSE pc[c]],
           op' = [c \in Calls |-> IF c \in cs THEN ask[c] ELSE op[c]],
           sess' = [c \in Calls |-> IF c \in cs THEN s ELSE sess[c]],
           UNCHANGED <<level, llm, approvals, sandboxVars>>
    PROVE  GateInv'
<1>1. UNCHANGED <<level, llm, approvals, sandbox, table, box, started, dead, inBox>>
  BY DEF sandboxVars
<1>2. GateTypeOK'
  BY <1>1 DEF GateInv, GateTypeOK
<1>3. \A c \in started : c \in Calls /\ c \notin cs /\ sess'[c] = sess[c]
  BY DEF GateInv, GateTypeOK, CallInv
<1>4. ASSUME NEW c \in Calls PROVE CallInv(c)'
  <2>0. CallInv(c)
    BY DEF GateInv
  <2>1. CASE c \in cs
    <3>1. pc[c] = "asked" /\ pc'[c] = "check" /\ op'[c] \in Ops /\ sess'[c] = s
      BY <2>1
    <3> QED
      BY <1>1, <2>0, <3>1 DEF CallInv, InSandbox, Ran
  <2>2. CASE c \notin cs
    <3>1. pc'[c] = pc[c] /\ op'[c] = op[c] /\ sess'[c] = sess[c]
      BY <2>2
    <3> QED
      BY <1>1, <1>3, <2>0, <3>1 DEF CallInv, Settled, Permitted, IsChecked, Forbidden,
              Whitelisted, Disabled
  <2> QED
    BY <2>1, <2>2
<1>5. TablesInv'
  BY <1>1, <1>3 DEF GateInv, TablesInv, Disabled
<1> QED
  BY <1>2, <1>4, <1>5 DEF GateInv

\* The answers of calls are read.
LEMMA ForgetKeepsGate ==
    ASSUME GateInv, NEW cs, Forget(cs)
    PROVE  GateInv'
<1>1. UNCHANGED <<approvals, sandbox, table, box, started, dead>>
  BY DEF Forget
<1>2. GateTypeOK'
  BY DEF GateInv, GateTypeOK, Forget
<1>3. \A c \in started : c \in Calls /\ sess'[c] = sess[c]
  BY DEF GateInv, GateTypeOK, Forget
<1>4. ASSUME NEW c \in Calls PROVE CallInv(c)'
  <2>0. CallInv(c)
    BY DEF GateInv
  <2>1. CASE c \in cs
    <3>1. pc'[c] = "over"
      BY <2>1 DEF Forget
    <3> QED
      BY <3>1 DEF CallInv, InSandbox, Ran
  <2>2. CASE c \notin cs
    <3>1. /\ pc'[c] = pc[c] /\ op'[c] = op[c] /\ sess'[c] = sess[c] /\ level'[c] = level[c]
          /\ llm'[c] = llm[c] /\ inBox'[c] = inBox[c]
      BY <2>2 DEF Forget
    <3> QED
      BY <1>1, <1>3, <2>0, <3>1 DEF CallInv, Settled, Permitted, IsChecked, Forbidden,
              Whitelisted, Disabled
  <2> QED
    BY <2>1, <2>2
<1>5. TablesInv'
  BY <1>1, <1>3 DEF GateInv, TablesInv, Disabled
<1> QED
  BY <1>2, <1>4, <1>5 DEF GateInv

\* The process dies.
LEMMA ResetKeepsGate ==
    ASSUME GateInv, ResetGate
    PROVE  GateInv'
<1>1. GateTypeOK'
  BY DEF GateInv, GateTypeOK, ResetGate
<1>2. ASSUME NEW c \in Calls PROVE CallInv(c)'
  BY DEF ResetGate, CallInv, InSandbox, Ran
<1>3. TablesInv'
  BY DEF ResetGate, TablesInv
<1> QED
  BY <1>1, <1>2, <1>3 DEF GateInv

---------------------------------------------------------------------------
(* Whose calls they are *)

Places == {"new", "ready", "stream", "sending", "ending", "tools", "proxy", "closed"}

\* A task with no calls moves on in its handler.
LEMMA IdleTaskMoves ==
    ASSUME BatchInv, NEW t \in Tasks, Mine(t) = {}, UNCHANGED gateVars, batch' = batch,
           NEW p \in Places, at' = [at EXCEPT ![t] = p], target' \in [Tasks -> Tasks]
    PROVE  BatchInv'
<1>1. pc' = pc
  BY DEF gateVars
<1>2. at' \in [Tasks -> Places] /\ \A u \in Tasks \ {t} : at'[u] = at[u]
  BY DEF BatchInv, Places
<1>3. \A u \in Tasks : Mine(u)' = Mine(u)
  BY DEF Mine
<1>4. ASSUME NEW u \in Tasks, NEW c \in Mine(u)'
      PROVE  /\ pc'[c] # "idle"
             /\ at'[u] \in {"stream", "sending"} => pc'[c] = "asked"
             /\ at'[u] \in {"stream", "sending", "tools"}
  <2>1. u # t /\ c \in Mine(u) /\ at'[u] = at[u]
    BY <1>2, <1>3, <1>4
  <2> QED
    BY <1>1, <2>1 DEF BatchInv
<1>5. \A u, v \in Tasks : u # v => Mine(u)' \cap Mine(v)' = {}
  BY <1>3 DEF BatchInv
<1> QED
  BY <1>2, <1>4, <1>5 DEF BatchInv, Places

\* A task is done with its calls and moves on.
LEMMA TaskForgets ==
    ASSUME BatchInv, NEW t \in Tasks, Forget(Mine(t)), batch' = [batch EXCEPT ![t] = <<>>],
           NEW p \in Places, at' = [at EXCEPT ![t] = p], target' \in [Tasks -> Tasks]
    PROVE  BatchInv'
<1>1. \A u \in Tasks : Mine(u)' = IF u = t THEN {} ELSE Mine(u)
  BY DEF BatchInv, Mine, ToSet
<1>2. \A u \in Tasks \ {t} : at'[u] = at[u] /\ \A c \in Mine(u) : pc'[c] = pc[c]
  <2>1. \A u \in Tasks : \A c \in Mine(u) : c \in Calls
    BY DEF BatchInv, Mine, ToSet
  <2> QED
    BY <2>1 DEF BatchInv, Forget
<1>3. batch' \in [Tasks -> Seq(Calls)]
  BY DEF BatchInv
<1>4. at' \in [Tasks -> Places]
  BY DEF BatchInv, Places
<1>5. ASSUME NEW u \in Tasks, NEW c \in Mine(u)'
      PROVE  /\ pc'[c] # "idle"
             /\ at'[u] \in {"stream", "sending"} => pc'[c] = "asked"
             /\ at'[u] \in {"stream", "sending", "tools"}
  <2>1. u # t /\ c \in Mine(u) /\ at'[u] = at[u] /\ pc'[c] = pc[c]
    BY <1>1, <1>2, <1>5
  <2> QED
    BY <2>1 DEF BatchInv
<1>6. \A u, v \in Tasks : u # v => Mine(u)' \cap Mine(v)' = {}
  BY <1>1 DEF BatchInv
<1> QED
  BY <1>3, <1>4, <1>5, <1>6 DEF BatchInv, Places

\* The calls of a new message belong to no other.
LEMMA TaskAsks ==
    ASSUME BatchInv, GateTypeOK, NEW t \in Tasks, Mine(t) = {}, at[t] = "stream",
           NEW b \in FreshBatches(t), Ask(t, b), UNCHANGED target,
           NEW p \in {"stream", "sending"}, at' = [at EXCEPT ![t] = p]
    PROVE  BatchInv'
<1>1. b \in Seq(Calls) /\ \A c \in ToSet(b) : c \in Calls /\ pc[c] = "idle"
  BY DEF FreshBatches, ToSet
<1>2. \A u \in Tasks : Mine(u)' = IF u = t THEN ToSet(b) ELSE Mine(u)
  BY DEF BatchInv, Mine, Ask, ToSet
<1>3. \A u \in Tasks : \A c \in Mine(u) : c \in Calls /\ c \notin ToSet(b) /\ pc'[c] = pc[c]
  <2>1. \A u \in Tasks : \A c \in Mine(u) : c \in Calls /\ pc[c] # "idle"
    BY DEF BatchInv, Mine, ToSet
  <2> QED
    BY <1>1, <2>1 DEF Ask
<1>4. \A c \in ToSet(b) : pc'[c] = "asked"
  BY <1>1 DEF Ask
<1>5. batch' \in [Tasks -> Seq(Calls)]
  BY <1>1 DEF BatchInv, Ask
<1>6. at' \in [Tasks -> Places] /\ at'[t] = p /\ \A u \in Tasks \ {t} : at'[u] = at[u]
  BY DEF BatchInv, Places
<1>7. ASSUME NEW u \in Tasks, NEW c \in Mine(u)'
      PROVE  /\ pc'[c] # "idle"
             /\ at'[u] \in {"stream", "sending"} => pc'[c] = "asked"
             /\ at'[u] \in {"stream", "sending", "tools"}
  <2>1. CASE u = t
    BY <1>2, <1>4, <1>6, <1>7, <2>1
  <2>2. CASE u # t
    <3>1. c \in Mine(u) /\ at'[u] = at[u] /\ pc'[c] = pc[c]
      BY <1>2, <1>3, <1>6, <1>7, <2>2
    <3> QED
      BY <3>1 DEF BatchInv
  <2> QED
    BY <2>1, <2>2
<1>8. \A u, v \in Tasks : u # v => Mine(u)' \cap Mine(v)' = {}
  <2>1. ASSUME NEW u \in Tasks, NEW v \in Tasks, u # v, NEW c \in Mine(u)', c \in Mine(v)'
        PROVE  FALSE
    <3>1. CASE u = t
      BY <1>2, <1>3, <2>1, <3>1
    <3>2. CASE v = t
      BY <1>2, <1>3, <2>1, <3>2
    <3>3. CASE u # t /\ v # t
      BY <1>2, <2>1, <3>3 DEF BatchInv
    <3> QED
      BY <3>1, <3>2, <3>3
  <2> QED
    BY <2>1
<1> QED
  BY <1>5, <1>6, <1>7, <1>8 DEF BatchInv, Places, Ask

\* A connection sends a frame.
LEMMA SendKeepsBatches ==
    ASSUME BatchInv, NEW w \in Tasks, Send(w)
    PROVE  BatchInv'
<1>1. pc' = pc /\ batch' = batch /\ target' = target /\ at[w] = "sending"
  BY DEF Send, gateVars
<1>2. PICK p \in Places : /\ at' = [at EXCEPT ![w] = p]
                          /\ p \in {"sending", "stream"} \/ batch[w] = <<>>
  <2>1. CASE at' = at
    BY <1>1, <2>1 DEF BatchInv, Places
  <2>2. CASE At(w, IF batch[w] = <<>> THEN "ending" ELSE "stream")
    BY <2>2 DEF At, Places
  <2> QED
    BY <2>1, <2>2 DEF Send
<1>3. at' \in [Tasks -> Places] /\ at'[w] = p /\ \A u \in Tasks \ {w} : at'[u] = at[u]
  BY <1>2 DEF BatchInv, Places
<1>4. batch[w] = <<>> => Mine(w) = {}
  BY DEF Mine, ToSet
<1> QED
  BY <1>1, <1>2, <1>3, <1>4 DEF BatchInv, Mine, Places

\* The threads of a message start.
LEMMA StartToolsKeeps ==
    ASSUME IInv, NEW t \in Tasks, StartTools(t)
    PROVE  IInv'
<1>0. /\ BatchInv /\ GateInv /\ at[t] = "stream" /\ batch' = batch /\ target' = target
      /\ at' = [at EXCEPT ![t] = "tools"] /\ batch[t] \in Seq(Calls)
  BY DEF IInv, StartTools, At, BatchInv
<1> DEFINE Of(c) == CHOOSE i \in DOMAIN batch[t] : batch[t][i] = c
<1>1. PICK ask \in [DOMAIN batch[t] -> Ops] :
        /\ pc' = [c \in Calls |-> IF c \in Mine(t) THEN "check" ELSE pc[c]]
        /\ op' = [c \in Calls |-> IF c \in Mine(t) THEN ask[Of(c)] ELSE op[c]]
        /\ sess' = [c \in Calls |-> IF c \in Mine(t) THEN KeyFor(target[t]) ELSE sess[c]]
        /\ UNCHANGED <<level, llm, approvals, sandboxVars>>
  BY DEF StartTools, Mine
<1>2. \A c \in Mine(t) : c \in Calls /\ pc[c] = "asked" /\ ask[Of(c)] \in Ops
  <2>1. SUFFICES ASSUME NEW c \in Mine(t)
                 PROVE  c \in Calls /\ pc[c] = "asked" /\ ask[Of(c)] \in Ops
    OBVIOUS
  <2>2. c \in Calls /\ pc[c] = "asked"
    BY <1>0 DEF BatchInv, Mine, ToSet
  <2>3. \E i \in DOMAIN batch[t] : batch[t][i] = c
    BY DEF Mine, ToSet
  <2>4. Of(c) \in DOMAIN batch[t]
    BY <2>3
  <2> HIDE DEF Of
  <2> QED
    BY <2>2, <2>4
<1>3. KeyFor(target[t]) \in Sessions
  BY <1>0, TasksAssumption DEF BatchInv, KeyFor, Tasks
<1>4. GateInv'
  <2> DEFINE asks == [c \in Mine(t) |-> ask[Of(c)]]
             s == KeyFor(target[t])
             cs == Mine(t)
  <2>1. op' = [c \in Calls |-> IF c \in cs THEN asks[c] ELSE op[c]]
    BY <1>1
  <2>2. \A c \in cs : asks[c] \in Ops
    BY <1>2
  <2>3. /\ pc' = [c \in Calls |-> IF c \in cs THEN "check" ELSE pc[c]]
        /\ sess' = [c \in Calls |-> IF c \in cs THEN s ELSE sess[c]]
        /\ \A c \in cs : c \in Calls /\ pc[c] = "asked"
        /\ s \in Sessions
    BY <1>1, <1>2, <1>3
  <2> HIDE DEF asks, s, cs
  <2> QED
    BY <1>0, <1>1, <2>1, <2>2, <2>3, StartKeepsGate
<1>5. BatchInv'
  <2>1. \A u \in Tasks \ {t} : at'[u] = at[u] /\ \A c \in Mine(u) : c \in Calls /\ pc'[c] = pc[c]
    <3>1. \A u \in Tasks : \A c \in Mine(u) : c \in Calls
      BY <1>0 DEF BatchInv, Mine, ToSet
    <3> QED
      BY <1>0, <1>1, <3>1 DEF BatchInv
  <2>2. \A c \in Mine(t) : pc'[c] = "check"
    BY <1>1, <1>2
  <2>3. at' \in [Tasks -> Places] /\ at'[t] = "tools" /\ \A u \in Tasks : Mine(u)' = Mine(u)
    BY <1>0 DEF BatchInv, Mine, Places
  <2> QED
    BY <1>0, <2>1, <2>2, <2>3 DEF BatchInv, Places
<1> QED
  BY <1>4, <1>5 DEF IInv

\* A call that takes a step has a thread, and takes no other along.
LEMMA CallMoves ==
    ASSUME GateTypeOK, NEW c \in Calls, CallStep(c)
    PROVE  /\ pc[c] \notin {"idle", "asked", "over"} /\ pc'[c] # "idle"
           /\ pc' = [pc EXCEPT ![c] = pc'[c]]
<1>1. CASE Check(c)
  BY <1>1 DEF GateTypeOK, Check, Goto, AfterL2
<1>2. CASE Escalate(c)
  <2>1. PICK l \in Levels : pc[c] = "check" /\ Goto(c, Escalated(l))
    BY <1>2 DEF Escalate
  <2>2. Escalated(l) \in {"blocked", "llm", "pending"}
    BY DEF Escalated, Levels
  <2> QED
    BY <2>1, <2>2 DEF GateTypeOK, Goto
<1>3. CASE Review(c)
  <2>1. PICK v \in Verdicts : pc[c] = "llm" /\ Goto(c, AfterL3(v))
    BY <1>3 DEF Review
  <2>2. AfterL3(v) \in {"blocked", "route", "pending"}
    BY DEF AfterL3, Verdicts
  <2> QED
    BY <2>1, <2>2 DEF GateTypeOK, Goto
<1>4. CASE Route(c)
  <2>1. PICK p \in {"host", "refused", "exec", "backend"} : pc[c] = "route" /\ Goto(c, p)
    BY <1>4 DEF Route
  <2> QED
    BY <2>1 DEF GateTypeOK, Goto
<1>5. CASE \/ ReviewFails(c) \/ BackendLookup(c) \/ BackendStart(c) \/ BackendStartFails(c)
           \/ StoreSession(c) \/ Exec(c) \/ RunEnds(c) \/ RunTimesOut(c) \/ RunFails(c)
  BY <1>5 DEF GateTypeOK, Goto, ReviewFails, BackendLookup, BackendStart, BackendStartFails,
     StoreSession, Exec, RunEnds, RunTimesOut, RunFails
<1> QED
  BY <1>1, <1>2, <1>3, <1>4, <1>5 DEF CallStep

\* The steps of the calls themselves.
LEMMA CallStepKeepsBatches ==
    ASSUME IInv, NEW c \in Calls, CallStep(c), UNCHANGED turnVars
    PROVE  BatchInv'
<1>1. BatchInv /\ GateTypeOK /\ UNCHANGED <<batch, at, target>>
  BY DEF IInv, GateInv, turnVars
<1>2. pc[c] \notin {"idle", "asked"} /\ pc' = [pc EXCEPT ![c] = pc'[c]] /\ pc'[c] # "idle"
  BY <1>1, CallMoves
<1>3. \A d \in Calls : /\ pc'[d] = "idle" => pc[d] = "idle"
                       /\ pc[d] = "asked" => pc'[d] = "asked"
  BY <1>1, <1>2 DEF GateTypeOK
<1>4. \A u \in Tasks : Mine(u)' = Mine(u) /\ \A d \in Mine(u) : d \in Calls
  BY <1>1 DEF BatchInv, Mine, ToSet
<1> QED
  BY <1>1, <1>3, <1>4 DEF BatchInv

---------------------------------------------------------------------------
(* The steps of the tasks *)

LEMMA ConnStepKeeps ==
    ASSUME IInv, NEW w \in Conns, ConnStep(w)
    PROVE  IInv'
<1>0. /\ GateInv /\ GateTypeOK /\ BatchInv /\ w \in Tasks /\ target \in [Tasks -> Tasks]
  BY DEF IInv, GateInv, BatchInv, Tasks
<1>a. batch[w] = <<>> => Mine(w) = {}
  BY DEF Mine, ToSet
<1>b. at[w] \in {"new", "ready", "proxy"} => Mine(w) = {}
  BY <1>0 DEF BatchInv
<1>1. CASE \/ Open(w) \/ Disconnect(w) \/ BeginTurn(w) \/ BeginTurnFails(w) \/ EndTurn(w)
           \/ BeginProxy(w) \/ ProxyFails(w) \/ ProxyEnds(w)
  <2>1. /\ UNCHANGED gateVars /\ batch' = batch /\ target' = target /\ Mine(w) = {}
        /\ \E p \in Places : at' = [at EXCEPT ![w] = p]
    BY <1>0, <1>a, <1>b, <1>1 DEF Open, Disconnect, BeginTurn, BeginTurnFails, EndTurn, BeginProxy,
       ProxyFails, ProxyEnds, At, Places
  <2> QED
    BY <1>0, <2>1, SameKeepsGate, IdleTaskMoves DEF IInv
<1>2. CASE ProxyChunk(w)
  <2>1. UNCHANGED gateVars /\ UNCHANGED <<batch, at, target>> /\ pc' = pc
    BY <1>2 DEF ProxyChunk, gateVars
  <2> QED
    BY <1>0, <2>1, SameKeepsGate DEF IInv, BatchInv, Mine
<1>3. CASE AiMessage(w)
  <2>1. PICK b \in FreshBatches(w) : /\ Ask(w, b) /\ at[w] = "stream" /\ batch[w] = <<>>
                                     /\ at' = [at EXCEPT ![w] = "sending"] /\ target' = target
                                     /\ UNCHANGED <<reviewVars, sandboxVars>>
    BY <1>3 DEF AiMessage, At
  <2>2. BatchInv'
    BY <1>0, <1>a, <2>1, TaskAsks
  <2>3. \A c \in ToSet(b) : c \in Calls /\ pc[c] = "idle"
    BY <2>1 DEF FreshBatches, ToSet
  <2>4. GateInv'
    BY <1>0, <2>1, <2>3, AskKeepsGate DEF Ask
  <2> QED
    BY <2>2, <2>4 DEF IInv
<1>4. CASE Send(w)
  BY <1>0, <1>4, SendKeepsBatches, SameKeepsGate DEF IInv, Send
<1>5. CASE SendFails(w) \/ ToolsDone(w) \/ ToolsFail(w)
  <2>1. /\ Forget(Mine(w)) /\ batch' = [batch EXCEPT ![w] = <<>>] /\ target' = target
        /\ \E p \in Places : at' = [at EXCEPT ![w] = p]
    BY <1>5 DEF SendFails, ToolsDone, ToolsFail, At, Places, Mine
  <2> QED
    BY <1>0, <2>1, ForgetKeepsGate, TaskForgets DEF IInv
<1>6. CASE StartTools(w)
  BY <1>0, <1>6, StartToolsKeeps
<1> QED
  BY <1>1, <1>2, <1>3, <1>4, <1>5, <1>6 DEF ConnStep

LEMMA ReqStepKeeps ==
    ASSUME IInv, NEW r \in Reqs, ReqStep(r)
    PROVE  IInv'
<1>0. /\ GateInv /\ GateTypeOK /\ BatchInv /\ r \in Tasks /\ target \in [Tasks -> Tasks]
  BY DEF IInv, GateInv, BatchInv, Tasks
<1>a. batch[r] = <<>> => Mine(r) = {}
  BY DEF Mine, ToSet
<1>b. at[r] = "new" => Mine(r) = {}
  BY <1>0 DEF BatchInv
<1>1. CASE Request(r) \/ ProxyRequest(r) \/ Answer(r)
  <2>1. /\ UNCHANGED gateVars /\ batch' = batch /\ Mine(r) = {}
        /\ \E p \in Places : at' = [at EXCEPT ![r] = p]
    BY <1>0, <1>a, <1>b, <1>1 DEF Request, ProxyRequest, Answer, At, Places
  <2>2. target' \in [Tasks -> Tasks]
    <3>1. Nameable(r) \subseteq Tasks
      BY <1>0 DEF Nameable, Tasks
    <3> QED
      BY <1>0, <1>1, <3>1 DEF Request, ProxyRequest, Answer
  <2> QED
    BY <1>0, <2>1, <2>2, SameKeepsGate, IdleTaskMoves DEF IInv
<1>2. CASE RequestCalls(r)
  <2>1. PICK b \in FreshBatches(r) : /\ Ask(r, b) /\ at[r] = "stream" /\ batch[r] = <<>>
                                     /\ at' = at /\ target' = target
                                     /\ UNCHANGED <<reviewVars, sandboxVars>>
    BY <1>2 DEF RequestCalls
  <2>2. at' = [at EXCEPT ![r] = "stream"]
    BY <1>0, <2>1 DEF BatchInv
  <2>3. BatchInv'
    BY <1>0, <1>a, <2>1, <2>2, TaskAsks
  <2>4. \A c \in ToSet(b) : c \in Calls /\ pc[c] = "idle"
    BY <2>1 DEF FreshBatches, ToSet
  <2>5. GateInv'
    BY <1>0, <2>1, <2>4, AskKeepsGate DEF Ask
  <2> QED
    BY <2>3, <2>5 DEF IInv
<1>3. CASE RequestTools(r) \/ RequestFails(r)
  <2>1. /\ Forget(Mine(r)) /\ batch' = [batch EXCEPT ![r] = <<>>]
        /\ \E p \in Places : at' = [at EXCEPT ![r] = p]
        /\ target' \in [Tasks -> Tasks]
    BY <1>0, <1>3 DEF RequestTools, RequestFails, At, Places, Mine
  <2> QED
    BY <1>0, <2>1, ForgetKeepsGate, TaskForgets DEF IInv
<1>4. CASE StartTools(r)
  BY <1>0, <1>4, StartToolsKeeps
<1> QED
  BY <1>1, <1>2, <1>3, <1>4 DEF ReqStep

LEMMA CrashKeeps ==
    ASSUME IInv, Crash
    PROVE  IInv'
<1>1. /\ ResetGate /\ batch' = [u \in Tasks |-> <<>>] /\ target' = target
      /\ at' = [u \in Tasks |-> IF at[u] = "new" THEN "new" ELSE "closed"]
  BY DEF Crash
<1>2. \A u \in Tasks : Mine(u)' = {}
  BY <1>1 DEF Mine, ToSet
<1>3. BatchInv'
  <2>1. batch' \in [Tasks -> Seq(Calls)]
    BY <1>1
  <2> QED
    BY <1>1, <1>2, <2>1 DEF IInv, BatchInv
<1> QED
  BY <1>1, <1>3, ResetKeepsGate DEF IInv

---------------------------------------------------------------------------
(* The theorems *)

LEMMA InitHolds == Init => IInv
<1> SUFFICES ASSUME Init PROVE IInv
  OBVIOUS
<1>1. GateTypeOK
  BY DEF Init, GateInit, GateTypeOK
<1>2. \A c \in Calls : CallInv(c)
  BY DEF Init, GateInit, CallInv, InSandbox, Ran
<1>3. TablesInv
  BY DEF Init, GateInit, TablesInv
<1>4. BatchInv
  <2>1. \A t \in Tasks : Mine(t) = {}
    BY DEF Init, Mine, ToSet
  <2> QED
    BY <2>1 DEF Init, BatchInv
<1> QED
  BY <1>1, <1>2, <1>3, <1>4 DEF IInv, GateInv

LEMMA NextKeeps == IInv /\ [Next]_vars => IInv'
<1> SUFFICES ASSUME IInv, [Next]_vars PROVE IInv'
  OBVIOUS
<1>1. ASSUME NEW w \in Conns, ConnStep(w) PROVE IInv'
  BY <1>1, ConnStepKeeps
<1>2. ASSUME NEW r \in Reqs, ReqStep(r) PROVE IInv'
  BY <1>2, ReqStepKeeps
<1>3. ASSUME NEW c \in Calls, CallStep(c), UNCHANGED turnVars PROVE IInv'
  BY <1>3, CallStepKeepsGate, CallStepKeepsBatches DEF IInv
<1>4. ASSUME NEW i \in Calls, NEW d \in {"approved", "rejected"}, Decide(i, d), UNCHANGED turnVars
      PROVE  IInv'
  <2>1. GateInv'
    BY <1>4, DecideKeepsGate DEF IInv
  <2>2. UNCHANGED <<pc, batch, at, target>>
    BY <1>4 DEF Decide, turnVars
  <2> QED
    BY <2>1, <2>2 DEF IInv, BatchInv, Mine
<1>5. CASE Crash
  BY <1>5, CrashKeeps
<1>6. CASE UNCHANGED vars
  <2>1. UNCHANGED gateVars /\ UNCHANGED <<pc, batch, at, target>>
    BY <1>6 DEF vars, gateVars, turnVars
  <2> QED
    BY <2>1, SameKeepsGate DEF IInv, BatchInv, Mine
<1> QED
  BY <1>1, <1>2, <1>3, <1>4, <1>5, <1>6 DEF Next

\* What the gate keeps of a call stays of its type, whatever the turns and crashes do.
THEOREM GateTypeCorrect == Spec => []GateTypeOK
<1>1. IInv => GateTypeOK
  BY DEF IInv, GateInv
<1> QED
  BY <1>1, InitHolds, NextKeeps, PTL DEF Spec

\* No call gets past the approval chain but as the levels allow, and none that was
\* filed for a human runs (approval.py check).
THEOREM ReviewedCorrect == Spec => []ReviewedBeforeRun
<1>1. IInv => ReviewedBeforeRun
  BY DEF IInv, GateInv, CallInv, ReviewedBeforeRun
<1> QED
  BY <1>1, InitHolds, NextKeeps, PTL DEF Spec

\* No sandboxed tool runs on the host while the sandbox is enabled, and none in the
\* container of another session (sandbox/manager.py, backends.py).
THEOREM SandboxCorrect == Spec => []SandboxContains
<1>1. IInv => SandboxContains
  BY DEF IInv, GateInv, CallInv, TablesInv, SandboxContains
<1> QED
  BY <1>1, InitHolds, NextKeeps, PTL DEF Spec

\* A call belongs to at most one AI message, from when the model asks for it until
\* its answer is read, and its thread starts once.
THEOREM BatchesDisjoint == Spec => []BatchInv
<1>1. IInv => BatchInv
  BY DEF IInv
<1> QED
  BY <1>1, InitHolds, NextKeeps, PTL DEF Spec

---------------------------------------------------------------------------
(* The session log: what each handler leaves in the file of its session.  *)

\* The lines of a WebSocket turn.
Told == {"human", "calls", "tool", "final", "ai"}

\* The places of an internal turn.
InTurn == {"stream", "sending", "ending", "tools"}

TurnTypeOK ==
    /\ loop \in Tasks \cup {None}
    /\ kind \in [Conns -> Kinds \cup {None}]
    /\ manifest \in [Conns -> BOOLEAN]
    /\ turn \in [Tasks -> Nat]
    /\ out \in [Conns -> Seq(Frame)]
    /\ events \in [Conns -> Seq(Frame)]
    /\ text \in [Conns -> Nat]
    /\ shown \in [Conns -> Shown]
    /\ log \in [Tasks -> Seq(Line)]
    /\ crashes \in Nat

\* A connection writes to its own session; a request to its own, or to one there is.
TargetInv ==
    /\ \A w \in Conns : target[w] = w
    /\ \A r \in Reqs : /\ target[r] = r \/ (target[r] \in Conns /\ at[target[r]] # "new")
                       /\ at[r] # "proxy"

\* A call whose thread has started belongs to somebody.
OwnedInv == \A c \in Calls : pc[c] \notin {"idle", "asked", "over"} => \E t \in Tasks : c \in Mine(t)

\* What the handler knows of the turn it is in.
HandlerInv(w) ==
    /\ at[w] = "new" => log[w] = <<>> /\ turn[w] = 0 /\ kind[w] = None
    /\ at[w] \in InTurn => kind[w] = "internal" /\ turn[w] > 0
    /\ at[w] = "proxy" => kind[w] = "external" /\ turn[w] > 0
    /\ out[w] # <<>> => at[w] = "sending"
    /\ at[w] \in InTurn => events[w] = Opening(w) \o shown[w].marks
    /\ at[w] \in InTurn \cup {"proxy"} => text[w] = shown[w].chunks

\* The calls of the message at hand are in the file, and shown or about to be.
MessageInv(w) == \A c \in Mine(w) :
    /\ \E i \in DOMAIN log[w] : log[w][i].by = w /\ log[w][i].type = "calls" /\ c \in log[w][i].calls
    /\ ToolCallEvent(c) \in ToSet(out[w]) \cup ToSet(shown[w].marks)

Own(w, i) == log[w][i].by = w /\ log[w][i].type \in Told

\* What the file tells of the turns.
IsOpen(w, k) ==
    /\ LinesOf(log[w], w, k, {"human"}) # {} /\ LinesOf(log[w], w, k, {"final", "ai"}) = {}
    /\ \A h \in LinesOf(log[w], w, k, {"human"}), i \in LinesOf(log[w], w, k, {"calls", "tool"}) : h < i

FileInv(w) ==
    /\ at[w] # "closed" => \A i \in DOMAIN log[w] : log[w][i].type # "torn"
    /\ \A i \in DOMAIN log[w] : Own(w, i) => log[w][i].turn \in 1..turn[w]
    /\ \A k \in 1..turn[w] :
        /\ Bracketed(w, k)
        /\ k = turn[w] /\ at[w] \in InTurn => IsOpen(w, k)
        /\ k = turn[w] /\ at[w] = "proxy" => LinesOf(log[w], w, k, Told) = {}

\* What the final line of turn k, the one the connection is at, tells of the answer.
Tells(w, k) == \A i \in LinesOf(log[w], w, k, {"final"}) :
    /\ log[w][i].events = Opening(w) \o shown[w].marks
    /\ log[w][i].text \in {shown[w].chunks, shown[w].chunks + 1}
    /\ at[w] = "ready" => log[w][i].text = shown[w].chunks

FinalInv(w) == at[w] # "closed" \/ crashes = 0 => \A k : k = turn[w] => Tells(w, k)

ConnInv(w) == HandlerInv(w) /\ MessageInv(w) /\ FileInv(w) /\ FinalInv(w)

LogInv ==
    /\ TurnTypeOK /\ TargetInv /\ OwnedInv
    /\ \A w \in Conns : ConnInv(w)

---------------------------------------------------------------------------
(* Writing to a file *)

LineTypes == {"human", "ai", "calls", "tool", "final", "http", "torn", "garbage"}

LEMMA LineIsLine ==
    ASSUME TurnTypeOK, NEW t \in Tasks, NEW type \in LineTypes, NEW calls \in SUBSET Calls,
           NEW n \in Nat, NEW ev \in Seq(Frame)
    PROVE  L(t, type, calls, n, ev) \in Line
<1>1. turn[t] \in Nat
  BY DEF TurnTypeOK
<1> QED
  BY <1>1 DEF L, Line, LineTypes

LEMMA AppendOne ==
    ASSUME NEW old \in Seq(Line), NEW line \in Line
    PROVE  Append(old, line) = old \o <<line>>
OBVIOUS

\* A file whose lines are all whole only grows.
LEMMA WriteClean ==
    ASSUME NEW old \in Seq(Line), NEW line, \A i \in DOMAIN old : old[i].type # "torn"
    PROVE  WriteMessage(old, line) = Append(old, line)
<1>1. old # <<>> => Len(old) \in DOMAIN old
  OBVIOUS
<1> QED
  BY <1>1 DEF WriteMessage, Last

LEMMA WriteAllClean ==
    ASSUME NEW old \in Seq(Line), NEW lines \in Seq(Line), \A i \in DOMAIN old : old[i].type # "torn"
    PROVE  WriteAll(old, lines) = old \o lines
<1>1. CASE lines = <<>>
  <2>1. old \o <<>> = old
    OBVIOUS
  <2> QED
    BY <1>1, <2>1 DEF WriteAll
<1>2. CASE lines # <<>>
  <2>1. WriteAll(old, lines) = Append(old, Head(lines)) \o Tail(lines)
    BY <1>2, WriteClean DEF WriteAll
  <2>2. Append(old, Head(lines)) \o Tail(lines) = old \o lines
    BY <1>2
  <2> QED
    BY <2>1, <2>2
<1> QED
  BY <1>1, <1>2

\* Whatever a file ends with, its whole lines stay.
LEMMA WriteKeeps ==
    ASSUME NEW old \in Seq(Line), NEW line \in Line
    PROVE  LET new == WriteMessage(old, line) IN
           /\ new \in Seq(Line)
           /\ \A i \in DOMAIN old : old[i].type # "torn" => i \in DOMAIN new /\ new[i] = old[i]
           /\ \A i \in DOMAIN new : \/ i \in DOMAIN old /\ new[i] = old[i]
                                    \/ new[i].by = line.by /\ new[i].type \in {line.type, "garbage"}
<1>1. CASE old # <<>> /\ Last(old).type = "torn"
  <2> DEFINE merged == [line EXCEPT !.type = IF @ = "torn" THEN "torn" ELSE "garbage"]
  <2>1. merged \in Line /\ merged.by = line.by /\ merged.type \in {line.type, "garbage"}
    BY DEF Line
  <2>2. WriteMessage(old, line) = Append(SubSeq(old, 1, Len(old) - 1), merged)
    BY <1>1 DEF WriteMessage, Front
  <2> HIDE DEF merged
  <2>3. Len(old) > 0 /\ old[Len(old)].type = "torn"
    BY <1>1 DEF Last
  <2> QED
    BY <2>1, <2>2, <2>3
<1>2. CASE ~(old # <<>> /\ Last(old).type = "torn")
  <2>1. WriteMessage(old, line) = Append(old, line)
    BY <1>2 DEF WriteMessage
  <2> QED
    BY <2>1
<1> QED
  BY <1>1, <1>2

---------------------------------------------------------------------------
(* The lines of a turn *)

\* Nothing is written that tells of a turn of connection w.
Undisturbed(w) ==
    /\ \A i \in DOMAIN log[w] :
            log[w][i].type # "torn" => i \in DOMAIN log'[w] /\ log'[w][i] = log[w][i]
    /\ \A i \in DOMAIN log'[w] : \/ i \in DOMAIN log[w] /\ log'[w][i] = log[w][i]
                                 \/ ~(log'[w][i].by = w /\ log'[w][i].type \in Told)

LEMMA LinesStay ==
    ASSUME NEW w \in Conns, Undisturbed(w), NEW k, NEW types \in SUBSET Told
    PROVE  /\ LinesOf(log'[w], w, k, types) = LinesOf(log[w], w, k, types)
           /\ \A i \in LinesOf(log[w], w, k, types) : log'[w][i] = log[w][i]
<1>1. "torn" \notin types
  BY DEF Told
<1>2. ASSUME NEW i \in LinesOf(log[w], w, k, types)
      PROVE  log'[w][i] = log[w][i] /\ i \in LinesOf(log'[w], w, k, types)
  BY <1>1 DEF LinesOf, Undisturbed
<1>3. ASSUME NEW i \in LinesOf(log'[w], w, k, types) PROVE i \in LinesOf(log[w], w, k, types)
  BY DEF LinesOf, Undisturbed
<1> QED
  BY <1>2, <1>3

LEMMA FileGrows ==
    ASSUME NEW old \in Seq(Line), NEW lines \in Seq(Line)
    PROVE  LET new == old \o lines IN
           /\ \A i \in DOMAIN old : i \in DOMAIN new /\ new[i] = old[i]
           /\ \A i \in DOMAIN new : i \notin DOMAIN old =>
                    i - Len(old) \in DOMAIN lines /\ new[i] = lines[i - Len(old)]
OBVIOUS

\* Lines of other turns do not touch turn k.
LEMMA LinesAdded ==
    ASSUME NEW w, NEW old \in Seq(Line), NEW lines \in Seq(Line),
           NEW k, \A j \in DOMAIN lines : lines[j].turn # k, NEW types
    PROVE  LinesOf(old \o lines, w, k, types) = LinesOf(old, w, k, types)
<1> DEFINE new == old \o lines
<1>1. /\ \A i \in DOMAIN old : i \in DOMAIN new /\ new[i] = old[i]
      /\ \A i \in DOMAIN new : i \notin DOMAIN old => new[i].turn # k
  BY FileGrows
<1> HIDE DEF new
<1>2. LinesOf(new, w, k, types) = LinesOf(old, w, k, types)
  BY <1>1 DEF LinesOf
<1> QED
  BY <1>2 DEF new

\* A turn that was over stays as it was.
LEMMA OldTurnStays ==
    ASSUME NEW w \in Conns, NEW k, Bracketed(w, k), k < turn[w] \/ at[w] = "ready",
           \A types \in SUBSET Told : LinesOf(log'[w], w, k, types) = LinesOf(log[w], w, k, types)
    PROVE  Bracketed(w, k)'
<1>1. /\ LinesOf(log'[w], w, k, {"human"}) = LinesOf(log[w], w, k, {"human"})
      /\ LinesOf(log'[w], w, k, {"final", "ai"}) = LinesOf(log[w], w, k, {"final", "ai"})
      /\ LinesOf(log'[w], w, k, {"calls", "tool"}) = LinesOf(log[w], w, k, {"calls", "tool"})
  BY DEF Told
<1> QED
  BY <1>1 DEF Bracketed

---------------------------------------------------------------------------
(* What a connection keeps while others act *)

SameTurn(w) ==
    /\ at'[w] = at[w] /\ kind'[w] = kind[w] /\ manifest'[w] = manifest[w] /\ turn'[w] = turn[w]
    /\ out'[w] = out[w] /\ events'[w] = events[w] /\ text'[w] = text[w] /\ shown'[w] = shown[w]
    /\ crashes' = crashes

\* Whole lines stay whole, so the calls at hand are still in the file.
LEMMA MessageStays ==
    ASSUME NEW w \in Conns, MessageInv(w), batch'[w] = batch[w],
           \A i \in DOMAIN log[w] :
                log[w][i].type # "torn" => i \in DOMAIN log'[w] /\ log'[w][i] = log[w][i],
           \A c \in Mine(w) : ToolCallEvent(c) \in ToSet(out[w]) \cup ToSet(shown[w].marks) =>
                ToolCallEvent(c) \in ToSet(out'[w]) \cup ToSet(shown'[w].marks)
    PROVE  MessageInv(w)'
<1>1. Mine(w)' = Mine(w)
  BY DEF Mine
<1>2. ASSUME NEW c \in Mine(w)
      PROVE  \E i \in DOMAIN log'[w] : log'[w][i].by = w /\ log'[w][i].type = "calls" /\ c \in log'[w][i].calls
  <2>1. PICK i \in DOMAIN log[w] : log[w][i].by = w /\ log[w][i].type = "calls" /\ c \in log[w][i].calls
    BY DEF MessageInv
  <2>2. i \in DOMAIN log'[w] /\ log'[w][i] = log[w][i]
    BY <2>1
  <2> QED
    BY <2>1, <2>2
<1>3. ASSUME NEW c \in Mine(w)
      PROVE  ToolCallEvent(c)' \in ToSet(out'[w]) \cup ToSet(shown'[w].marks)
  BY DEF MessageInv, ToolCallEvent
<1> QED
  BY <1>1, <1>2, <1>3 DEF MessageInv

\* A line of no turn of w, written to its file or to another.
LEMMA OthersKeepConn ==
    ASSUME NEW w \in Conns, ConnInv(w), SameTurn(w), batch'[w] = batch[w], Undisturbed(w),
           at[w] # "closed" => \A i \in DOMAIN log'[w] : log'[w][i].type # "torn",
           at[w] = "new" => log'[w] = log[w]
    PROVE  ConnInv(w)'
<1>1. HandlerInv(w)'
  BY DEF ConnInv, HandlerInv, SameTurn, Opening
<1>2. MessageInv(w)'
  <2>1. out'[w] = out[w] /\ shown'[w] = shown[w]
    BY DEF SameTurn
  <2> QED
    BY <2>1, MessageStays DEF ConnInv, Undisturbed
<1>3. \A k : \A types \in SUBSET Told : LinesOf(log'[w], w, k, types) = LinesOf(log[w], w, k, types)
  BY LinesStay
<1>4. FileInv(w)'
  <2>1. FileInv(w)
    BY DEF ConnInv
  <2>2. \A i \in DOMAIN log'[w] : Own(w, i)' => log'[w][i].turn \in 1..turn'[w]
    BY <2>1 DEF FileInv, Own, SameTurn, Undisturbed
  <2>3. ASSUME NEW k \in 1..turn'[w]
        PROVE  /\ Bracketed(w, k)'
               /\ k = turn'[w] /\ at'[w] \in InTurn => IsOpen(w, k)'
               /\ k = turn'[w] /\ at'[w] = "proxy" => LinesOf(log'[w], w, k, Told) = {}
    <3>1. /\ LinesOf(log'[w], w, k, {"human"}) = LinesOf(log[w], w, k, {"human"})
          /\ LinesOf(log'[w], w, k, {"final", "ai"}) = LinesOf(log[w], w, k, {"final", "ai"})
          /\ LinesOf(log'[w], w, k, {"calls", "tool"}) = LinesOf(log[w], w, k, {"calls", "tool"})
          /\ LinesOf(log'[w], w, k, Told) = LinesOf(log[w], w, k, Told)
      BY <1>3 DEF Told
    <3> QED
      BY <2>1, <3>1 DEF FileInv, SameTurn, Bracketed, IsOpen
  <2> QED
    BY <2>1, <2>2, <2>3 DEF FileInv, SameTurn
<1>5. FinalInv(w)'
  <2>1. SUFFICES ASSUME at[w] # "closed" \/ crashes = 0, NEW k, k = turn[w]
                 PROVE  Tells(w, k)'
    BY DEF FinalInv, SameTurn
  <2>2. Tells(w, k)
    BY <2>1 DEF ConnInv, FinalInv
  <2>3. {"final"} \in SUBSET Told
    BY DEF Told
  <2>4. /\ LinesOf(log'[w], w, k, {"final"}) = LinesOf(log[w], w, k, {"final"})
        /\ \A i \in LinesOf(log[w], w, k, {"final"}) : log'[w][i] = log[w][i]
    BY <2>3, LinesStay
  <2> QED
    BY <2>2, <2>4 DEF Tells, SameTurn, Opening
<1> QED
  BY <1>1, <1>2, <1>4, <1>5 DEF ConnInv

LEMMA ForeignLine ==
    ASSUME NEW w \in Conns, log[w] \in Seq(Line), NEW line \in Line,
           line.by # w \/ line.type \notin Told, log'[w] = WriteMessage(log[w], line)
    PROVE  /\ Undisturbed(w)
           /\ line.type # "torn" /\ (\A i \in DOMAIN log[w] : log[w][i].type # "torn") =>
                    \A i \in DOMAIN log'[w] : log'[w][i].type # "torn"
<1>0. /\ \A i \in DOMAIN log[w] :
            log[w][i].type # "torn" => i \in DOMAIN log'[w] /\ log'[w][i] = log[w][i]
      /\ \A i \in DOMAIN log'[w] :
            \/ i \in DOMAIN log[w] /\ log'[w][i] = log[w][i]
            \/ log'[w][i].by = line.by /\ log'[w][i].type \in {line.type, "garbage"}
  <2> DEFINE old == log[w]
  <2>1. old \in Seq(Line) /\ log'[w] = WriteMessage(old, line)
    OBVIOUS
  <2> HIDE DEF old
  <2>2. LET new == WriteMessage(old, line) IN
        /\ \A i \in DOMAIN old : old[i].type # "torn" => i \in DOMAIN new /\ new[i] = old[i]
        /\ \A i \in DOMAIN new : \/ i \in DOMAIN old /\ new[i] = old[i]
                                 \/ new[i].by = line.by /\ new[i].type \in {line.type, "garbage"}
    BY <2>1, WriteKeeps
  <2> QED
    BY <2>1, <2>2 DEF old
<1>1. Undisturbed(w)
  BY <1>0 DEF Undisturbed, Told
<1>2. ASSUME line.type # "torn", \A i \in DOMAIN log[w] : log[w][i].type # "torn",
             NEW i \in DOMAIN log'[w]
      PROVE  log'[w][i].type # "torn"
  BY <1>0, <1>2
<1> QED
  BY <1>1, <1>2

---------------------------------------------------------------------------
(* The steps of a connection that write nothing *)

LEMMA QuietKeepsFile ==
    ASSUME NEW w \in Conns, FileInv(w), HandlerInv(w), turn[w] \in Nat,
           log' = log, crashes' = crashes,
           \/ at'[w] \in InTurn /\ at[w] \in InTurn /\ turn' = turn /\ kind' = kind
           \/ at'[w] = at[w] /\ turn' = turn /\ kind' = kind
           \/ at'[w] = "closed" /\ at[w] \in {"new", "ready", "proxy"} /\ turn' = turn /\ kind' = kind
           \/ at'[w] = "ready" /\ at[w] = "new" /\ turn' = turn
           \/ /\ at'[w] = "proxy" /\ at[w] = "ready" /\ turn'[w] = turn[w] + 1
              /\ kind' = kind /\ kind[w] = "external"
    PROVE  FileInv(w)'
<1>1. \A k, types : LinesOf(log'[w], w, k, types) = LinesOf(log[w], w, k, types)
  BY DEF LinesOf
<1>2. turn'[w] \in Nat /\ turn[w] <= turn'[w]
  OBVIOUS
<1>3. \A i \in DOMAIN log'[w] : Own(w, i)' => log'[w][i].turn \in 1..turn'[w]
  BY <1>2 DEF FileInv, Own
<1>4. at'[w] # "closed" => \A i \in DOMAIN log'[w] : log'[w][i].type # "torn"
  BY DEF FileInv, InTurn
<1>5. ASSUME NEW k \in 1..turn'[w]
      PROVE  /\ Bracketed(w, k)'
             /\ k = turn'[w] /\ at'[w] \in InTurn => IsOpen(w, k)'
             /\ k = turn'[w] /\ at'[w] = "proxy" => LinesOf(log'[w], w, k, Told) = {}
  <2>1. CASE k \in 1..turn[w] /\ (k < turn[w] \/ at[w] = "ready")
    BY <1>1, <2>1, OldTurnStays DEF FileInv, InTurn
  <2>2. CASE k = turn[w] /\ at[w] # "ready"
    <3>1. /\ Bracketed(w, k)
          /\ at[w] \in InTurn => IsOpen(w, k) /\ kind[w] = "internal"
          /\ at[w] = "proxy" => LinesOf(log[w], w, k, Told) = {} /\ kind[w] = "external"
          /\ at[w] # "new"
      BY <2>2 DEF FileInv, HandlerInv
    <3>2. at[w] = "proxy" => /\ LinesOf(log[w], w, k, {"human"}) = {} /\ LinesOf(log[w], w, k, {"final", "ai"}) = {}
                             /\ LinesOf(log[w], w, k, {"calls", "tool"}) = {}
      BY <3>1 DEF LinesOf, Told
    <3>3. turn' = turn
      BY <2>2, <3>1 DEF InTurn
    <3>4. at'[w] \in InTurn => IsOpen(w, k)'
      BY <1>1, <3>1 DEF IsOpen, InTurn
    <3>5. at'[w] = "proxy" => LinesOf(log'[w], w, k, Told) = {}
      BY <1>1, <2>2, <3>1 DEF InTurn
    <3>6. Bracketed(w, k)'
      <4>1. CASE at[w] \in InTurn /\ at'[w] \in InTurn /\ kind' = kind
        BY <1>1, <3>1, <3>3, <4>1 DEF Bracketed, IsOpen, InTurn
      <4>2. CASE at'[w] = at[w] /\ kind' = kind
        BY <1>1, <3>1, <3>3, <4>2 DEF Bracketed
      <4>3. CASE at'[w] = "closed" /\ at[w] = "proxy" /\ kind' = kind
        BY <1>1, <2>2, <3>1, <3>2, <3>3, <4>3 DEF Bracketed
      <4> QED
        BY <2>2, <3>1, <3>3, <4>1, <4>2, <4>3
    <3> QED
      BY <3>4, <3>5, <3>6
  <2>3. CASE k = turn[w] + 1
    <3>1. at'[w] = "proxy" /\ turn'[w] = k /\ kind'[w] = "external"
      BY <2>3
    <3>2. LinesOf(log[w], w, k, Told) = {}
      BY <2>3 DEF LinesOf, FileInv, Own
    <3>3. /\ LinesOf(log[w], w, k, {"human"}) = {} /\ LinesOf(log[w], w, k, {"final", "ai"}) = {}
          /\ LinesOf(log[w], w, k, {"calls", "tool"}) = {}
      BY <3>2 DEF LinesOf, Told
    <3> QED
      BY <1>1, <3>1, <3>2, <3>3 DEF Bracketed, InTurn
  <2> QED
    BY <1>2, <2>1, <2>2, <2>3
<1> QED
  BY <1>3, <1>4, <1>5 DEF FileInv

LEMMA HeadAndTail ==
    ASSUME NEW S, NEW s \in Seq(S), s # <<>>
    PROVE  /\ Head(s) \in S /\ Tail(s) \in Seq(S)
           /\ Tail(s) # <<>> <=> Len(s) > 1
           /\ ToSet(s) = {Head(s)} \cup ToSet(Tail(s))
<1>1. Len(s) \in Nat \ {0} /\ DOMAIN s = 1..Len(s) /\ Head(s) = s[1] /\ \A i \in 1..Len(s) : s[i] \in S
  OBVIOUS
<1>2. /\ Tail(s) \in Seq(S) /\ Len(Tail(s)) = Len(s) - 1
      /\ DOMAIN Tail(s) = 1..(Len(s) - 1)
      /\ \A i \in 1..(Len(s) - 1) : Tail(s)[i] = s[i + 1]
  OBVIOUS
<1>3. ASSUME NEW i \in DOMAIN s, i # 1 PROVE s[i] \in ToSet(Tail(s))
  <2>1. i - 1 \in DOMAIN Tail(s) /\ Tail(s)[i - 1] = s[i]
    BY <1>1, <1>2, <1>3
  <2> QED
    BY <2>1 DEF ToSet
<1>4. ASSUME NEW i \in DOMAIN Tail(s) PROVE Tail(s)[i] \in ToSet(s)
  <2>1. i + 1 \in DOMAIN s /\ s[i + 1] = Tail(s)[i]
    BY <1>1, <1>2
  <2> QED
    BY <2>1 DEF ToSet
<1>5. ToSet(s) \subseteq {Head(s)} \cup ToSet(Tail(s))
  BY <1>1, <1>3 DEF ToSet
<1>6. Head(s) \in ToSet(s)
  BY <1>1 DEF ToSet
<1>7. ToSet(Tail(s)) \subseteq ToSet(s)
  BY <1>4 DEF ToSet
<1> QED
  BY <1>1, <1>2, <1>5, <1>6, <1>7

LEMMA AppendAdds ==
    ASSUME NEW S, NEW s \in Seq(S), NEW e \in S
    PROVE  ToSet(Append(s, e)) = ToSet(s) \cup {e}
<1>1. /\ DOMAIN Append(s, e) = 1..(Len(s) + 1) /\ DOMAIN s = 1..Len(s) /\ Len(s) \in Nat
      /\ \A i \in 1..Len(s) : Append(s, e)[i] = s[i]
      /\ Append(s, e)[Len(s) + 1] = e
  OBVIOUS
<1> QED
  BY <1>1 DEF ToSet

LEMMA AppendConcat ==
    ASSUME NEW p \in Seq(Frame), NEW s \in Seq(Frame), NEW e \in Frame
    PROVE  Append(p \o s, e) = p \o Append(s, e)
<1> DEFINE a == Append(p \o s, e)
           b == p \o Append(s, e)
<1>1. a \in Seq(Frame) /\ b \in Seq(Frame)
  OBVIOUS
<1>2. Len(a) = Len(p) + Len(s) + 1 /\ Len(b) = Len(p) + Len(s) + 1
  OBVIOUS
<1>3. ASSUME NEW i \in 1..(Len(p) + Len(s) + 1) PROVE a[i] = b[i]
  <2>1. CASE i <= Len(p)
    BY <2>1
  <2>2. CASE i > Len(p)
    BY <2>2
  <2> QED
    BY <2>1, <2>2
<1> HIDE DEF a, b
<1>4. a = b
  BY <1>1, <1>2, <1>3
<1> QED
  BY <1>4 DEF a, b

LEMMA OpeningType == \A w \in Conns : Opening(w) \in Seq(Frame)
<1>1. F("progress") \in Frame /\ F("skill_manifest") \in Frame
  BY DEF F, Frame
<1> QED
  BY <1>1 DEF Opening

\* A frame of the queue is sent: the text and the events tell what was received.
LEMMA SendTells ==
    ASSUME NEW w \in Conns, TurnTypeOK, BatchInv, HandlerInv(w), Send(w)
    PROVE  /\ HandlerInv(w)'
           /\ \A c \in Calls : ToolCallEvent(c) \in ToSet(out[w]) \cup ToSet(shown[w].marks) =>
                    ToolCallEvent(c) \in ToSet(out'[w]) \cup ToSet(shown'[w].marks)
<1> DEFINE f == Head(out[w])
           m == shown[w].marks
<1>1. /\ at[w] = "sending" /\ out[w] # <<>> /\ out[w] \in Seq(Frame) /\ events[w] \in Seq(Frame)
      /\ text[w] \in Nat /\ shown[w] \in Shown /\ m \in Seq(Frame)
      /\ text' = Grown(w) /\ events' = Recorded(w)
      /\ shown' = Received(w) /\ turn' = turn /\ kind' = kind /\ manifest' = manifest
  BY DEF Send, TurnTypeOK, Shown
<1>2. out'[w] = Tail(out[w])
  BY DEF Send, TurnTypeOK
<1>3. f \in Frame /\ (Tail(out[w]) # <<>> <=> Len(out[w]) > 1) /\ ToSet(out[w]) = {f} \cup ToSet(out'[w])
  BY <1>1, <1>2, HeadAndTail
<1>4. at'[w] \in InTurn /\ (out'[w] # <<>> => at'[w] = "sending")
  <2>1. at \in [Tasks -> Places] /\ w \in Tasks
    BY DEF BatchInv, Places, Tasks
  <2> HIDE DEF f, m
  <2> QED
    BY <1>1, <1>2, <1>3, <2>1 DEF Send, At, InTurn
<1>5. events[w] = Opening(w) \o m /\ text[w] = shown[w].chunks /\ kind[w] = "internal" /\ turn[w] > 0
  BY <1>1 DEF HandlerInv, InTurn
<1>6. CASE f.type = "chunk"
  <2>1. /\ events'[w] = events[w] /\ shown'[w].marks = m
        /\ text'[w] = text[w] + 1 /\ shown'[w].chunks = shown[w].chunks + 1
    BY <1>1, <1>6 DEF Grown, Recorded, Received, TurnTypeOK, Shown
  <2>2. \A c \in Calls : ToolCallEvent(c) # f
    BY <1>6 DEF ToolCallEvent
  <2> HIDE DEF f, m
  <2>3. HandlerInv(w)'
    BY <1>1, <1>4, <1>5, <2>1 DEF HandlerInv, Opening, InTurn
  <2> QED
    BY <1>3, <2>1, <2>2, <2>3 DEF m
<1>7. CASE f.type # "chunk"
  <2>1. /\ events'[w] = Append(events[w], f) /\ shown'[w].marks = Append(m, f)
        /\ text'[w] = text[w] /\ shown'[w].chunks = shown[w].chunks
    BY <1>1, <1>7 DEF Grown, Recorded, Received, TurnTypeOK, Shown
  <2> HIDE DEF f, m
  <2>2. Append(Opening(w) \o m, f) = Opening(w) \o Append(m, f)
    <3>1. Opening(w) \in Seq(Frame) /\ m \in Seq(Frame) /\ f \in Frame
      BY <1>1, <1>3, OpeningType
    <3> QED
      BY <3>1, AppendConcat
  <2>3. HandlerInv(w)'
    BY <1>1, <1>4, <1>5, <2>1, <2>2 DEF HandlerInv, Opening, InTurn
  <2>4. ToSet(shown'[w].marks) = ToSet(m) \cup {f}
    BY <1>1, <1>3, <2>1, AppendAdds
  <2> QED
    BY <1>3, <2>3, <2>4 DEF m
<1> QED
  BY <1>6, <1>7

\* The steps between the writes.
LEMMA QuietSteps ==
    ASSUME NEW w \in Conns, BatchInv, TurnTypeOK, ConnInv(w),
           \/ Open(w) \/ Disconnect(w) \/ Send(w) \/ StartTools(w)
           \/ BeginProxy(w) \/ ProxyChunk(w) \/ ProxyFails(w)
    PROVE  ConnInv(w)'
<1>0. /\ w \in Tasks /\ at \in [Tasks -> Places] /\ turn \in [Tasks -> Nat] /\ text \in [Conns -> Nat]
      /\ kind \in [Conns -> Kinds \cup {None}] /\ shown \in [Conns -> Shown]
      /\ HandlerInv(w) /\ MessageInv(w) /\ FileInv(w) /\ FinalInv(w)
  BY DEF BatchInv, Places, Tasks, TurnTypeOK, ConnInv
<1>1. log' = log /\ crashes' = crashes /\ batch' = batch
  BY DEF Open, Disconnect, Send, StartTools, BeginProxy, ProxyChunk, ProxyFails
<1>2. FileInv(w)'
  <2>1. \/ at'[w] \in InTurn /\ at[w] \in InTurn /\ turn' = turn /\ kind' = kind
        \/ at'[w] = at[w] /\ turn' = turn /\ kind' = kind
        \/ at'[w] = "closed" /\ at[w] \in {"new", "ready", "proxy"} /\ turn' = turn /\ kind' = kind
        \/ at'[w] = "ready" /\ at[w] = "new" /\ turn' = turn
        \/ /\ at'[w] = "proxy" /\ at[w] = "ready" /\ turn'[w] = turn[w] + 1
           /\ kind' = kind /\ kind[w] = "external"
    BY <1>0 DEF Open, Disconnect, Send, StartTools, BeginProxy, ProxyChunk, ProxyFails, At, InTurn
  <2> QED
    BY <1>0, <1>1, <2>1, QuietKeepsFile
<1>3. HandlerInv(w)'
  <2>1. CASE Send(w)
    BY <1>0, <2>1, SendTells
  <2>2. CASE Open(w) \/ Disconnect(w)
    BY <1>0, <1>1, <2>2 DEF Open, Disconnect, At, HandlerInv, InTurn
  <2>3. CASE StartTools(w)
    BY <1>0, <1>1, <2>3 DEF StartTools, At, HandlerInv, InTurn, Opening
  <2>4. CASE BeginProxy(w)
    BY <1>0, <1>1, <2>4 DEF BeginProxy, At, HandlerInv, InTurn, NothingShown
  <2>5. CASE ProxyChunk(w)
    BY <1>0, <1>1, <2>5 DEF ProxyChunk, At, HandlerInv, InTurn, Shown
  <2>6. CASE ProxyFails(w)
    BY <1>0, <1>1, <2>6 DEF ProxyFails, At, HandlerInv, InTurn
  <2> QED
    BY <2>1, <2>2, <2>3, <2>4, <2>5, <2>6
<1>4. MessageInv(w)'
  <2>1. \A c \in Mine(w) : ToolCallEvent(c) \in ToSet(out[w]) \cup ToSet(shown[w].marks) =>
                ToolCallEvent(c) \in ToSet(out'[w]) \cup ToSet(shown'[w].marks)
    <3>1. CASE Send(w)
      <4>1. \A c \in Mine(w) : c \in Calls
        BY <1>0 DEF BatchInv, Mine, ToSet
      <4> QED
        BY <1>0, <3>1, <4>1, SendTells
    <3>2. CASE BeginProxy(w) \/ ProxyChunk(w)
      <4>1. Mine(w) = {}
        BY <1>0, <3>2 DEF BatchInv, BeginProxy, ProxyChunk
      <4> QED
        BY <4>1
    <3>3. CASE Open(w) \/ Disconnect(w) \/ StartTools(w) \/ ProxyFails(w)
      BY <3>3 DEF Open, Disconnect, StartTools, ProxyFails
    <3> QED
      BY <3>1, <3>2, <3>3
  <2> QED
    BY <1>0, <1>1, <2>1, MessageStays
<1>5. FinalInv(w)'
  <2>1. SUFFICES ASSUME at'[w] # "closed" \/ crashes = 0, NEW k, k = turn'[w]
                 PROVE  Tells(w, k)'
    BY <1>1 DEF FinalInv
  <2>2. LinesOf(log'[w], w, k, {"final"}) = LinesOf(log[w], w, k, {"final"})
    BY <1>1 DEF LinesOf
  <2>3. CASE Send(w) \/ StartTools(w) \/ ProxyChunk(w) \/ ProxyFails(w)
    <3>1. k = turn[w] /\ k \in 1..turn[w] /\ at[w] \in InTurn \cup {"proxy"}
      BY <1>0, <2>1, <2>3 DEF Send, StartTools, ProxyChunk, ProxyFails, HandlerInv, InTurn
    <3>2. LinesOf(log[w], w, k, {"final"}) = {}
      BY <1>0, <3>1 DEF FileInv, IsOpen, LinesOf, Told
    <3> QED
      BY <2>2, <3>2 DEF Tells
  <2>4. CASE BeginProxy(w)
    <3>1. LinesOf(log[w], w, k, {"final"}) = {}
      BY <1>0, <2>1, <2>4 DEF BeginProxy, FileInv, LinesOf, Own, Told
    <3> QED
      BY <2>2, <3>1 DEF Tells
  <2>5. CASE Open(w)
    <3>1. LinesOf(log[w], w, k, {"final"}) = {}
      BY <1>0, <2>5 DEF Open, HandlerInv, LinesOf
    <3> QED
      BY <2>2, <3>1 DEF Tells
  <2>6. CASE Disconnect(w)
    <3>1. Tells(w, k) /\ shown' = shown /\ manifest' = manifest /\ at'[w] = "closed"
      BY <1>0, <2>1, <2>6 DEF Disconnect, At, FinalInv
    <3> QED
      BY <1>1, <2>2, <3>1 DEF Tells, Opening
  <2> QED
    BY <2>3, <2>4, <2>5, <2>6
<1> QED
  BY <1>2, <1>3, <1>4, <1>5 DEF ConnInv

---------------------------------------------------------------------------
(* The steps of a connection that write *)

\* Lines of the turn a connection is at, or of the one it begins, leave the turns
\* before as they were.
LEMMA FileAfter ==
    ASSUME NEW w \in Conns, FileInv(w), log[w] \in Seq(Line), turn[w] \in Nat, at[w] # "closed",
           NEW n, n = turn'[w],
           \/ n = turn[w] /\ n > 0
           \/ n = turn[w] + 1 /\ at[w] = "ready",
           NEW lines \in Seq(Line), log'[w] = log[w] \o lines,
           \A j \in DOMAIN lines : lines[j].by = w /\ lines[j].turn = n /\ lines[j].type \in Told,
           Bracketed(w, n)', at'[w] \in InTurn => IsOpen(w, n)', at'[w] # "proxy"
    PROVE  FileInv(w)'
<1> DEFINE old == log[w]
           new == old \o lines
<1>1. old \in Seq(Line) /\ log'[w] = new
  OBVIOUS
<1> HIDE DEF old
<1>2. ASSUME NEW i \in DOMAIN new
      PROVE  \/ i \in DOMAIN old /\ new[i] = old[i]
             \/ new[i].turn = n /\ new[i].type \in Told
  BY <1>1, FileGrows
<1>3. ASSUME NEW k, k # n, NEW types PROVE LinesOf(new, w, k, types) = LinesOf(old, w, k, types)
  BY <1>1, <1>3, LinesAdded
<1> HIDE DEF new
<1>4. \A i \in DOMAIN log'[w] : log'[w][i].type # "torn"
  BY <1>1, <1>2 DEF FileInv, Told, old
<1>5. \A i \in DOMAIN log'[w] : Own(w, i)' => log'[w][i].turn \in 1..turn'[w]
  BY <1>1, <1>2 DEF FileInv, Own, old
<1>6. ASSUME NEW k \in 1..turn'[w], k # n PROVE Bracketed(w, k)'
  <2>1. ASSUME NEW types \in SUBSET Told PROVE LinesOf(log'[w], w, k, types) = LinesOf(log[w], w, k, types)
    <3>1. LinesOf(new, w, k, types) = LinesOf(old, w, k, types)
      BY <1>3, <1>6
    <3> QED
      BY <1>1, <3>1 DEF LinesOf, old
  <2>2. k \in 1..turn[w] /\ (k < turn[w] \/ at[w] = "ready")
    BY <1>6
  <2> QED
    BY <2>1, <2>2, OldTurnStays DEF FileInv
<1> QED
  BY <1>4, <1>5, <1>6 DEF FileInv

\* One line of turn n, and what it changes.
LEMMA OneLineIn ==
    ASSUME NEW w, NEW n, NEW types, NEW old \in Seq(Line), NEW line \in Line,
           line.by = w, line.turn = n
    PROVE  /\ line.type \notin types => LinesOf(Append(old, line), w, n, types) = LinesOf(old, w, n, types)
           /\ line.type \in types =>
                LinesOf(Append(old, line), w, n, types) = LinesOf(old, w, n, types) \cup {Len(old) + 1}
           /\ \A i \in LinesOf(old, w, n, types) : i < Len(old) + 1
<1> DEFINE m == Len(old)
           new == Append(old, line)
<1>1. /\ DOMAIN new = 1..(m + 1) /\ DOMAIN old = 1..m /\ m \in Nat
      /\ \A i \in 1..m : new[i] = old[i]
      /\ new[m + 1] = line
  OBVIOUS
<1> HIDE DEF m, new
<1>2. line.type \notin types => LinesOf(new, w, n, types) = LinesOf(old, w, n, types)
  BY <1>1 DEF LinesOf
<1>3. line.type \in types => LinesOf(new, w, n, types) = LinesOf(old, w, n, types) \cup {m + 1}
  BY <1>1 DEF LinesOf
<1>4. \A i \in LinesOf(old, w, n, types) : i < m + 1
  BY <1>1 DEF LinesOf
<1> QED
  BY <1>2, <1>3, <1>4 DEF m, new

\* The finally clause: the line that ends a turn, whole or failed at its first send.
LEMMA FinalWritten ==
    ASSUME NEW w \in Conns, FileInv(w), log[w] \in Seq(Line), turn[w] \in Nat, at[w] # "closed",
           NEW n, n = turn'[w], kind' = kind, kind[w] = "internal",
           NEW line \in Line, line.by = w, line.turn = n, line.type = "final",
           log'[w] = Append(log[w], line),
           \/ n = turn[w] /\ n > 0 /\ IsOpen(w, n) /\ at'[w] \in {"ready", "closed"}
           \/ n = turn[w] + 1 /\ at[w] = "ready" /\ at'[w] = "closed"
    PROVE  /\ FileInv(w)'
           /\ \A i \in LinesOf(log'[w], w, n, {"final"}) : log'[w][i] = line
<1> DEFINE old == log[w]
           new == log'[w]
           m == Len(log[w])
<1>1. /\ new = Append(old, line) /\ old \in Seq(Line)
      /\ new = old \o <<line>> /\ <<line>> \in Seq(Line) /\ new[m + 1] = line
  OBVIOUS
<1> HIDE DEF old, new, m
<1>a. ASSUME NEW types
      PROVE  /\ line.type \notin types => LinesOf(new, w, n, types) = LinesOf(old, w, n, types)
             /\ line.type \in types => LinesOf(new, w, n, types) = LinesOf(old, w, n, types) \cup {Len(old) + 1}
             /\ \A i \in LinesOf(old, w, n, types) : i < Len(old) + 1
  <2>1. /\ line.type \notin types => LinesOf(Append(old, line), w, n, types) = LinesOf(old, w, n, types)
        /\ line.type \in types =>
                LinesOf(Append(old, line), w, n, types) = LinesOf(old, w, n, types) \cup {Len(old) + 1}
        /\ \A i \in LinesOf(old, w, n, types) : i < Len(old) + 1
    <3>1. old \in Seq(Line) /\ line.by = w /\ line.turn = n
      BY <1>1
    <3> QED
      BY <3>1, OneLineIn, Zenon
  <2> QED
    BY <1>1, <2>1
<1>2. LinesOf(new, w, n, {"human"}) = LinesOf(old, w, n, {"human"})
  BY <1>a
<1>3. LinesOf(new, w, n, {"calls", "tool"}) = LinesOf(old, w, n, {"calls", "tool"})
  BY <1>a
<1>4. /\ LinesOf(new, w, n, {"final", "ai"}) = LinesOf(old, w, n, {"final", "ai"}) \cup {m + 1}
      /\ LinesOf(new, w, n, {"final"}) = LinesOf(old, w, n, {"final"}) \cup {m + 1}
  BY <1>a DEF old, m
<1>5. /\ \A i \in LinesOf(old, w, n, {"human"}) : i < m + 1
      /\ \A i \in LinesOf(old, w, n, {"calls", "tool"}) : i < m + 1
  BY <1>a DEF old, m
<1>6. /\ LinesOf(old, w, n, {"final", "ai"}) = {} /\ LinesOf(old, w, n, {"final"}) = {}
      /\ n = turn[w] + 1 => LinesOf(old, w, n, {"human"}) = {} /\ LinesOf(old, w, n, {"calls", "tool"}) = {}
      /\ n = turn[w] => IsOpen(w, n)
  <2>1. CASE n = turn[w] + 1
    BY <2>1 DEF LinesOf, FileInv, Own, Told, old
  <2>2. CASE n = turn[w] /\ n > 0 /\ IsOpen(w, n)
    BY <2>2 DEF IsOpen, LinesOf, FileInv, old
  <2> QED
    BY <2>1, <2>2
<1>7. LinesOf(new, w, n, {"final", "ai"}) = {m + 1} /\ LinesOf(new, w, n, {"final"}) = {m + 1}
  BY <1>4, <1>6
<1>8. Bracketed(w, n)'
  <2>1. CASE n = turn[w] + 1
    <3>1. ~(n < turn'[w]) /\ at'[w] = "closed" /\ kind'[w] # "external"
      BY <2>1
    <3>2. /\ LinesOf(new, w, n, {"human"}) = {} /\ LinesOf(new, w, n, {"calls", "tool"}) = {}
          /\ LinesOf(new, w, n, {"final", "ai"}) = {m + 1}
      BY <1>2, <1>3, <1>6, <1>7, <2>1
    <3> QED
      BY <3>1, <3>2 DEF Bracketed, new
  <2>2. CASE n = turn[w]
    <3>1. /\ LinesOf(old, w, n, {"human"}) # {}
          /\ \A h \in LinesOf(old, w, n, {"human"}), i \in LinesOf(old, w, n, {"calls", "tool"}) : h < i
          /\ \A h, i \in LinesOf(old, w, n, {"human"}) : h = i
      <4>1. IsOpen(w, n) /\ Bracketed(w, n)
        BY <1>6, <2>2 DEF FileInv
      <4> QED
        BY <4>1 DEF IsOpen, Bracketed, old
    <3>2. kind'[w] # "external"
      OBVIOUS
    <3> DEFINE human == LinesOf(new, w, n, {"human"})
               inside == LinesOf(new, w, n, {"calls", "tool"})
               end == LinesOf(new, w, n, {"final", "ai"})
    <3>3. human # {} /\ \A h, i \in human : h = i
      BY <1>2, <3>1
    <3>4. \A h \in human, e \in end : h < e /\ \A i \in inside : h < i /\ i < e
      BY <1>2, <1>3, <1>5, <1>7, <3>1
    <3>5. end # {} /\ \A e, i \in end : e = i
      BY <1>7
    <3> QED
      BY <3>2, <3>3, <3>4, <3>5 DEF Bracketed, new
  <2> QED
    BY <2>1, <2>2
<1>9. FileInv(w)'
  <2> DEFINE lines == <<line>>
  <2>1. /\ lines \in Seq(Line) /\ log'[w] = log[w] \o lines
        /\ \A j \in DOMAIN lines : lines[j].by = w /\ lines[j].turn = n /\ lines[j].type \in Told
    BY <1>1 DEF Told, new, old
  <2> HIDE DEF lines
  <2> QED
    BY <1>8, <2>1, FileAfter DEF InTurn
<1> QED
  BY <1>1, <1>7, <1>9 DEF new

\* The lines of a message or of its tools.
LEMMA MoreInside ==
    ASSUME NEW w \in Conns, FileInv(w), HandlerInv(w), log[w] \in Seq(Line), turn[w] \in Nat,
           at[w] \in InTurn, at'[w] \in InTurn, turn' = turn, kind' = kind,
           NEW lines \in Seq(Line), log'[w] = log[w] \o lines,
           \A j \in DOMAIN lines :
                lines[j].by = w /\ lines[j].turn = turn[w] /\ lines[j].type \in {"calls", "tool"}
    PROVE  FileInv(w)'
<1>0. PICK n : n = turn[w]
  OBVIOUS
<1> DEFINE old == log[w]
           new == old \o lines
<1>1. n \in 1..turn[w] /\ IsOpen(w, n) /\ Bracketed(w, n) /\ kind[w] = "internal"
  BY <1>0 DEF HandlerInv, FileInv
<1>2. old \in Seq(Line) /\ log'[w] = new
  OBVIOUS
<1>3. /\ \A i \in DOMAIN old : i \in DOMAIN new /\ new[i] = old[i]
      /\ \A i \in DOMAIN new : i \notin DOMAIN old =>
                i - Len(old) \in DOMAIN lines /\ new[i] = lines[i - Len(old)]
  BY <1>2, FileGrows
<1>4. \A i \in DOMAIN new : i \notin DOMAIN old =>
            new[i].type \in {"calls", "tool"} /\ \A h \in DOMAIN old : h < i
  BY <1>2, <1>3
<1> HIDE DEF new, old
<1>5. ASSUME NEW types, types \cap {"calls", "tool"} = {}
      PROVE  LinesOf(new, w, n, types) = LinesOf(old, w, n, types)
  BY <1>3, <1>4, <1>5 DEF LinesOf
<1>6. /\ LinesOf(new, w, n, {"human"}) = LinesOf(old, w, n, {"human"})
      /\ LinesOf(new, w, n, {"final", "ai"}) = LinesOf(old, w, n, {"final", "ai"})
  BY <1>5
<1>7. \A h \in LinesOf(old, w, n, {"human"}), i \in LinesOf(new, w, n, {"calls", "tool"}) : h < i
  <2>1. SUFFICES ASSUME NEW h \in LinesOf(old, w, n, {"human"}), NEW i \in LinesOf(new, w, n, {"calls", "tool"})
                 PROVE  h < i
    OBVIOUS
  <2>2. CASE i \in DOMAIN old
    BY <1>1, <1>3, <2>2 DEF IsOpen, LinesOf, old
  <2>3. CASE i \notin DOMAIN old
    BY <1>4, <2>3 DEF LinesOf
  <2> QED
    BY <2>2, <2>3
<1>8. IsOpen(w, n)'
  BY <1>1, <1>2, <1>6, <1>7 DEF IsOpen, old
<1>9. Bracketed(w, n)'
  <2>1. /\ LinesOf(new, w, n, {"human"}) # {} /\ LinesOf(new, w, n, {"final", "ai"}) = {}
        /\ \A h, i \in LinesOf(new, w, n, {"human"}) : h = i
    BY <1>1, <1>6 DEF IsOpen, Bracketed, old
  <2>2. ~(n < turn'[w]) /\ at'[w] \notin {"ready", "closed"} /\ kind'[w] # "external"
    BY <1>0, <1>1 DEF InTurn
  <2> QED
    BY <1>2, <2>1, <2>2 DEF Bracketed
<1>10. \A j \in DOMAIN lines : lines[j].by = w /\ lines[j].turn = n /\ lines[j].type \in Told
  BY <1>0 DEF Told
<1> QED
  <2>1. /\ at[w] # "closed" /\ at'[w] # "proxy" /\ n = turn'[w] /\ n = turn[w] /\ n > 0
        /\ at'[w] \in InTurn => IsOpen(w, n)'
    BY <1>0, <1>1, <1>8 DEF InTurn
  <2> QED
    BY <1>9, <1>10, <2>1, FileAfter

\* A turn that goes on has no final line.
LEMMA OpenTellsNothing ==
    ASSUME NEW w \in Conns, FileInv(w)', turn'[w] \in Nat \ {0}, at'[w] \in InTurn
    PROVE  FinalInv(w)'
<1>1. SUFFICES ASSUME NEW k, k = turn'[w] PROVE Tells(w, k)'
  BY DEF FinalInv
<1>2. IsOpen(w, k)'
  BY <1>1 DEF FileInv
<1>3. LinesOf(log'[w], w, k, {"final"}) = {}
  BY <1>2 DEF IsOpen, LinesOf
<1> QED
  BY <1>3 DEF Tells

\* An empty batch asks nothing of the file.
LEMMA NoMessage == ASSUME NEW w, batch'[w] = <<>> PROVE MessageInv(w)'
<1>1. Mine(w)' = {}
  BY DEF Mine, ToSet
<1> QED
  BY <1>1 DEF MessageInv

\* The turn that ends with a final line.
LEMMA FinalStep ==
    ASSUME NEW w \in Conns, TurnTypeOK, ConnInv(w), at[w] \in InTurn,
           at'[w] \in {"ready", "closed"}, kind' = kind, turn' = turn, manifest' = manifest,
           out'[w] = <<>>, batch'[w] = <<>>, shown' = shown,
           NEW n \in Nat, n \in {text[w], text[w] + 1}, at'[w] = "ready" => n = text[w],
           log'[w] = WriteMessage(log[w], L(w, "final", {}, n, events[w]))
    PROVE  ConnInv(w)'
<1> DEFINE line == L(w, "final", {}, n, events[w])
<1>1. /\ HandlerInv(w) /\ FileInv(w) /\ FinalInv(w) /\ log[w] \in Seq(Line) /\ turn[w] \in Nat
      /\ w \in Tasks /\ at[w] # "closed" /\ kind[w] = "internal" /\ turn[w] > 0
      /\ events[w] = Opening(w) \o shown[w].marks /\ text[w] = shown[w].chunks
      /\ events[w] \in Seq(Frame)
  BY DEF ConnInv, TurnTypeOK, Tasks, HandlerInv, InTurn
<1>2. line \in Line
  BY <1>1, LineIsLine DEF LineTypes
<1>3. /\ line.by = w /\ line.turn = turn[w] /\ line.type = "final"
      /\ line.events = events[w] /\ line.text = n
  BY DEF L
<1> HIDE DEF line
<1>4. log'[w] = Append(log[w], line)
  <2>1. log'[w] = WriteMessage(log[w], line)
    BY DEF line
  <2>2. \A i \in DOMAIN log[w] : log[w][i].type # "torn"
    BY <1>1 DEF FileInv
  <2> QED
    BY <1>1, <2>1, <2>2, WriteClean
<1>5. IsOpen(w, turn[w])
  BY <1>1 DEF FileInv
<1>6. FileInv(w)' /\ \A i \in LinesOf(log'[w], w, turn[w], {"final"}) : log'[w][i] = line
  BY <1>1, <1>2, <1>3, <1>4, <1>5, FinalWritten
<1>7. FinalInv(w)'
  BY <1>1, <1>3, <1>6 DEF FinalInv, Tells, Opening
<1>8. HandlerInv(w)'
  BY DEF HandlerInv, InTurn
<1> QED
  BY <1>6, <1>7, <1>8, NoMessage DEF ConnInv

\* An answer to a question that was never written.
LEMMA BeginTurnFailsKeeps ==
    ASSUME NEW w \in Conns, BatchInv, TurnTypeOK, ConnInv(w), BeginTurnFails(w)
    PROVE  ConnInv(w)'
<1> DEFINE n == turn[w] + 1
           line == [by |-> w, turn |-> n, type |-> "final", calls |-> {}, text |-> 0, events |-> Opening(w)]
<1>1. /\ HandlerInv(w) /\ FileInv(w) /\ log[w] \in Seq(Line) /\ turn[w] \in Nat
      /\ w \in Tasks /\ at[w] = "ready" /\ kind[w] = "internal" /\ out[w] = <<>>
  BY DEF ConnInv, TurnTypeOK, Tasks, HandlerInv, BeginTurnFails
<1>2. /\ turn'[w] = n /\ at'[w] = "closed" /\ kind' = kind /\ manifest' = manifest /\ out' = out
      /\ shown'[w] = NothingShown /\ log'[w] = WriteMessage(log[w], line)
      /\ batch' = batch
  BY <1>1 DEF BeginTurnFails, At, TurnTypeOK, BatchInv
<1>3. /\ line \in Line /\ line.by = w /\ line.turn = n /\ line.type = "final"
      /\ line.text = 0 /\ line.events = Opening(w)
  BY <1>1, OpeningType DEF Line
<1> HIDE DEF line
<1>4. log'[w] = Append(log[w], line)
  BY <1>1, <1>2, WriteClean DEF FileInv
<1>5. FileInv(w)' /\ \A i \in LinesOf(log'[w], w, n, {"final"}) : log'[w][i] = line
  BY <1>1, <1>2, <1>3, <1>4, FinalWritten
<1>6. FinalInv(w)'
  <2>1. Opening(w) \o <<>> = Opening(w) /\ Opening(w)' = Opening(w)
    BY <1>2, OpeningType DEF Opening
  <2> QED
    BY <1>2, <1>3, <1>5, <2>1 DEF FinalInv, Tells, NothingShown
<1>7. HandlerInv(w)'
  BY <1>1, <1>2 DEF HandlerInv, InTurn
<1>8. MessageInv(w)'
  <2>1. Mine(w)' = {}
    BY <1>1, <1>2 DEF BatchInv, Mine
  <2> QED
    BY <2>1 DEF MessageInv
<1> QED
  BY <1>5, <1>6, <1>7, <1>8 DEF ConnInv

LEMMA FinalSteps ==
    ASSUME NEW w \in Conns, BatchInv, TurnTypeOK, ConnInv(w), target[w] = w,
           SendFails(w) \/ EndTurn(w) \/ ToolsFail(w)
    PROVE  ConnInv(w)'
<1>1. /\ w \in Tasks /\ at \in [Tasks -> Places] /\ batch \in [Tasks -> Seq(Calls)]
      /\ text \in [Conns -> Nat] /\ out \in [Conns -> Seq(Frame)] /\ log \in [Tasks -> Seq(Line)]
  BY DEF BatchInv, Places, Tasks, TurnTypeOK
<1>2. at[w] \in InTurn /\ kind' = kind /\ turn' = turn /\ manifest' = manifest /\ shown' = shown
  BY DEF SendFails, EndTurn, ToolsFail, ToolsEnded, InTurn
<1>3. batch'[w] = <<>>
  BY <1>1 DEF SendFails, EndTurn, ToolsFail
<1>4. out'[w] = <<>>
  <2>1. at[w] # "sending" => out[w] = <<>>
    BY DEF ConnInv, HandlerInv
  <2> QED
    BY <1>1, <2>1 DEF SendFails, EndTurn, ToolsFail, ToolsEnded
<1>5. PICK n \in Nat : /\ n \in {text[w], text[w] + 1} /\ (at'[w] = "ready" => n = text[w])
                       /\ log'[w] = WriteMessage(log[w], L(w, "final", {}, n, events[w]))
                       /\ at'[w] \in {"ready", "closed"}
  <2>1. CASE SendFails(w)
    <3>1. text' = Grown(w) /\ text'[w] \in Nat /\ text'[w] \in {text[w], text[w] + 1}
      BY <1>1, <2>1 DEF SendFails, Grown
    <3>2. at'[w] = "closed"
      BY <1>1, <2>1 DEF SendFails, At
    <3>3. log'[w] = WriteMessage(log[w], L(w, "final", {}, text'[w], events[w]))
      BY <1>1, <2>1 DEF SendFails, Write
    <3> QED
      BY <3>1, <3>2, <3>3
  <2>2. CASE EndTurn(w) \/ ToolsFail(w)
    <3>1. log'[w] = WriteMessage(log[w], L(w, "final", {}, text[w], events[w]))
      BY <1>1, <2>2 DEF EndTurn, ToolsFail, Write, FinalLine
    <3>2. at'[w] \in {"ready", "closed"}
      BY <1>1, <2>2 DEF EndTurn, ToolsFail, At
    <3> QED
      BY <1>1, <3>1, <3>2
  <2> QED
    BY <2>1, <2>2
<1> QED
  BY <1>2, <1>3, <1>4, <1>5, FinalStep

\* The human line opens the turn.
LEMMA BeginTurnKeeps ==
    ASSUME NEW w \in Conns, BatchInv, TurnTypeOK, ConnInv(w), BeginTurn(w)
    PROVE  ConnInv(w)'
<1>0. PICK n, line : n = turn[w] + 1 /\ line = [L(w, "human", {}, 0, <<>>) EXCEPT !.turn = @ + 1]
  OBVIOUS
<1> DEFINE old == log[w]
<1>1. /\ HandlerInv(w) /\ FileInv(w) /\ old \in Seq(Line) /\ turn[w] \in Nat
      /\ w \in Tasks /\ at[w] = "ready" /\ kind[w] = "internal" /\ out[w] = <<>>
  BY DEF ConnInv, TurnTypeOK, Tasks, HandlerInv, BeginTurn
<1>2. /\ turn'[w] = n /\ at'[w] = "stream" /\ kind' = kind /\ manifest' = manifest /\ out' = out
      /\ shown'[w] = NothingShown /\ log'[w] = WriteMessage(old, line)
      /\ events'[w] = Opening(w) /\ text'[w] = 0 /\ batch' = batch
  <2>1. /\ turn'[w] = n /\ at'[w] = "stream" /\ kind' = kind /\ manifest' = manifest /\ out' = out
        /\ shown'[w] = NothingShown /\ events'[w] = Opening(w) /\ text'[w] = 0 /\ batch' = batch
    BY <1>0, <1>1 DEF BeginTurn, At, TurnTypeOK, BatchInv
  <2>2. log' = [log EXCEPT ![w] = WriteMessage(log[w], line)]
    BY <1>0 DEF BeginTurn
  <2> QED
    BY <1>1, <2>1, <2>2 DEF TurnTypeOK
<1>3. line \in Line /\ line.by = w /\ line.turn = n /\ line.type = "human"
  <2>1. line = [by |-> w, turn |-> n, type |-> "human", calls |-> {}, text |-> 0, events |-> <<>>]
    BY <1>0 DEF L
  <2>2. n \in Nat /\ <<>> \in Seq(Frame)
    BY <1>0, <1>1
  <2> QED
    BY <1>1, <2>1, <2>2 DEF Line
<1> HIDE DEF old
<1>4. log'[w] = Append(old, line)
  <2>1. \A i \in DOMAIN old : old[i].type # "torn"
    BY <1>1 DEF FileInv, old
  <2> QED
    BY <1>1, <1>2, <2>1, WriteClean
<1>5. \A types : LinesOf(old, w, n, types \cap Told) = {}
  BY <1>0, <1>1 DEF LinesOf, FileInv, Own, old
<1>6. /\ LinesOf(old, w, n, {"human"}) = {} /\ LinesOf(old, w, n, {"final", "ai"}) = {}
      /\ LinesOf(old, w, n, {"calls", "tool"}) = {}
  BY <1>5 DEF LinesOf, Told
<1>7. ASSUME NEW types
      PROVE  /\ line.type \notin types => LinesOf(Append(old, line), w, n, types) = LinesOf(old, w, n, types)
             /\ line.type \in types =>
                    LinesOf(Append(old, line), w, n, types) = LinesOf(old, w, n, types) \cup {Len(old) + 1}
             /\ \A i \in LinesOf(old, w, n, types) : i < Len(old) + 1
  <2>1. old \in Seq(Line) /\ line \in Line /\ line.by = w /\ line.turn = n
    BY <1>1, <1>3
  <2> QED
    BY <2>1, OneLineIn, SMTT(30)
<1>8. /\ LinesOf(log'[w], w, n, {"human"}) = {Len(old) + 1}
      /\ LinesOf(log'[w], w, n, {"final", "ai"}) = {}
      /\ LinesOf(log'[w], w, n, {"calls", "tool"}) = {}
  BY <1>3, <1>4, <1>6, <1>7
<1>9. IsOpen(w, n)' /\ Bracketed(w, n)'
  <2>1. ~(n < turn'[w]) /\ at'[w] \notin {"ready", "closed"} /\ kind'[w] # "external"
    BY <1>0, <1>1, <1>2
  <2>2. Bracketed(w, n)'
    BY <1>8, <2>1 DEF Bracketed
  <2> QED
    BY <1>8, <2>2 DEF IsOpen
<1>10. FileInv(w)'
  <2> DEFINE lines == <<line>>
  <2>1. /\ lines \in Seq(Line) /\ log'[w] = old \o lines
        /\ \A j \in DOMAIN lines : lines[j].by = w /\ lines[j].turn = n /\ lines[j].type \in Told
    BY <1>1, <1>3, <1>4 DEF Told
  <2> HIDE DEF lines
  <2>2. /\ n = turn[w] + 1 /\ at[w] = "ready" /\ n = turn'[w] /\ at'[w] # "proxy" /\ log'[w] = log[w] \o lines
    BY <1>0, <1>1, <1>2, <2>1 DEF old
  <2> QED
    BY <1>1, <1>9, <2>1, <2>2, FileAfter DEF old
<1>11. HandlerInv(w)'
  <2>1. Opening(w) \o <<>> = Opening(w) /\ Opening(w)' = Opening(w)
    BY <1>2, OpeningType DEF Opening
  <2>2. shown'[w].marks = <<>> /\ shown'[w].chunks = 0
    BY <1>2 DEF NothingShown
  <2>3. events'[w] = Opening(w)' \o shown'[w].marks /\ turn'[w] > 0 /\ out'[w] = <<>> /\ kind'[w] = "internal"
    BY <1>0, <1>1, <1>2, <2>1, <2>2
  <2> QED
    BY <1>2, <2>2, <2>3 DEF HandlerInv, InTurn
<1>12. MessageInv(w)'
  <2>1. Mine(w)' = {}
    BY <1>1, <1>2 DEF BatchInv, Mine
  <2> QED
    BY <2>1 DEF MessageInv
<1>13. FinalInv(w)'
  BY <1>0, <1>1, <1>2, <1>10, OpenTellsNothing DEF InTurn
<1> QED
  BY <1>10, <1>11, <1>12, <1>13 DEF ConnInv

\* The tool lines, and the calls they answer are gone.
LEMMA ToolsDoneKeeps ==
    ASSUME NEW w \in Conns, BatchInv, TurnTypeOK, ConnInv(w), target[w] = w, ToolsDone(w)
    PROVE  ConnInv(w)'
<1> DEFINE lines == ToolLines(w)
<1>1. /\ HandlerInv(w) /\ FileInv(w) /\ log[w] \in Seq(Line) /\ turn[w] \in Nat
      /\ w \in Tasks /\ at[w] = "tools" /\ batch[w] \in Seq(Calls)
  BY DEF ConnInv, TurnTypeOK, Tasks, ToolsDone, ToolsEnded, BatchInv
<1>2. /\ at'[w] = "stream" /\ batch'[w] = <<>> /\ log'[w] = WriteAll(log[w], lines)
      /\ turn' = turn /\ kind' = kind /\ manifest' = manifest /\ out' = out
      /\ events' = events /\ text' = text /\ shown' = shown
  BY <1>1 DEF ToolsDone, At, TurnTypeOK, BatchInv
<1>3. /\ lines \in Seq(Line)
      /\ \A j \in DOMAIN lines : lines[j].by = w /\ lines[j].turn = turn[w] /\ lines[j].type \in {"calls", "tool"}
  <2>1. \A j \in DOMAIN batch[w] : L(w, "tool", {batch[w][j]}, 0, <<>>) \in Line
    <3>1. \A j \in DOMAIN batch[w] : batch[w][j] \in Calls
      BY <1>1
    <3> QED
      BY <1>1, <3>1 DEF L, Line
  <2>2. DOMAIN batch[w] = 1..Len(batch[w]) /\ Len(batch[w]) \in Nat
    BY <1>1
  <2>3. lines \in Seq(Line)
    BY <2>1, <2>2 DEF ToolLines
  <2> QED
    BY <2>3 DEF ToolLines, L
<1> HIDE DEF lines
<1>4. log'[w] = log[w] \o lines
  <2>1. \A i \in DOMAIN log[w] : log[w][i].type # "torn"
    BY <1>1 DEF FileInv
  <2> QED
    BY <1>1, <1>2, <1>3, <2>1, WriteAllClean
<1>5. FileInv(w)'
  BY <1>1, <1>2, <1>3, <1>4, MoreInside DEF InTurn
<1>6. HandlerInv(w)'
  BY <1>1, <1>2 DEF HandlerInv, InTurn, Opening
<1>7. FinalInv(w)'
  BY <1>1, <1>2, <1>5, OpenTellsNothing DEF InTurn, HandlerInv
<1> QED
  BY <1>2, <1>5, <1>6, <1>7, NoMessage DEF ConnInv

\* The calls line goes before the frames, the frames before the tools.
LEMMA AiMessageKeeps ==
    ASSUME NEW w \in Conns, BatchInv, TurnTypeOK, ConnInv(w), target[w] = w, AiMessage(w)
    PROVE  ConnInv(w)'
<1>1. /\ HandlerInv(w) /\ FileInv(w) /\ log[w] \in Seq(Line) /\ turn[w] \in Nat
      /\ w \in Tasks /\ at[w] = "stream"
  BY DEF ConnInv, TurnTypeOK, Tasks, AiMessage
<1>2. PICK b \in FreshBatches(w) :
        /\ batch' = [batch EXCEPT ![w] = b]
        /\ \A c \in ToSet(b) : ToolCallEvent(c) \in ToSet(out'[w])
        /\ IF b = <<>> THEN UNCHANGED log ELSE Write(w, L(w, "calls", ToSet(b), 0, <<>>))
  <2>1. PICK b \in FreshBatches(w), parts \in Contained :
        /\ Ask(w, b)
        /\ out' = [out EXCEPT ![w] = [i \in DOMAIN b |-> ToolCallEvent(b[i])]
                    \o (IF "skill" \in parts /\ manifest[w] THEN <<F("skill_use")>> ELSE <<>>)
                    \o (IF "text" \in parts THEN <<F("chunk")>> ELSE <<>>)]
        /\ IF b = <<>> THEN UNCHANGED log ELSE Write(w, L(w, "calls", ToSet(b), 0, <<>>))
    BY DEF AiMessage
  <2>2. b \in Seq(Calls)
    BY DEF FreshBatches
  <2> DEFINE asked == [i \in DOMAIN b |-> ToolCallEvent(b[i])]
             skill == IF "skill" \in parts /\ manifest[w] THEN <<F("skill_use")>> ELSE <<>>
             chunk == IF "text" \in parts THEN <<F("chunk")>> ELSE <<>>
  <2>3. asked \in Seq(Frame) /\ DOMAIN asked = DOMAIN b
    <3>1. \A i \in DOMAIN b : ToolCallEvent(b[i]) \in Frame
      BY <2>2 DEF ToolCallEvent, Frame
    <3>2. DOMAIN b = 1..Len(b) /\ Len(b) \in Nat
      BY <2>2
    <3> QED
      BY <3>1, <3>2
  <2>4. skill \in Seq(Frame) /\ chunk \in Seq(Frame)
    <3>1. F("skill_use") \in Frame /\ F("chunk") \in Frame
      BY DEF F, Frame
    <3> QED
      BY <3>1
  <2>5. out'[w] = asked \o skill \o chunk
    BY <2>1 DEF TurnTypeOK
  <2>6. ASSUME NEW i \in DOMAIN b PROVE ToolCallEvent(b[i]) \in ToSet(out'[w])
    <3>1. asked[i] = ToolCallEvent(b[i])
      OBVIOUS
    <3> HIDE DEF asked, skill, chunk
    <3>2. i \in DOMAIN out'[w] /\ out'[w][i] = asked[i]
      BY <2>3, <2>4, <2>5
    <3> QED
      BY <3>1, <3>2 DEF ToSet
  <2> QED
    BY <2>1, <2>6 DEF Ask, ToSet
<1>3. /\ at'[w] = "sending" /\ turn' = turn /\ kind' = kind /\ manifest' = manifest
      /\ events' = events /\ text' = text /\ shown' = shown
  BY <1>1 DEF AiMessage, At, BatchInv
<1>4. b \in Seq(Calls) /\ ToSet(b) \in SUBSET Calls /\ Mine(w)' = ToSet(b)
  <2>1. b \in Seq(Calls)
    BY DEF FreshBatches
  <2> QED
    BY <1>1, <1>2, <2>1 DEF ToSet, Mine, BatchInv
<1> DEFINE line == L(w, "calls", ToSet(b), 0, <<>>)
<1>5. line \in Line /\ line.by = w /\ line.turn = turn[w] /\ line.type = "calls" /\ line.calls = ToSet(b)
  BY <1>1, <1>4 DEF Line, L
<1> HIDE DEF line
<1>6. b # <<>> => log'[w] = log[w] \o <<line>>
  <2>1. b # <<>> => log'[w] = WriteMessage(log[w], line)
    BY <1>1, <1>2 DEF Write, TurnTypeOK, line
  <2>2. WriteMessage(log[w], line) = Append(log[w], line)
    BY <1>1, WriteClean DEF FileInv
  <2>3. Append(log[w], line) = log[w] \o <<line>>
    BY <1>1, <1>5, AppendOne
  <2> QED
    BY <2>1, <2>2, <2>3
<1>7. FileInv(w)'
  <2>1. PICK lines \in Seq(Line) :
            /\ log'[w] = log[w] \o lines
            /\ \A j \in DOMAIN lines : lines[j].by = w /\ lines[j].turn = turn[w] /\ lines[j].type \in {"calls", "tool"}
    <3>1. CASE b = <<>>
      <4>1. log'[w] = log[w] \o <<>>
        BY <1>1, <1>2, <3>1
      <4> DEFINE lines == <<>>
      <4>2. lines \in Seq(Line) /\ DOMAIN lines = {}
        OBVIOUS
      <4> QED
        BY <4>1, <4>2
    <3>2. CASE b # <<>>
      <4> DEFINE lines == <<line>>
      <4>1. /\ lines \in Seq(Line) /\ log'[w] = log[w] \o lines
            /\ \A j \in DOMAIN lines :
                    lines[j].by = w /\ lines[j].turn = turn[w] /\ lines[j].type \in {"calls", "tool"}
        BY <1>5, <1>6, <3>2
      <4> QED
        BY <4>1
    <3> QED
      BY <3>1, <3>2
  <2> QED
    BY <1>1, <1>3, <2>1, MoreInside DEF InTurn
<1>8. HandlerInv(w)'
  BY <1>1, <1>3 DEF HandlerInv, InTurn, Opening
<1>9. MessageInv(w)'
  <2>1. SUFFICES ASSUME NEW c \in ToSet(b)
                 PROVE  /\ \E i \in DOMAIN log'[w] :
                                log'[w][i].by = w /\ log'[w][i].type = "calls" /\ c \in log'[w][i].calls
                        /\ ToolCallEvent(c)' \in ToSet(out'[w])
    BY <1>4 DEF MessageInv
  <2>2. b # <<>>
    BY DEF ToSet
  <2>3. Len(log[w]) + 1 \in DOMAIN log'[w] /\ log'[w][Len(log[w]) + 1] = line
    BY <1>1, <1>5, <1>6, <2>2
  <2> QED
    BY <1>2, <1>5, <2>3 DEF ToolCallEvent
<1>10. FinalInv(w)'
  BY <1>1, <1>3, <1>7, OpenTellsNothing DEF InTurn, HandlerInv
<1> QED
  BY <1>7, <1>8, <1>9, <1>10 DEF ConnInv

\* An external turn writes its two lines together.
LEMMA ProxyEndsKeeps ==
    ASSUME NEW w \in Conns, BatchInv, TurnTypeOK, ConnInv(w), ProxyEnds(w)
    PROVE  ConnInv(w)'
<1>0. PICK n, h, a : /\ n = turn[w]
                     /\ h = L(w, "human", {}, 0, <<>>) /\ a = L(w, "ai", {}, text[w], <<>>)
  OBVIOUS
<1> DEFINE old == log[w]
           lines == <<h, a>>
           m == Len(old)
<1>1. /\ HandlerInv(w) /\ FileInv(w) /\ old \in Seq(Line) /\ n \in Nat /\ n > 0 /\ n \in 1..turn[w]
      /\ w \in Tasks /\ at[w] = "proxy" /\ kind[w] = "external" /\ out[w] = <<>> /\ text[w] \in Nat
  BY <1>0 DEF ConnInv, TurnTypeOK, Tasks, HandlerInv, ProxyEnds
<1>2. /\ turn' = turn /\ at'[w] \in {"ready", "closed"} /\ kind' = kind /\ manifest' = manifest
      /\ out' = out /\ events' = events /\ text' = text /\ shown' = shown /\ batch' = batch
      /\ log'[w] = WriteAll(old, lines)
  BY <1>0, <1>1 DEF ProxyEnds, At, TurnTypeOK, BatchInv
<1>3. /\ h \in Line /\ h.by = w /\ h.turn = n /\ h.type = "human"
      /\ a \in Line /\ a.by = w /\ a.turn = n /\ a.type = "ai"
  BY <1>0, <1>1 DEF Line, L
<1>4. lines \in Seq(Line) /\ DOMAIN lines = {1, 2} /\ lines[1] = h /\ lines[2] = a
  BY <1>3
<1>5. \A j \in DOMAIN lines : lines[j].by = w /\ lines[j].turn = n /\ lines[j].type \in Told
  BY <1>3, <1>4 DEF Told
<1> HIDE DEF old, lines, m
<1>6. log'[w] = old \o lines
  <2>1. \A i \in DOMAIN old : old[i].type # "torn"
    BY <1>1 DEF FileInv, old
  <2> QED
    BY <1>1, <1>2, <1>4, <2>1, WriteAllClean
<1>7. \A i \in DOMAIN old : ~(old[i].by = w /\ old[i].turn = n /\ old[i].type \in Told)
  <2>1. LinesOf(log[w], w, n, Told) = {}
    BY <1>0, <1>1 DEF FileInv
  <2> QED
    BY <2>1 DEF LinesOf, old
<1>8. /\ m \in Nat /\ DOMAIN log'[w] = 1..(m + 2) /\ DOMAIN old = 1..m
      /\ \A i \in DOMAIN old : log'[w][i] = old[i]
      /\ log'[w][m + 1] = h /\ log'[w][m + 2] = a
  BY <1>1, <1>3, <1>6 DEF lines, m
<1>9. /\ LinesOf(log'[w], w, n, {"human"}) = {m + 1} /\ LinesOf(log'[w], w, n, {"final", "ai"}) = {m + 2}
      /\ LinesOf(log'[w], w, n, {"calls", "tool"}) = {} /\ LinesOf(log'[w], w, n, {"final"}) = {}
  BY <1>3, <1>7, <1>8 DEF LinesOf, Told
<1>10. Bracketed(w, n)'
  <2>1. kind'[w] = "external" /\ m + 1 < m + 2
    BY <1>1, <1>2, <1>8
  <2> QED
    BY <1>9, <2>1 DEF Bracketed
<1>11. FileInv(w)'
  <2>1. /\ FileInv(w) /\ log[w] \in Seq(Line) /\ turn[w] \in Nat /\ at[w] # "closed"
        /\ n = turn'[w] /\ n = turn[w] /\ n > 0 /\ log'[w] = log[w] \o lines /\ lines \in Seq(Line)
        /\ at'[w] \notin InTurn /\ at'[w] # "proxy"
    BY <1>0, <1>1, <1>2, <1>4, <1>6 DEF old, InTurn
  <2> QED
    BY <1>5, <1>10, <2>1, FileAfter
<1>12. HandlerInv(w)'
  BY <1>1, <1>2 DEF HandlerInv, InTurn
<1>13. MessageInv(w)'
  <2>1. Mine(w)' = {}
    BY <1>1, <1>2 DEF BatchInv, Mine
  <2> QED
    BY <2>1 DEF MessageInv
<1>14. FinalInv(w)'
  BY <1>0, <1>2, <1>9 DEF FinalInv, Tells
<1> QED
  BY <1>11, <1>12, <1>13, <1>14 DEF ConnInv

\* Every step of a connection, for the connection itself.
LEMMA OwnStepKeeps ==
    ASSUME NEW w \in Conns, BatchInv, TurnTypeOK, ConnInv(w), target[w] = w, ConnStep(w)
    PROVE  ConnInv(w)'
<1>1. CASE \/ Open(w) \/ Disconnect(w) \/ Send(w) \/ StartTools(w)
           \/ BeginProxy(w) \/ ProxyChunk(w) \/ ProxyFails(w)
  BY <1>1, QuietSteps
<1>2. CASE BeginTurn(w)
  BY <1>2, BeginTurnKeeps
<1>3. CASE BeginTurnFails(w)
  BY <1>3, BeginTurnFailsKeeps
<1>4. CASE AiMessage(w)
  BY <1>4, AiMessageKeeps
<1>5. CASE SendFails(w) \/ EndTurn(w) \/ ToolsFail(w)
  BY <1>5, FinalSteps
<1>6. CASE ToolsDone(w)
  BY <1>6, ToolsDoneKeeps
<1>7. CASE ProxyEnds(w)
  BY <1>7, ProxyEndsKeeps
<1> QED
  BY <1>1, <1>2, <1>3, <1>4, <1>5, <1>6, <1>7 DEF ConnStep

---------------------------------------------------------------------------
(* The steps of others *)

LEMMA ConnLeavesOthers ==
    ASSUME NEW v \in Conns, NEW w \in Conns, v # w, BatchInv, TurnTypeOK, target[v] = v, ConnStep(v)
    PROVE  SameTurn(w) /\ batch'[w] = batch[w] /\ log'[w] = log[w]
<1>1. /\ v \in Tasks /\ w \in Tasks /\ at \in [Tasks -> Places] /\ batch \in [Tasks -> Seq(Calls)]
      /\ kind \in [Conns -> Kinds \cup {None}] /\ manifest \in [Conns -> BOOLEAN] /\ turn \in [Tasks -> Nat]
      /\ out \in [Conns -> Seq(Frame)] /\ events \in [Conns -> Seq(Frame)] /\ text \in [Conns -> Nat]
      /\ shown \in [Conns -> Shown] /\ log \in [Tasks -> Seq(Line)]
  BY DEF BatchInv, Places, Tasks, TurnTypeOK
<1>2. CASE Open(v) \/ Disconnect(v) \/ StartTools(v) \/ BeginProxy(v) \/ ProxyChunk(v) \/ ProxyFails(v)
  BY <1>1, <1>2 DEF Open, Disconnect, StartTools, BeginProxy, ProxyChunk, ProxyFails, At, SameTurn
<1>3. CASE BeginTurn(v) \/ BeginTurnFails(v) \/ ProxyEnds(v)
  BY <1>1, <1>3 DEF BeginTurn, BeginTurnFails, ProxyEnds, At, SameTurn
<1>4. CASE AiMessage(v)
  BY <1>1, <1>4 DEF AiMessage, Ask, Write, At, SameTurn
<1>5. CASE Send(v) \/ SendFails(v)
  BY <1>1, <1>5 DEF Send, SendFails, Grown, Recorded, Received, Write, At, SameTurn
<1>6. CASE EndTurn(v) \/ ToolsDone(v) \/ ToolsFail(v)
  BY <1>1, <1>6 DEF EndTurn, ToolsDone, ToolsFail, Write, At, SameTurn
<1> QED
  BY <1>2, <1>3, <1>4, <1>5, <1>6 DEF ConnStep

\* A request writes at most one line, to the session it named.
LEMMA RequestLeavesOthers ==
    ASSUME NEW r \in Reqs, NEW w \in Conns, BatchInv, TurnTypeOK, TargetInv, ReqStep(r)
    PROVE  /\ SameTurn(w) /\ batch'[w] = batch[w]
           /\ \/ log'[w] = log[w]
              \/ at[w] # "new" /\ log'[w] = WriteMessage(log[w], L(r, "http", {}, 0, <<>>))
<1>1. /\ r \in Tasks /\ w \in Tasks /\ r # w /\ at \in [Tasks -> Places] /\ batch \in [Tasks -> Seq(Calls)]
      /\ log \in [Tasks -> Seq(Line)] /\ target \in [Tasks -> Tasks]
  BY TasksAssumption DEF BatchInv, Places, Tasks, TurnTypeOK
<1>2. CASE Request(r) \/ RequestCalls(r) \/ StartTools(r) \/ RequestTools(r) \/ RequestFails(r)
  BY <1>1, <1>2 DEF Request, RequestCalls, Ask, StartTools, RequestTools, RequestFails, At, SameTurn
<1>3. CASE ProxyRequest(r)
  <2>1. SameTurn(w) /\ batch'[w] = batch[w]
    BY <1>1, <1>3 DEF ProxyRequest, At, SameTurn
  <2>2. PICK s \in Nameable(r) :
            log' = log \/ log' = [log EXCEPT ![s] = WriteMessage(@, L(r, "http", {}, 0, <<>>))]
    BY <1>3 DEF ProxyRequest
  <2> DEFINE line == L(r, "http", {}, 0, <<>>)
  <2>3. s # w => log'[w] = log[w]
    BY <1>1, <2>2
  <2>4. s = w => at[w] # "new" /\ (log'[w] = log[w] \/ log'[w] = WriteMessage(log[w], line))
    BY <1>1, <2>2 DEF Nameable
  <2> QED
    BY <2>1, <2>3, <2>4
<1>4. CASE Answer(r)
  <2>1. SameTurn(w) /\ batch'[w] = batch[w]
    BY <1>1, <1>4 DEF Answer, At, SameTurn
  <2>2. log' = log \/ log' = [log EXCEPT ![target[r]] = WriteMessage(@, L(r, "http", {}, 0, <<>>))]
    BY <1>4 DEF Answer
  <2> DEFINE line == L(r, "http", {}, 0, <<>>)
  <2>3. target[r] # w => log'[w] = log[w]
    BY <1>1, <2>2
  <2>4. target[r] = w => at[w] # "new" /\ (log'[w] = log[w] \/ log'[w] = WriteMessage(log[w], line))
    BY <1>1, <2>2 DEF TargetInv
  <2> QED
    BY <2>1, <2>3, <2>4
<1> QED
  BY <1>2, <1>3, <1>4 DEF ReqStep

LEMMA OthersKeep ==
    ASSUME NEW w \in Conns, BatchInv, TurnTypeOK, TargetInv, ConnInv(w),
           \/ \E v \in Conns \ {w} : ConnStep(v)
           \/ \E r \in Reqs : ReqStep(r)
           \/ UNCHANGED turnVars
    PROVE  ConnInv(w)'
<1>1. /\ SameTurn(w) /\ batch'[w] = batch[w]
      /\ \/ log'[w] = log[w]
         \/ at[w] # "new" /\ \E r \in Reqs : log'[w] = WriteMessage(log[w], L(r, "http", {}, 0, <<>>))
  <2>1. CASE \E v \in Conns \ {w} : ConnStep(v)
    BY <2>1, ConnLeavesOthers DEF TargetInv
  <2>2. CASE \E r \in Reqs : ReqStep(r)
    BY <2>2, RequestLeavesOthers
  <2>3. CASE UNCHANGED turnVars
    BY <2>3 DEF turnVars, SameTurn
  <2> QED
    BY <2>1, <2>2, <2>3
<1>2. log[w] \in Seq(Line) /\ w \in Tasks /\ FileInv(w)
  BY DEF TurnTypeOK, Tasks, ConnInv
<1>3. CASE log'[w] = log[w]
  <2>1. Undisturbed(w)
    BY <1>3 DEF Undisturbed
  <2> QED
    BY <1>1, <1>2, <1>3, <2>1, OthersKeepConn DEF FileInv
<1>4. CASE at[w] # "new" /\ \E r \in Reqs : log'[w] = WriteMessage(log[w], L(r, "http", {}, 0, <<>>))
  <2>1. PICK line \in Line : line.by # w /\ line.type = "http" /\ log'[w] = WriteMessage(log[w], line)
    <3>1. PICK r \in Reqs : log'[w] = WriteMessage(log[w], L(r, "http", {}, 0, <<>>))
      BY <1>4
    <3>2. L(r, "http", {}, 0, <<>>) \in Line
      <4>1. r \in Tasks /\ turn[r] \in Nat /\ <<>> \in Seq(Frame)
        BY DEF TurnTypeOK, Tasks
      <4> QED
        BY <4>1 DEF L, Line
    <3>3. r # w
      BY TasksAssumption
    <3> QED
      BY <3>1, <3>2, <3>3 DEF L
  <2>2. /\ Undisturbed(w)
        /\ (\A i \in DOMAIN log[w] : log[w][i].type # "torn") => \A i \in DOMAIN log'[w] : log'[w][i].type # "torn"
    BY <1>2, <2>1, ForeignLine
  <2> QED
    BY <1>1, <1>2, <1>4, <2>2, OthersKeepConn DEF FileInv
<1> QED
  BY <1>1, <1>3, <1>4

---------------------------------------------------------------------------
(* The crash *)

LEMMA WriteAllOne ==
    ASSUME NEW old \in Seq(Line), NEW line \in Line
    PROVE  WriteAll(old, <<line>>) = WriteMessage(old, line)
<1>1. WriteMessage(old, line) \in Seq(Line)
  BY WriteKeeps
<1>2. WriteAll(old, <<line>>) = WriteMessage(old, line) \o <<>>
  BY DEF WriteAll
<1> QED
  BY <1>1, <1>2

\* What a crash does to a connection and to its file: nothing is written, or a torn
\* line, or the human line of an external turn and perhaps a torn one.
LEMMA CrashShape ==
    ASSUME NEW w \in Conns, BatchInv, TurnTypeOK, TargetInv, ConnInv(w), Crash
    PROVE  /\ at'[w] = (IF at[w] = "new" THEN "new" ELSE "closed")
           /\ kind' = kind /\ turn' = turn /\ crashes' = crashes + 1
           /\ out'[w] = <<>> /\ batch'[w] = <<>>
           /\ \/ log'[w] = log[w]
              \/ /\ at[w] # "new"
                 /\ \E line \in Line : line.type = "torn" /\ log'[w] = WriteMessage(log[w], line)
              \/ /\ at[w] = "proxy"
                 /\ \E lines \in Seq(Line) :
                        /\ log'[w] = log[w] \o lines
                        /\ \A j \in DOMAIN lines :
                                /\ lines[j].by = w /\ lines[j].turn = turn[w]
                                /\ lines[j].type = (IF j = 1 THEN "human" ELSE "torn")
<1>1. /\ w \in Tasks /\ at \in [Tasks -> Places] /\ log[w] \in Seq(Line) /\ turn \in [Tasks -> Nat]
      /\ log \in [Tasks -> Seq(Line)] /\ FileInv(w)
  BY DEF BatchInv, Places, Tasks, TurnTypeOK, ConnInv
<1>2. /\ at'[w] = (IF at[w] = "new" THEN "new" ELSE "closed")
      /\ kind' = kind /\ turn' = turn /\ crashes' = crashes + 1
      /\ out'[w] = <<>> /\ batch'[w] = <<>>
  BY <1>1 DEF Crash
<1>3. PICK t \in Tasks, before \in BOOLEAN, torn \in BOOLEAN :
        /\ at[t] \notin {"new", "ready", "closed"}
        /\ before => at[t] = "proxy"
        /\ log' = [log EXCEPT ![target[t]] = WriteAll(@,
                (IF before THEN <<L(t, "human", {}, 0, <<>>)>> ELSE <<>>)
                  \o (IF torn THEN <<L(t, "torn", {}, 0, <<>>)>> ELSE <<>>))]
  BY DEF Crash
<1> DEFINE human == L(t, "human", {}, 0, <<>>)
           cut == L(t, "torn", {}, 0, <<>>)
<1>4. /\ human \in Line /\ human.by = t /\ human.turn = turn[t] /\ human.type = "human"
      /\ cut \in Line /\ cut.by = t /\ cut.turn = turn[t] /\ cut.type = "torn"
  <2>1. turn[t] \in Nat /\ <<>> \in Seq(Frame)
    BY <1>1
  <2> QED
    BY <2>1 DEF L, Line
<1>5. CASE target[t] # w
  <2>1. log'[w] = log[w]
    BY <1>1, <1>3, <1>5
  <2> QED
    BY <1>2, <2>1
<1>6. CASE target[t] = w
  <2>1. at[w] # "new" /\ (before => t = w)
    BY <1>3, <1>6 DEF TargetInv, Tasks
  <2> DEFINE all == (IF before THEN <<human>> ELSE <<>>) \o (IF torn THEN <<cut>> ELSE <<>>)
  <2>2. log'[w] = WriteAll(log[w], all)
    BY <1>1, <1>3, <1>6
  <2> HIDE DEF human, cut
  <2>3. CASE before
    <3>1. all \in Seq(Line) /\ \A j \in DOMAIN all : all[j] = IF j = 1 THEN human ELSE cut
      BY <1>4, <2>3
    <3> HIDE DEF all
    <3>2. log'[w] = log[w] \o all
      <4>1. \A i \in DOMAIN log[w] : log[w][i].type # "torn"
        BY <1>1, <1>3, <2>1, <2>3 DEF FileInv
      <4> QED
        BY <1>1, <2>2, <3>1, <4>1, WriteAllClean
    <3>3. at[w] = "proxy" /\ t = w
      BY <1>3, <2>1, <2>3
    <3> QED
      BY <1>2, <1>4, <3>1, <3>2, <3>3
  <2>4. CASE ~before /\ torn
    <3>1. all = <<cut>>
      BY <1>4, <2>4
    <3>2. log'[w] = WriteMessage(log[w], cut)
      BY <1>1, <1>4, <2>2, <3>1, WriteAllOne
    <3> QED
      BY <1>2, <1>4, <2>1, <3>2
  <2>5. CASE ~before /\ ~torn
    <3>1. all = <<>>
      BY <2>5
    <3>2. log'[w] = log[w]
      BY <2>2, <3>1 DEF WriteAll
    <3> QED
      BY <1>2, <3>2
  <2> QED
    BY <2>3, <2>4, <2>5
<1> QED
  BY <1>5, <1>6

\* Once it is closed, a connection says no more of its turns than what is written.
LEMMA CrashKeepsConn ==
    ASSUME NEW w \in Conns, BatchInv, TurnTypeOK, TargetInv, ConnInv(w), Crash
    PROVE  ConnInv(w)'
<1>1. /\ w \in Tasks /\ log[w] \in Seq(Line) /\ turn[w] \in Nat /\ crashes \in Nat
      /\ HandlerInv(w) /\ FileInv(w)
  BY DEF Tasks, TurnTypeOK, ConnInv
<1>2. /\ at'[w] = (IF at[w] = "new" THEN "new" ELSE "closed")
      /\ kind' = kind /\ turn' = turn /\ crashes' # 0
      /\ out'[w] = <<>> /\ batch'[w] = <<>>
  BY <1>1, CrashShape
<1>3. \/ log'[w] = log[w]
      \/ /\ at[w] # "new"
         /\ \E line \in Line : line.type = "torn" /\ log'[w] = WriteMessage(log[w], line)
      \/ /\ at[w] = "proxy"
         /\ \E lines \in Seq(Line) :
                /\ log'[w] = log[w] \o lines
                /\ \A j \in DOMAIN lines :
                        /\ lines[j].by = w /\ lines[j].turn = turn[w]
                        /\ lines[j].type = (IF j = 1 THEN "human" ELSE "torn")
  BY CrashShape
<1>4. at[w] = "new" => log'[w] = <<>> /\ turn'[w] = 0
  BY <1>1, <1>2, <1>3 DEF HandlerInv
<1>5. HandlerInv(w)'
  BY <1>1, <1>2, <1>4 DEF HandlerInv, InTurn
<1>6. FinalInv(w)'
  <2>1. SUFFICES ASSUME at[w] = "new", NEW k PROVE Tells(w, k)'
    BY <1>2 DEF FinalInv
  <2>2. LinesOf(log'[w], w, k, {"final"}) = {}
    BY <1>4, <2>1 DEF LinesOf
  <2> QED
    BY <2>2 DEF Tells
<1>7. FileInv(w)'
  <2>1. CASE Undisturbed(w)
    <3>1. \A i \in DOMAIN log'[w] : Own(w, i)' => log'[w][i].turn \in 1..turn'[w]
      BY <1>1, <1>2, <2>1 DEF FileInv, Own, Undisturbed
    <3>2. ASSUME NEW k \in 1..turn'[w] PROVE Bracketed(w, k)'
      <4>1. \A types \in SUBSET Told : LinesOf(log'[w], w, k, types) = LinesOf(log[w], w, k, types)
        BY <2>1, LinesStay
      <4>2. /\ LinesOf(log'[w], w, k, {"human"}) = LinesOf(log[w], w, k, {"human"})
            /\ LinesOf(log'[w], w, k, {"final", "ai"}) = LinesOf(log[w], w, k, {"final", "ai"})
            /\ LinesOf(log'[w], w, k, {"calls", "tool"}) = LinesOf(log[w], w, k, {"calls", "tool"})
        BY <4>1 DEF Told
      <4>3. Bracketed(w, k)
        BY <1>1, <1>2 DEF FileInv
      <4> QED
        BY <1>2, <4>2, <4>3 DEF Bracketed
    <3> QED
      BY <1>2, <1>4, <3>1, <3>2 DEF FileInv, InTurn
  <2>2. CASE log'[w] = log[w]
    BY <2>1, <2>2 DEF Undisturbed
  <2>3. CASE \E line \in Line : line.type = "torn" /\ log'[w] = WriteMessage(log[w], line)
    <3>1. PICK line \in Line : line.type = "torn" /\ log'[w] = WriteMessage(log[w], line)
      BY <2>3
    <3>2. Undisturbed(w)
      BY <1>1, <3>1, ForeignLine DEF Told
    <3> QED
      BY <2>1, <3>2
  <2>4. ASSUME at[w] = "proxy", NEW lines \in Seq(Line), log'[w] = log[w] \o lines,
               \A j \in DOMAIN lines : /\ lines[j].by = w /\ lines[j].turn = turn[w]
                                       /\ lines[j].type = (IF j = 1 THEN "human" ELSE "torn")
        PROVE  FileInv(w)'
    <3>0. PICK n : n = turn[w]
      OBVIOUS
    <3> DEFINE old == log[w]
               new == old \o lines
    <3>1. old \in Seq(Line) /\ log'[w] = new
      BY <1>1, <2>4
    <3>2. /\ \A i \in DOMAIN old : i \in DOMAIN new /\ new[i] = old[i]
          /\ \A i \in DOMAIN new : i \notin DOMAIN old =>
                    i - Len(old) \in DOMAIN lines /\ new[i] = lines[i - Len(old)]
      BY <3>1, FileGrows
    <3>3. \A i \in DOMAIN new : i \notin DOMAIN old =>
                /\ new[i].by = w /\ new[i].turn = n
                /\ new[i].type = (IF i = Len(old) + 1 THEN "human" ELSE "torn")
      <4>1. \A i \in DOMAIN new : i \in Nat
        BY <3>1
      <4>2. Len(old) \in Nat
        BY <3>1
      <4> HIDE DEF old, new
      <4> QED
        BY <2>4, <3>0, <3>2, <4>1, <4>2
    <3>4. ASSUME NEW k, k # n, NEW types PROVE LinesOf(new, w, k, types) = LinesOf(old, w, k, types)
      <4>1. \A j \in DOMAIN lines : lines[j].turn # k
        BY <2>4, <3>0, <3>4
      <4> QED
        BY <3>1, <4>1, LinesAdded
    <3>5. LinesOf(old, w, n, Told) = {}
      BY <1>1, <2>4, <3>0 DEF FileInv, HandlerInv
    <3> HIDE DEF new, old
    <3>6. \A i \in DOMAIN log'[w] : Own(w, i)' => log'[w][i].turn \in 1..turn'[w]
      BY <1>1, <1>2, <2>4, <3>0, <3>1, <3>2, <3>3 DEF FileInv, HandlerInv, Own, old
    <3>7. ASSUME NEW k \in 1..turn'[w] PROVE Bracketed(w, k)'
      <4>1. CASE k = n
        <5>1. /\ LinesOf(new, w, k, {"human"}) \subseteq {Len(old) + 1}
              /\ LinesOf(new, w, k, {"final", "ai"}) = {} /\ LinesOf(new, w, k, {"calls", "tool"}) = {}
          BY <3>2, <3>3, <3>5, <4>1 DEF LinesOf, Told
        <5>2. ~(k < turn'[w]) /\ at'[w] # "ready" /\ crashes' # 0
          BY <1>1, <1>2, <3>0, <4>1
        <5> QED
          BY <3>1, <5>1, <5>2 DEF Bracketed
      <4>2. CASE k # n
        <5>1. \A types \in SUBSET Told : LinesOf(log'[w], w, k, types) = LinesOf(log[w], w, k, types)
          BY <3>1, <3>4, <4>2 DEF old
        <5>2. Bracketed(w, k) /\ k < turn[w]
          BY <1>1, <1>2, <3>0, <4>2 DEF FileInv
        <5> QED
          BY <5>1, <5>2, OldTurnStays
      <4> QED
        BY <4>1, <4>2
    <3> QED
      BY <1>2, <2>4, <3>6, <3>7 DEF FileInv, InTurn
  <2> QED
    BY <1>3, <2>2, <2>3, <2>4
<1> QED
  BY <1>2, <1>5, <1>6, <1>7, NoMessage DEF ConnInv

---------------------------------------------------------------------------
(* Types, targets and owners *)

LEMMA WriteAllType ==
    ASSUME NEW old \in Seq(Line), NEW lines \in Seq(Line)
    PROVE  WriteAll(old, lines) \in Seq(Line)
<1>1. CASE lines = <<>>
  BY <1>1 DEF WriteAll
<1>2. CASE lines # <<>>
  <2>1. Head(lines) \in Line /\ Tail(lines) \in Seq(Line)
    BY <1>2
  <2>2. WriteMessage(old, Head(lines)) \in Seq(Line)
    BY <2>1, WriteKeeps
  <2> QED
    BY <1>2, <2>1, <2>2 DEF WriteAll
<1> QED
  BY <1>1, <1>2

\* One line more in one file.
LEMMA WriteType ==
    ASSUME TurnTypeOK, NEW s \in Tasks, NEW line \in Line,
           log' = [log EXCEPT ![s] = WriteMessage(@, line)]
    PROVE  log' \in [Tasks -> Seq(Line)]
<1>1. log \in [Tasks -> Seq(Line)] /\ log[s] \in Seq(Line)
  BY DEF TurnTypeOK
<1>2. WriteMessage(log[s], line) \in Seq(Line)
  BY <1>1, WriteKeeps
<1> QED
  BY <1>1, <1>2

LEMMA ShownGrows ==
    ASSUME NEW s \in Shown, NEW f \in Frame
    PROVE  /\ [s EXCEPT !.chunks = @ + 1] \in Shown
           /\ [s EXCEPT !.marks = Append(@, f)] \in Shown
<1>1. s.marks \in Seq(Frame) /\ s.chunks \in Nat
  BY DEF Shown
<1>2. Append(s.marks, f) \in Seq(Frame) /\ s.chunks + 1 \in Nat
  BY <1>1
<1> QED
  BY <1>2 DEF Shown

LEMMA QuietTypes ==
    ASSUME NEW w \in Conns, TurnTypeOK,
           \/ Open(w) \/ Disconnect(w) \/ StartTools(w) \/ BeginProxy(w) \/ ProxyChunk(w) \/ ProxyFails(w)
    PROVE  TurnTypeOK'
<1>1. w \in Tasks /\ NothingShown \in Shown
  <2>1. <<>> \in Seq(Frame)
    OBVIOUS
  <2> QED
    BY <2>1 DEF Tasks, NothingShown, Shown
<1>2. CASE Open(w) \/ Disconnect(w) \/ StartTools(w) \/ ProxyFails(w)
  BY <1>1, <1>2 DEF Open, Disconnect, StartTools, ProxyFails, TurnTypeOK, Kinds
<1>3. CASE BeginProxy(w)
  BY <1>1, <1>3 DEF BeginProxy, TurnTypeOK
<1>4. CASE ProxyChunk(w)
  <2>1. [shown[w] EXCEPT !.chunks = @ + 1] \in Shown
    <3>1. shown[w] \in Shown /\ F("chunk") \in Frame
      BY DEF TurnTypeOK, F, Frame
    <3> QED
      BY <3>1, ShownGrows
  <2>2. shown' = [shown EXCEPT ![w] = [shown[w] EXCEPT !.chunks = @ + 1]]
    BY <1>4 DEF ProxyChunk
  <2>3. shown' \in [Conns -> Shown]
    BY <2>1, <2>2 DEF TurnTypeOK
  <2> QED
    BY <1>1, <1>4, <2>3 DEF ProxyChunk, TurnTypeOK
<1> QED
  BY <1>2, <1>3, <1>4

LEMMA SendTypes ==
    ASSUME NEW w \in Conns, TurnTypeOK, Send(w)
    PROVE  TurnTypeOK'
<1>1. /\ w \in Tasks /\ out[w] \in Seq(Frame) /\ out[w] # <<>> /\ events[w] \in Seq(Frame)
      /\ text[w] \in Nat /\ shown[w] \in Shown
  BY DEF TurnTypeOK, Tasks, Send
<1>2. Head(out[w]) \in Frame /\ Tail(out[w]) \in Seq(Frame)
  BY <1>1
<1>3. out' \in [Conns -> Seq(Frame)]
  BY <1>2 DEF Send, TurnTypeOK
<1>4. text' \in [Conns -> Nat] /\ events' \in [Conns -> Seq(Frame)]
  BY <1>1, <1>2 DEF Send, Grown, Recorded, TurnTypeOK
<1>5. shown' \in [Conns -> Shown]
  <2>1. /\ [shown[w] EXCEPT !.chunks = @ + 1] \in Shown
        /\ [shown[w] EXCEPT !.marks = Append(@, Head(out[w]))] \in Shown
    BY <1>1, <1>2, ShownGrows
  <2>2. \/ shown' = [shown EXCEPT ![w] = [shown[w] EXCEPT !.chunks = @ + 1]]
        \/ shown' = [shown EXCEPT ![w] = [shown[w] EXCEPT !.marks = Append(@, Head(out[w]))]]
    BY DEF Send, Received
  <2> QED
    BY <2>1, <2>2 DEF TurnTypeOK
<1> QED
  BY <1>1, <1>3, <1>4, <1>5 DEF Send, TurnTypeOK

LEMMA WritingTypes ==
    ASSUME NEW w \in Conns, BatchInv, TurnTypeOK, target[w] = w,
           \/ BeginTurn(w) \/ BeginTurnFails(w) \/ SendFails(w) \/ EndTurn(w) \/ ToolsFail(w)
    PROVE  TurnTypeOK'
<1>1. /\ w \in Tasks /\ turn[w] \in Nat /\ <<>> \in Seq(Frame) /\ events[w] \in Seq(Frame)
      /\ text[w] \in Nat /\ Opening(w) \in Seq(Frame)
  BY OpeningType DEF TurnTypeOK, Tasks
<1>2. NothingShown \in Shown
  BY <1>1 DEF NothingShown, Shown
<1>3. CASE BeginTurn(w) \/ BeginTurnFails(w)
  <2>1. PICK line \in Line : log' = [log EXCEPT ![w] = WriteMessage(@, line)]
    <3>1. CASE BeginTurn(w)
      <4>1. PICK line : line = [L(w, "human", {}, 0, <<>>) EXCEPT !.turn = @ + 1]
        OBVIOUS
      <4>2. line = [by |-> w, turn |-> turn[w] + 1, type |-> "human", calls |-> {}, text |-> 0, events |-> <<>>]
        BY <4>1 DEF L
      <4>3. turn[w] + 1 \in Nat
        BY <1>1
      <4>4. line \in Line
        BY <1>1, <4>2, <4>3 DEF Line
      <4> QED
        BY <3>1, <4>1, <4>4 DEF BeginTurn
    <3>2. CASE BeginTurnFails(w)
      <4>1. PICK line : line = [by |-> w, turn |-> turn'[w], type |-> "final",
                                calls |-> {}, text |-> 0, events |-> Opening(w)]
        OBVIOUS
      <4>2. turn'[w] \in Nat
        BY <1>1, <3>2 DEF BeginTurnFails, TurnTypeOK
      <4>3. line \in Line
        BY <1>1, <4>1, <4>2 DEF Line
      <4> QED
        BY <3>2, <4>1, <4>3 DEF BeginTurnFails
    <3> QED
      BY <1>3, <3>1, <3>2
  <2>2. log' \in [Tasks -> Seq(Line)]
    BY <1>1, <2>1, WriteType
  <2>3. /\ turn' = [turn EXCEPT ![w] = @ + 1] /\ events' = [events EXCEPT ![w] = Opening(w)]
        /\ text' = [text EXCEPT ![w] = 0] /\ shown' = [shown EXCEPT ![w] = NothingShown]
        /\ loop' \in {loop, w} /\ UNCHANGED <<kind, manifest, out, crashes>>
    BY <1>3 DEF BeginTurn, BeginTurnFails
  <2> QED
    BY <1>1, <1>2, <2>2, <2>3 DEF TurnTypeOK
<1>4. CASE SendFails(w) \/ EndTurn(w) \/ ToolsFail(w)
  <2>1. text' \in [Conns -> Nat]
    BY <1>1, <1>4 DEF SendFails, EndTurn, ToolsFail, Grown, TurnTypeOK
  <2>2. PICK n \in Nat : log' = [log EXCEPT ![w] = WriteMessage(@, L(w, "final", {}, n, events[w]))]
    <3>1. CASE SendFails(w)
      <4>1. log' = [log EXCEPT ![w] = WriteMessage(@, L(w, "final", {}, text'[w], events[w]))]
        BY <3>1 DEF SendFails, Write
      <4> QED
        BY <2>1, <4>1
    <3>2. CASE EndTurn(w) \/ ToolsFail(w)
      <4>1. log' = [log EXCEPT ![w] = WriteMessage(@, L(w, "final", {}, text[w], events[w]))]
        BY <3>2 DEF EndTurn, ToolsFail, FinalLine, Write
      <4> QED
        BY <1>1, <4>1
    <3> QED
      BY <1>4, <3>1, <3>2
  <2>3. L(w, "final", {}, n, events[w]) \in Line
    BY <1>1 DEF L, Line
  <2>4. log' \in [Tasks -> Seq(Line)]
    BY <1>1, <2>2, <2>3, WriteType
  <2> QED
    BY <1>1, <1>4, <2>1, <2>4 DEF SendFails, EndTurn, ToolsFail, TurnTypeOK
<1> QED
  BY <1>3, <1>4

LEMMA AiMessageTypes ==
    ASSUME NEW w \in Conns, BatchInv, TurnTypeOK, target[w] = w, AiMessage(w)
    PROVE  TurnTypeOK'
<1>1. w \in Tasks /\ turn[w] \in Nat /\ <<>> \in Seq(Frame)
  BY DEF TurnTypeOK, Tasks
<1>2. PICK b \in FreshBatches(w), parts \in Contained :
        /\ out' = [out EXCEPT ![w] = [i \in DOMAIN b |-> ToolCallEvent(b[i])]
                    \o (IF "skill" \in parts /\ manifest[w] THEN <<F("skill_use")>> ELSE <<>>)
                    \o (IF "text" \in parts THEN <<F("chunk")>> ELSE <<>>)]
        /\ IF b = <<>> THEN UNCHANGED log ELSE Write(w, L(w, "calls", ToSet(b), 0, <<>>))
  BY DEF AiMessage
<1>3. b \in Seq(Calls)
  BY DEF FreshBatches
<1> DEFINE asked == [i \in DOMAIN b |-> ToolCallEvent(b[i])]
           skill == IF "skill" \in parts /\ manifest[w] THEN <<F("skill_use")>> ELSE <<>>
           chunk == IF "text" \in parts THEN <<F("chunk")>> ELSE <<>>
<1>4. asked \in Seq(Frame)
  <2>1. \A i \in DOMAIN b : ToolCallEvent(b[i]) \in Frame
    BY <1>3 DEF ToolCallEvent, Frame
  <2>2. DOMAIN b = 1..Len(b) /\ Len(b) \in Nat
    BY <1>3
  <2> QED
    BY <2>1, <2>2
<1>5. skill \in Seq(Frame) /\ chunk \in Seq(Frame)
  <2>1. F("skill_use") \in Frame /\ F("chunk") \in Frame
    BY DEF F, Frame
  <2> QED
    BY <2>1
<1>6. out' = [out EXCEPT ![w] = asked \o skill \o chunk]
  BY <1>2
<1> HIDE DEF asked, skill, chunk
<1>7. out' \in [Conns -> Seq(Frame)]
  BY <1>4, <1>5, <1>6 DEF TurnTypeOK
<1>8. log' \in [Tasks -> Seq(Line)]
  <2>1. CASE b = <<>>
    BY <1>2, <2>1 DEF TurnTypeOK
  <2>2. CASE b # <<>>
    <3>1. ToSet(b) \in SUBSET Calls
      BY <1>3 DEF ToSet
    <3>2. L(w, "calls", ToSet(b), 0, <<>>) \in Line
      BY <1>1, <3>1 DEF L, Line
    <3>3. log' = [log EXCEPT ![w] = WriteMessage(@, L(w, "calls", ToSet(b), 0, <<>>))]
      BY <1>2, <2>2 DEF Write
    <3> QED
      BY <1>1, <3>2, <3>3, WriteType
  <2> QED
    BY <2>1, <2>2
<1>9. loop' = None /\ UNCHANGED <<kind, manifest, turn, events, text, shown, crashes>>
  BY DEF AiMessage
<1> QED
  BY <1>7, <1>8, <1>9 DEF TurnTypeOK

\* Several lines in one file.
LEMMA WriteAllTypes ==
    ASSUME TurnTypeOK, NEW s \in Tasks, NEW lines \in Seq(Line),
           log' = [log EXCEPT ![s] = WriteAll(@, lines)]
    PROVE  log' \in [Tasks -> Seq(Line)]
<1>1. log \in [Tasks -> Seq(Line)] /\ log[s] \in Seq(Line)
  BY DEF TurnTypeOK
<1>2. WriteAll(log[s], lines) \in Seq(Line)
  BY <1>1, WriteAllType
<1> QED
  BY <1>1, <1>2

LEMMA SeveralTypes ==
    ASSUME NEW w \in Conns, BatchInv, TurnTypeOK, target[w] = w, ToolsDone(w) \/ ProxyEnds(w)
    PROVE  TurnTypeOK'
<1>1. w \in Tasks /\ turn[w] \in Nat /\ text[w] \in Nat /\ <<>> \in Seq(Frame) /\ batch[w] \in Seq(Calls)
  BY DEF TurnTypeOK, Tasks, BatchInv
<1>2. PICK lines \in Seq(Line) : log' = [log EXCEPT ![w] = WriteAll(@, lines)]
  <2>1. CASE ToolsDone(w)
    <3>1. \A j \in DOMAIN batch[w] : L(w, "tool", {batch[w][j]}, 0, <<>>) \in Line
      <4>1. \A j \in DOMAIN batch[w] : batch[w][j] \in Calls
        BY <1>1
      <4> QED
        BY <1>1, <4>1 DEF L, Line
    <3>2. DOMAIN batch[w] = 1..Len(batch[w]) /\ Len(batch[w]) \in Nat
      BY <1>1
    <3>3. ToolLines(w) \in Seq(Line)
      BY <3>1, <3>2 DEF ToolLines
    <3> QED
      BY <2>1, <3>3 DEF ToolsDone
  <2>2. CASE ProxyEnds(w)
    <3>1. L(w, "human", {}, 0, <<>>) \in Line /\ L(w, "ai", {}, text[w], <<>>) \in Line
      BY <1>1 DEF L, Line
    <3>2. <<L(w, "human", {}, 0, <<>>), L(w, "ai", {}, text[w], <<>>)>> \in Seq(Line)
      BY <3>1
    <3> QED
      BY <2>2, <3>2 DEF ProxyEnds
  <2> QED
    BY <2>1, <2>2
<1>3. log' \in [Tasks -> Seq(Line)]
  BY <1>1, <1>2, WriteAllTypes
<1> QED
  BY <1>3 DEF ToolsDone, ProxyEnds, TurnTypeOK

LEMMA ConnStepTypes ==
    ASSUME NEW w \in Conns, BatchInv, TurnTypeOK, target[w] = w, ConnStep(w)
    PROVE  TurnTypeOK'
BY QuietTypes, SendTypes, WritingTypes, AiMessageTypes, SeveralTypes DEF ConnStep

LEMMA ReqStepTypes ==
    ASSUME NEW r \in Reqs, BatchInv, TurnTypeOK, ReqStep(r)
    PROVE  TurnTypeOK'
<1>1. /\ r \in Tasks /\ turn[r] \in Nat /\ <<>> \in Seq(Frame) /\ target[r] \in Tasks
      /\ Nameable(r) \subseteq Tasks
  BY DEF TurnTypeOK, Tasks, BatchInv, Nameable
<1>2. L(r, "http", {}, 0, <<>>) \in Line
  BY <1>1 DEF L, Line
<1>3. CASE Request(r) \/ RequestCalls(r) \/ StartTools(r) \/ RequestTools(r) \/ RequestFails(r)
  BY <1>1, <1>3 DEF Request, RequestCalls, StartTools, RequestTools, RequestFails, TurnTypeOK
<1>4. CASE ProxyRequest(r) \/ Answer(r)
  <2>1. \/ log' = log
        \/ \E s \in Tasks : log' = [log EXCEPT ![s] = WriteMessage(@, L(r, "http", {}, 0, <<>>))]
    BY <1>1, <1>4 DEF ProxyRequest, Answer
  <2>2. log' \in [Tasks -> Seq(Line)]
    <3>1. CASE log' = log
      BY <3>1 DEF TurnTypeOK
    <3>2. CASE \E s \in Tasks : log' = [log EXCEPT ![s] = WriteMessage(@, L(r, "http", {}, 0, <<>>))]
      BY <1>2, <3>2, WriteType
    <3> QED
      BY <2>1, <3>1, <3>2
  <2>3. loop' \in {loop, None} /\ UNCHANGED <<kind, manifest, turn, out, events, text, shown, crashes>>
    BY <1>4 DEF ProxyRequest, Answer
  <2> QED
    BY <2>2, <2>3 DEF TurnTypeOK
<1> QED
  BY <1>3, <1>4 DEF ReqStep

LEMMA CrashTypes ==
    ASSUME BatchInv, TurnTypeOK, Crash
    PROVE  TurnTypeOK'
<1>1. PICK t \in Tasks, lines \in Seq(Line) : log' = [log EXCEPT ![target[t]] = WriteAll(@, lines)]
  <2>1. PICK t \in Tasks, before \in BOOLEAN, torn \in BOOLEAN :
            log' = [log EXCEPT ![target[t]] = WriteAll(@,
                (IF before THEN <<L(t, "human", {}, 0, <<>>)>> ELSE <<>>)
                  \o (IF torn THEN <<L(t, "torn", {}, 0, <<>>)>> ELSE <<>>))]
    BY DEF Crash
  <2>2. turn[t] \in Nat /\ <<>> \in Seq(Frame)
    BY DEF TurnTypeOK
  <2>3. L(t, "human", {}, 0, <<>>) \in Line /\ L(t, "torn", {}, 0, <<>>) \in Line
    BY <2>2 DEF L, Line
  <2>4. /\ (IF before THEN <<L(t, "human", {}, 0, <<>>)>> ELSE <<>>) \in Seq(Line)
        /\ (IF torn THEN <<L(t, "torn", {}, 0, <<>>)>> ELSE <<>>) \in Seq(Line)
    BY <2>3
  <2>5. (IF before THEN <<L(t, "human", {}, 0, <<>>)>> ELSE <<>>)
           \o (IF torn THEN <<L(t, "torn", {}, 0, <<>>)>> ELSE <<>>) \in Seq(Line)
    BY <2>4
  <2> QED
    BY <2>1, <2>5
<1>2. log' \in [Tasks -> Seq(Line)]
  BY <1>1, WriteAllTypes DEF BatchInv
<1>3. /\ loop' = None /\ crashes' = crashes + 1 /\ UNCHANGED <<kind, turn>>
      /\ out' = [w \in Conns |-> <<>>] /\ events' = [w \in Conns |-> <<>>]
      /\ text' = [w \in Conns |-> 0] /\ shown' = [w \in Conns |-> NothingShown]
      /\ manifest' = [w \in Conns |-> FALSE]
  BY DEF Crash
<1>4. NothingShown \in Shown
  <2>1. <<>> \in Seq(Frame)
    OBVIOUS
  <2> QED
    BY <2>1 DEF NothingShown, Shown
<1> QED
  BY <1>2, <1>3, <1>4 DEF TurnTypeOK

\* Nobody's session is taken over: a connection keeps its own, and the one a request
\* named was there.
LEMMA ConnStepTargets ==
    ASSUME NEW w \in Conns, BatchInv, TargetInv, ConnStep(w)
    PROVE  TargetInv'
<1>1. w \in Tasks /\ w \notin Reqs /\ at \in [Tasks -> Places] /\ Reqs \subseteq Tasks
  BY TasksAssumption DEF BatchInv, Places, Tasks
<1>2. target' = target /\ (at' = at \/ \E p \in Places \ {"new"} : at' = [at EXCEPT ![w] = p])
  <2>1. CASE Open(w) \/ Disconnect(w) \/ BeginTurn(w) \/ BeginTurnFails(w) \/ AiMessage(w) \/ StartTools(w)
    BY <2>1 DEF Open, Disconnect, BeginTurn, BeginTurnFails, AiMessage, StartTools, At, Places
  <2>2. CASE SendFails(w) \/ EndTurn(w) \/ ToolsDone(w) \/ ToolsFail(w)
    BY <2>2 DEF SendFails, EndTurn, ToolsDone, ToolsFail, At, Places
  <2>3. CASE BeginProxy(w) \/ ProxyChunk(w) \/ ProxyFails(w) \/ ProxyEnds(w)
    BY <2>3 DEF BeginProxy, ProxyChunk, ProxyFails, ProxyEnds, At, Places
  <2>4. CASE Send(w)
    <3>1. target' = target
      BY <2>4 DEF Send
    <3>2. at' = at \/ At(w, "ending") \/ At(w, "stream")
      BY <2>4 DEF Send
    <3> QED
      BY <3>1, <3>2 DEF At, Places
  <2> QED
    BY <2>1, <2>2, <2>3, <2>4 DEF ConnStep
<1>3. \A u \in Tasks : (at[u] # "new" => at'[u] # "new") /\ (u # w => at'[u] = at[u])
  BY <1>1, <1>2
<1>4. \A s \in Conns : s \in Tasks
  BY DEF Tasks
<1> QED
  BY <1>1, <1>2, <1>3, <1>4 DEF TargetInv

LEMMA ReqStepTargets ==
    ASSUME NEW r \in Reqs, BatchInv, TargetInv, ReqStep(r)
    PROVE  TargetInv'
<1>1. /\ r \in Tasks /\ r \notin Conns /\ at \in [Tasks -> Places] /\ target \in [Tasks -> Tasks]
      /\ Reqs \subseteq Tasks /\ Conns \subseteq Tasks
  BY TasksAssumption DEF BatchInv, Places, Tasks
<1>2. at' = at \/ \E p \in Places \ {"new", "proxy"} : at' = [at EXCEPT ![r] = p]
  BY DEF ReqStep, Request, ProxyRequest, RequestCalls, StartTools, RequestTools, Answer, RequestFails, At, Places
<1>3. target' = target \/ \E s \in Nameable(r) : target' = [target EXCEPT ![r] = s]
  <2>1. r \in Nameable(r)
    BY DEF Nameable
  <2> QED
    BY <2>1 DEF ReqStep, Request, ProxyRequest, RequestCalls, StartTools, RequestTools, Answer, RequestFails
<1>4. /\ \A u \in Tasks : u # r => at'[u] = at[u] /\ target'[u] = target[u]
      /\ at[r] # "proxy" => at'[r] # "proxy"
      /\ target'[r] = target[r] \/ target'[r] \in Nameable(r)
  BY <1>1, <1>2, <1>3
<1> QED
  BY <1>1, <1>4 DEF TargetInv, Nameable

LEMMA CrashTargets ==
    ASSUME TargetInv, Crash
    PROVE  TargetInv'
<1>1. target' = target /\ \A u \in Tasks : at'[u] = IF at[u] = "new" THEN "new" ELSE "closed"
  BY DEF Crash
<1> QED
  BY <1>1 DEF TargetInv, Tasks

\* The calls a turn takes up, starts and drops are its own.
LEMMA OwnersStay ==
    ASSUME NEW t \in Tasks, BatchInv, GateTypeOK, OwnedInv,
           \/ pc' = pc /\ batch' = batch
           \/ Mine(t) = {} /\ \E b \in FreshBatches(t) : Ask(t, b)
           \/ batch' = batch /\ \A c \in Calls \ Mine(t) : pc'[c] = pc[c]
           \/ Forget(Mine(t)) /\ batch' = [batch EXCEPT ![t] = <<>>]
    PROVE  OwnedInv'
<1>1. SUFFICES ASSUME NEW c \in Calls, pc'[c] \notin {"idle", "asked", "over"}
               PROVE  \E u \in Tasks : c \in Mine(u)'
  BY DEF OwnedInv
<1>2. batch \in [Tasks -> Seq(Calls)]
  BY DEF BatchInv
<1>3. CASE pc' = pc /\ batch' = batch
  BY <1>1, <1>3 DEF OwnedInv, Mine
<1>4. CASE Mine(t) = {} /\ \E b \in FreshBatches(t) : Ask(t, b)
  <2>1. PICK b \in FreshBatches(t) : Ask(t, b)
    BY <1>4
  <2>2. pc'[c] = pc[c] /\ batch' = [batch EXCEPT ![t] = b]
    BY <1>1, <2>1 DEF Ask
  <2>3. PICK u \in Tasks : c \in Mine(u)
    BY <1>1, <2>2 DEF OwnedInv
  <2>4. u # t
    BY <1>4, <2>3
  <2> QED
    BY <1>2, <2>2, <2>3, <2>4 DEF Mine
<1>5. CASE batch' = batch /\ \A d \in Calls \ Mine(t) : pc'[d] = pc[d]
  BY <1>1, <1>5 DEF OwnedInv, Mine
<1>6. CASE Forget(Mine(t)) /\ batch' = [batch EXCEPT ![t] = <<>>]
  <2>1. c \notin Mine(t) /\ pc'[c] = pc[c]
    BY <1>1, <1>6 DEF Forget
  <2>2. PICK u \in Tasks : c \in Mine(u)
    BY <1>1, <2>1 DEF OwnedInv
  <2> QED
    BY <1>2, <1>6, <2>1, <2>2 DEF Mine
<1> QED
  BY <1>3, <1>4, <1>5, <1>6

LEMMA StepOwners ==
    ASSUME NEW t \in Tasks, BatchInv, GateTypeOK, OwnedInv,
           (t \in Conns /\ ConnStep(t)) \/ (t \in Reqs /\ ReqStep(t))
    PROVE  OwnedInv'
<1>1. batch[t] = <<>> => Mine(t) = {}
  BY DEF Mine, ToSet
<1>2. CASE StartTools(t)
  <2>1. batch' = batch /\ \A c \in Calls \ Mine(t) : pc'[c] = pc[c]
    BY <1>2 DEF StartTools, Mine
  <2> QED
    BY <2>1, OwnersStay
<1>3. CASE AiMessage(t) \/ RequestCalls(t)
  <2>1. Mine(t) = {} /\ \E b \in FreshBatches(t) : Ask(t, b)
    BY <1>1, <1>3 DEF AiMessage, RequestCalls
  <2> QED
    BY <2>1, OwnersStay
<1>4. CASE SendFails(t) \/ ToolsDone(t) \/ ToolsFail(t) \/ RequestTools(t) \/ RequestFails(t)
  <2>1. Forget(Mine(t)) /\ batch' = [batch EXCEPT ![t] = <<>>]
    BY <1>4 DEF SendFails, ToolsDone, ToolsFail, RequestTools, RequestFails, Mine
  <2> QED
    BY <2>1, OwnersStay
<1>5. CASE \/ Open(t) \/ Disconnect(t) \/ BeginTurn(t) \/ BeginTurnFails(t) \/ Send(t) \/ EndTurn(t)
           \/ BeginProxy(t) \/ ProxyChunk(t) \/ ProxyFails(t) \/ ProxyEnds(t)
           \/ Request(t) \/ ProxyRequest(t) \/ Answer(t)
  <2>1. pc' = pc /\ batch' = batch
    BY <1>5 DEF Open, Disconnect, BeginTurn, BeginTurnFails, Send, EndTurn, BeginProxy, ProxyChunk,
       ProxyFails, ProxyEnds, Request, ProxyRequest, Answer, gateVars
  <2> QED
    BY <2>1, OwnersStay
<1> QED
  BY <1>2, <1>3, <1>4, <1>5 DEF ConnStep, ReqStep

---------------------------------------------------------------------------
(* The theorems of the log *)

LEMMA LogInitHolds == Init => LogInv
<1> SUFFICES ASSUME Init PROVE LogInv
  OBVIOUS
<1>1. TurnTypeOK
  <2>1. <<>> \in Seq(Frame) /\ <<>> \in Seq(Line)
    OBVIOUS
  <2>2. NothingShown \in Shown
    BY <2>1 DEF NothingShown, Shown
  <2> QED
    BY <2>1, <2>2 DEF Init, TurnTypeOK
<1>2. TargetInv
  BY TasksAssumption DEF Init, TargetInv, Tasks
<1>3. OwnedInv
  BY DEF Init, GateInit, OwnedInv
<1>4. ASSUME NEW w \in Conns PROVE ConnInv(w)
  <2>1. /\ at[w] = "new" /\ log[w] = <<>> /\ turn[w] = 0 /\ kind[w] = None /\ out[w] = <<>> /\ Mine(w) = {}
    BY DEF Init, Tasks, Mine, ToSet
  <2>2. \A k, types : LinesOf(log[w], w, k, types) = {}
    BY <2>1 DEF LinesOf
  <2>3. HandlerInv(w) /\ MessageInv(w)
    BY <2>1 DEF HandlerInv, MessageInv, InTurn
  <2>4. FileInv(w)
    BY <2>1 DEF FileInv
  <2>5. FinalInv(w)
    BY <2>2 DEF FinalInv, Tells
  <2> QED
    BY <2>3, <2>4, <2>5 DEF ConnInv
<1> QED
  BY <1>1, <1>2, <1>3, <1>4 DEF LogInv

LEMMA LogNextKeeps == IInv /\ LogInv /\ [Next]_vars => LogInv'
<1> SUFFICES ASSUME IInv, LogInv, [Next]_vars PROVE LogInv'
  OBVIOUS
<1>0. /\ BatchInv /\ GateTypeOK /\ TurnTypeOK /\ TargetInv /\ OwnedInv
      /\ \A w \in Conns : w \in Tasks /\ target[w] = w /\ ConnInv(w)
  BY DEF IInv, GateInv, LogInv, TargetInv, Tasks
<1>1. ASSUME NEW v \in Conns, ConnStep(v) PROVE LogInv'
  <2>1. TurnTypeOK' /\ TargetInv' /\ OwnedInv'
    BY <1>0, <1>1, ConnStepTypes, ConnStepTargets, StepOwners
  <2>2. ASSUME NEW w \in Conns PROVE ConnInv(w)'
    <3>1. CASE w = v
      BY <1>0, <1>1, <3>1, OwnStepKeeps
    <3>2. CASE w # v
      BY <1>0, <1>1, <3>2, OthersKeep
    <3> QED
      BY <3>1, <3>2
  <2> QED
    BY <2>1, <2>2 DEF LogInv
<1>2. ASSUME NEW r \in Reqs, ReqStep(r) PROVE LogInv'
  <2>1. r \in Tasks
    BY DEF Tasks
  <2>2. TurnTypeOK' /\ TargetInv' /\ OwnedInv'
    BY <1>0, <1>2, <2>1, ReqStepTypes, ReqStepTargets, StepOwners
  <2>3. ASSUME NEW w \in Conns PROVE ConnInv(w)'
    BY <1>0, <1>2, OthersKeep
  <2> QED
    BY <2>2, <2>3 DEF LogInv
<1>3. ASSUME UNCHANGED turnVars,
             \/ \E c \in Calls : CallStep(c)
             \/ pc' = pc
      PROVE  LogInv'
  <2>1. TurnTypeOK' /\ TargetInv'
    BY <1>0, <1>3 DEF turnVars, TurnTypeOK, TargetInv
  <2>2. OwnedInv'
    <3>1. \A d \in Calls : pc'[d] \notin {"idle", "asked", "over"} => pc[d] \notin {"idle", "asked", "over"}
      <4>1. CASE \E c \in Calls : CallStep(c)
        BY <1>0, <4>1, CallMoves DEF GateTypeOK
      <4>2. CASE pc' = pc
        BY <4>2
      <4> QED
        BY <1>3, <4>1, <4>2
    <3> QED
      BY <1>0, <1>3, <3>1 DEF turnVars, OwnedInv, Mine
  <2>3. ASSUME NEW w \in Conns PROVE ConnInv(w)'
    BY <1>0, <1>3, OthersKeep
  <2> QED
    BY <2>1, <2>2, <2>3 DEF LogInv
<1>4. CASE Crash
  <2>1. TurnTypeOK' /\ TargetInv'
    BY <1>0, <1>4, CrashTypes, CrashTargets
  <2>2. OwnedInv'
    BY <1>4 DEF Crash, ResetGate, OwnedInv
  <2>3. ASSUME NEW w \in Conns PROVE ConnInv(w)'
    BY <1>0, <1>4, CrashKeepsConn
  <2> QED
    BY <2>1, <2>2, <2>3 DEF LogInv
<1>5. ASSUME NEW i \in Calls, NEW d \in {"approved", "rejected"}, Decide(i, d), UNCHANGED turnVars
      PROVE  LogInv'
  BY <1>3, <1>5 DEF Decide
<1>6. CASE UNCHANGED vars
  BY <1>3, <1>6 DEF vars, gateVars
<1> QED
  BY <1>1, <1>2, <1>3, <1>4, <1>5, <1>6 DEF Next

LEMMA LogInvariantHolds == Spec => [](IInv /\ LogInv)
<1>1. Init => IInv /\ LogInv
  BY InitHolds, LogInitHolds
<1>2. IInv /\ LogInv /\ [Next]_vars => (IInv /\ LogInv)'
  BY NextKeeps, LogNextKeeps
<1> QED
  BY <1>1, <1>2, PTL DEF Spec

\* The whole state of the turns and of the log stays of its type: among others every
\* line of a session file tells whose turn it is from, however it came about
\* (server.py, session.py).
THEOREM TurnTypeCorrect == Spec => []TypeOK
<1>1. IInv /\ LogInv => TypeOK
  BY DEF IInv, GateInv, BatchInv, LogInv, TurnTypeOK, TypeOK
<1> QED
  BY <1>1, LogInvariantHolds, PTL

\* No tool of a WebSocket turn runs before the line of its message is whole in the
\* session file and the client was told of it (server.py ws_chat).
THEOREM CallLoggedBeforeRunHolds == Spec => []CallLoggedBeforeRun
<1>1. IInv /\ LogInv => CallLoggedBeforeRun
  <2> SUFFICES ASSUME IInv, LogInv PROVE CallLoggedBeforeRun
    OBVIOUS
  <2>1. ASSUME NEW c \in Calls, pc[c] \notin {"idle", "asked", "over"}
        PROVE  \/ \E w \in Conns : \E i \in DOMAIN log[w] :
                    log[w][i].by = w /\ log[w][i].type = "calls" /\ c \in log[w][i].calls
               \/ \E r \in Reqs : c \in ToSet(batch[r])
    <3>1. PICK t \in Tasks : c \in Mine(t)
      BY <2>1 DEF LogInv, OwnedInv
    <3>2. CASE t \in Conns
      BY <3>1, <3>2 DEF LogInv, ConnInv, MessageInv
    <3>3. CASE t \in Reqs
      BY <3>1, <3>3 DEF Mine
    <3> QED
      BY <3>2, <3>3 DEF Tasks
  <2>2. ASSUME NEW w \in Conns, at[w] = "tools", NEW c \in ToSet(batch[w])
        PROVE  ToolCallEvent(c) \in ToSet(shown[w].marks)
    <3>1. HandlerInv(w) /\ MessageInv(w) /\ c \in Mine(w)
      BY DEF LogInv, ConnInv, Mine
    <3>2. out[w] = <<>>
      BY <2>2, <3>1 DEF HandlerInv
    <3>3. ToSet(out[w]) = {}
      BY <3>2 DEF ToSet
    <3> QED
      BY <3>1, <3>3 DEF MessageInv
  <2> QED
    BY <2>1, <2>2 DEF CallLoggedBeforeRun
<1> QED
  BY <1>1, LogInvariantHolds, PTL

\* What the session file tells of an answer is what the client saw of it, piece by
\* piece and in order, but for the piece whose send failed (server.py ws_chat).
THEOREM FinalTellsWhatWasShownHolds == Spec => []FinalTellsWhatWasShown
<1>1. IInv /\ LogInv => FinalTellsWhatWasShown
  <2> SUFFICES ASSUME LogInv, NEW w \in Conns, at[w] # "closed" \/ crashes = 0,
                      NEW i \in LinesOf(log[w], w, turn[w], {"final"})
               PROVE  /\ log[w][i].events = Opening(w) \o shown[w].marks
                      /\ log[w][i].text \in {shown[w].chunks, shown[w].chunks + 1}
                      /\ at[w] = "ready" => log[w][i].text = shown[w].chunks
    BY DEF FinalTellsWhatWasShown
  <2>1. Tells(w, turn[w])
    BY DEF LogInv, ConnInv, FinalInv
  <2> QED
    BY <2>1 DEF Tells
<1> QED
  BY <1>1, LogInvariantHolds, PTL

\* However the turns of a connection end, and whatever else is written to its file,
\* its lines are those of whole turns, one after the other (server.py ws_chat).
THEOREM TurnsAreBracketedHolds == Spec => []TurnsAreBracketed
<1>1. IInv /\ LogInv => TurnsAreBracketed
  BY DEF LogInv, ConnInv, FileInv, TurnsAreBracketed
<1> QED
  BY <1>1, LogInvariantHolds, PTL

---------------------------------------------------------------------------
(* Role permissions: the updates of the file are exact, and only a look-up *)
(* that a save has overtaken leaves a stale cache.                         *)

\* A thread has loaded what the file says unless a save has overtaken it, and the
\* cache it will return is still there unless it was cleared meanwhile.
ReaderInv ==
    \A t \in Reader :
        /\ reader[t] = "loaded" => loaded[t] # Nothing
        /\ LoopFree /\ overlapped = {} /\ reader[t] = "loaded" => loaded[t] = Read
        /\ reader[t] = "stored" /\ cache = Nothing => t \in overlapped

RbacInv == RbacTypeOK /\ ReaderInv /\ StaleOnlyIfOverlapped

Files == [Role -> RoleData]

-----------------------------------------------------------------------------
(* The updates of one role's data *)

LEMMA NoDataType == NoData \in RoleData
BY DEF NoData, RoleData

LEMMA SkillSetType ==
    ASSUME NEW data \in RoleData, NEW s \in Skill, NEW selected \in BOOLEAN
    PROVE  SkillSet(data, s, selected) \in RoleData
BY DEF SkillSet, RoleData

LEMMA ServerSetType ==
    ASSUME NEW data \in RoleData, NEW v \in Server, NEW selected \in BOOLEAN
    PROVE  ServerSet(data, v, selected) \in RoleData
BY DEF ServerSet, RoleData

\* What set_skill_roles does to one role.
LEMMA SkillSetExact ==
    ASSUME NEW data \in RoleData, NEW s \in Skill, NEW selected \in BOOLEAN,
           NEW new, new = SkillSet(data, s, selected)
    PROVE  /\ selected /\ All \notin data.skills_denied => AllowsSkill(new, s)
           /\ ~ selected /\ All \notin data.skills_allowed => ~ AllowsSkill(new, s)
           /\ \A other \in Skill \ {s} : AllowsSkill(new, other) <=> AllowsSkill(data, other)
           /\ \A t \in Tool : AllowsTool(new, t) <=> AllowsTool(data, t)
<1>1. /\ new.exact = data.exact
      /\ new.skill_access = data.skill_access
      /\ new.mcp_tools = data.mcp_tools
      /\ new.mcp_tools_denied = data.mcp_tools_denied
      BY DEF SkillSet, RoleData
<1>2. new.skills = IF ~ (data.exact /\ All \notin data.skills) THEN data.skills
                   ELSE IF selected THEN data.skills \cup {s} ELSE data.skills \ {s}
      BY DEF SkillSet, RoleData
<1>3. new.skills_allowed = IF selected /\ ~ data.exact /\ ~ ByDefault(data, s)
                           THEN data.skills_allowed \cup {s} ELSE data.skills_allowed \ {s}
      BY DEF SkillSet, RoleData
<1>4. new.skills_denied = IF ~ selected /\ ByDefault(data, s)
                          THEN data.skills_denied \cup {s} ELSE data.skills_denied \ {s}
      BY DEF SkillSet, RoleData
<1>5. All # s /\ data.exact \in BOOLEAN
      BY EntryAssumption DEF RoleData
<1>6. selected /\ All \notin data.skills_denied => AllowsSkill(new, s)
      BY <1>1, <1>2, <1>3, <1>4, <1>5 DEF AllowsSkill, ByDefault
<1>7. ~ selected /\ All \notin data.skills_allowed => ~ AllowsSkill(new, s)
      BY <1>1, <1>2, <1>3, <1>4, <1>5 DEF AllowsSkill, ByDefault
<1>8. ASSUME NEW other \in Skill \ {s}
      PROVE  AllowsSkill(new, other) <=> AllowsSkill(data, other)
  <2>1. /\ All \in new.skills <=> All \in data.skills
        /\ other \in new.skills <=> other \in data.skills
        BY <1>2, <1>5
  <2>2. /\ All \in new.skills_allowed <=> All \in data.skills_allowed
        /\ other \in new.skills_allowed <=> other \in data.skills_allowed
        BY <1>3, <1>5
  <2>3. /\ All \in new.skills_denied <=> All \in data.skills_denied
        /\ other \in new.skills_denied <=> other \in data.skills_denied
        BY <1>4, <1>5
  <2> QED BY <1>1, <2>1, <2>2, <2>3 DEF AllowsSkill
<1>9. \A t \in Tool : AllowsTool(new, t) <=> AllowsTool(data, t)
      BY <1>1 DEF AllowsTool
<1> QED BY <1>6, <1>7, <1>8, <1>9

\* What set_mcp_server_roles does to one role.
LEMMA ServerSetExact ==
    ASSUME NEW data \in RoleData, NEW v \in Server, NEW selected \in BOOLEAN,
           NEW new, new = ServerSet(data, v, selected)
    PROVE  /\ selected /\ All \notin data.mcp_tools_denied =>
                 /\ HasServer(new, v)
                 /\ \A t \in ToolsOf(v) \ data.mcp_tools_denied : AllowsTool(new, t)
           /\ ~ selected => ~ HasServer(new, v) /\ \A t \in ToolsOf(v) : ~ AllowsTool(new, t)
           /\ \A t \in Tool \ ToolsOf(v) : AllowsTool(new, t) <=> AllowsTool(data, t)
           /\ \A s \in Skill : AllowsSkill(new, s) <=> AllowsSkill(data, s)
<1>1. /\ new.exact = data.exact
      /\ new.skills = data.skills
      /\ new.skills_allowed = data.skills_allowed
      /\ new.skills_denied = data.skills_denied
      /\ new.skill_access = data.skill_access
      BY DEF ServerSet, RoleData
<1>2. new.mcp_tools = IF selected /\ All \notin data.mcp_tools
                      THEN (data.mcp_tools \ ({v} \cup ToolsOf(v))) \cup {v}
                      ELSE data.mcp_tools \ ({v} \cup ToolsOf(v))
      BY DEF ServerSet, RoleData
<1>3. new.mcp_tools_denied = IF ~ selected /\ All \in data.mcp_tools
                             THEN data.mcp_tools_denied \cup {v} ELSE data.mcp_tools_denied \ {v}
      BY DEF ServerSet, RoleData
<1>4. All # v /\ All \notin ToolsOf(v) /\ v \notin Tool
      BY EntryAssumption DEF ToolsOf
<1>5. \A t \in ToolsOf(v) : ServerOf[t] = v /\ t \in Tool
      BY DEF ToolsOf
<1>6. selected /\ All \notin data.mcp_tools_denied =>
         /\ HasServer(new, v)
         /\ \A t \in ToolsOf(v) \ data.mcp_tools_denied : AllowsTool(new, t)
      BY <1>2, <1>3, <1>4, <1>5 DEF HasServer, AllowsTool
<1>7. ~ selected => ~ HasServer(new, v) /\ \A t \in ToolsOf(v) : ~ AllowsTool(new, t)
      BY <1>2, <1>3, <1>4, <1>5 DEF HasServer, AllowsTool
<1>8. ASSUME NEW t \in Tool \ ToolsOf(v)
      PROVE  AllowsTool(new, t) <=> AllowsTool(data, t)
  <2>1. /\ ServerOf[t] # v /\ ServerOf[t] \in Server
        /\ ServerOf[t] \notin ToolsOf(v) /\ t # v
        BY EntryAssumption, ServerOfAssumption DEF ToolsOf
  <2>2. \A e \in {All, ServerOf[t], t} : e \in new.mcp_tools <=> e \in data.mcp_tools
        BY <2>1, <1>2, <1>4
  <2>3. \A e \in {All, ServerOf[t], t} :
            e \in new.mcp_tools_denied <=> e \in data.mcp_tools_denied
        BY <2>1, <1>3, <1>4
  <2> QED BY <2>2, <2>3 DEF AllowsTool
<1>9. \A s \in Skill : AllowsSkill(new, s) <=> AllowsSkill(data, s)
      BY <1>1 DEF AllowsSkill
<1> QED BY <1>6, <1>7, <1>8, <1>9

-----------------------------------------------------------------------------
(* The invariant *)

LEMMA ReadType == RbacTypeOK => Read \in Files
BY NoDataType DEF RbacTypeOK, Read, Empty, Files

\* What an update writes is a file.
LEMMA UpdateType ==
    ASSUME RbacTypeOK, NEW roles \in SUBSET Role
    PROVE  /\ \A s \in Skill : [r \in Role |-> SkillSet(Read[r], s, r \in roles)] \in Files
           /\ \A v \in Server : [r \in Role |-> ServerSet(Read[r], v, r \in roles)] \in Files
<1>1. ASSUME NEW r \in Role
      PROVE  Read[r] \in RoleData /\ (r \in roles) \in BOOLEAN
      BY ReadType DEF Files
<1> QED BY <1>1, SkillSetType, ServerSetType DEF Files

LEMMA RbacInitHolds == RbacInit => RbacInv
BY InitialFileAssumption, MaxSavesAssumption
   DEF RbacInit, RbacInv, RbacTypeOK, ReaderInv, StaleOnlyIfOverlapped, LoopFree, Read

LEMMA SaveHolds == ASSUME RbacInv, NEW new \in Files, Save(new) PROVE RbacInv'
<1>1. RbacTypeOK'
      BY MaxSavesAssumption DEF RbacInv, RbacTypeOK, Save, Files
<1>2. ~ LoopFree'
      BY NothingAssumption DEF Save, LoopFree, Files
<1> QED BY <1>1, <1>2 DEF RbacInv, Save, RbacTypeOK, ReaderInv, StaleOnlyIfOverlapped

LEMMA RbacNextHolds == RbacInv /\ [RbacNext]_rbacVars => RbacInv'
<1> SUFFICES ASSUME RbacInv, [RbacNext]_rbacVars PROVE RbacInv'
    OBVIOUS
<1> USE DEF RbacInv
<1>1. ASSUME NEW roles \in SUBSET Role, NEW s \in Skill, SetSkillRoles(s, roles)
      PROVE  RbacInv'
      BY <1>1, UpdateType, SaveHolds DEF SetSkillRoles
<1>2. ASSUME NEW roles \in SUBSET Role, NEW v \in Server, SetServerRoles(v, roles)
      PROVE  RbacInv'
      BY <1>2, UpdateType, SaveHolds DEF SetServerRoles
<1>3. CASE WriteFile
      BY <1>3 DEF WriteFile, RbacTypeOK, ReaderInv, StaleOnlyIfOverlapped, LoopFree
<1>4. CASE ClearCaches
      BY <1>4 DEF ClearCaches, RbacTypeOK, ReaderInv, StaleOnlyIfOverlapped
<1>5. CASE LoopLooksUp
  <2>1. Read \in Files /\ Read # Nothing
        BY ReadType, NothingAssumption DEF Files
  <2>2. Read' = Read /\ LoopFree' = LoopFree
        BY <1>5 DEF LoopLooksUp, Read, LoopFree
  <2> QED BY <2>1, <2>2, <1>5 DEF LoopLooksUp, RbacTypeOK, ReaderInv, StaleOnlyIfOverlapped, Files
<1>6. CASE Restart
      BY <1>6 DEF Restart, RbacTypeOK, ReaderInv, StaleOnlyIfOverlapped
<1>7. ASSUME NEW t \in Reader, LooksUp(t) \/ Loads(t) \/ Stores(t) \/ Returns(t)
      PROVE  RbacInv'
  <2>1. /\ Read \in Files /\ Read # Nothing
        /\ Read' = Read /\ LoopFree' = LoopFree
        BY <1>7, ReadType, NothingAssumption
           DEF LooksUp, Loads, Stores, Returns, Read, LoopFree, Files
  <2>2. CASE LooksUp(t)
        BY <2>1, <2>2 DEF LooksUp, RbacTypeOK, ReaderInv, StaleOnlyIfOverlapped
  <2>3. CASE Loads(t)
        BY <2>1, <2>3 DEF Loads, RbacTypeOK, ReaderInv, StaleOnlyIfOverlapped, Files
  <2>4. CASE Stores(t)
        BY <2>1, <2>4 DEF Stores, RbacTypeOK, ReaderInv, StaleOnlyIfOverlapped
  <2>5. CASE Returns(t)
        BY <2>1, <2>5 DEF Returns, RbacTypeOK, ReaderInv, StaleOnlyIfOverlapped
  <2> QED BY <1>7, <2>2, <2>3, <2>4, <2>5
<1>8. CASE UNCHANGED rbacVars
      BY <1>8 DEF rbacVars, RbacTypeOK, ReaderInv, StaleOnlyIfOverlapped, LoopFree, Read
<1> QED BY <1>1, <1>2, <1>3, <1>4, <1>5, <1>6, <1>7, <1>8 DEF RbacNext

\* Everything the theorems rest on.
THEOREM RbacInvariantHolds == RbacSpec => []RbacInv
<1> QED BY RbacInitHolds, RbacNextHolds, PTL DEF RbacSpec

\* The file, the cache and the look-ups are well typed.
THEOREM RbacTypeCorrect == RbacSpec => []RbacTypeOK
<1>1. RbacInv => RbacTypeOK
      BY DEF RbacInv
<1> QED BY <1>1, RbacInvariantHolds, PTL

\* Only a look-up that a save has overtaken leaves a stale cache or gets no mapping.
THEOREM StaleOnlyIfOverlappedHolds == RbacSpec => []StaleOnlyIfOverlapped
<1>1. RbacInv => StaleOnlyIfOverlapped
      BY DEF RbacInv
<1> QED BY <1>1, RbacInvariantHolds, PTL

-----------------------------------------------------------------------------
(* The action properties *)

LEMMA SavesNew ==
    ASSUME RbacTypeOK, NEW new, Save(new)
    PROVE  saving' = new
BY DEF Save

\* set_skill_roles gives a skill to exactly the roles it was asked for.
THEOREM SkillUpdateExactHolds == RbacSpec => SkillUpdateExact
<1> DEFINE Exact(s, roles) ==
        \A r \in Role :
           LET old == Read[r]
               new == saving'[r]
           IN /\ r \in roles /\ All \notin old.skills_denied => AllowsSkill(new, s)
              /\ r \notin roles /\ All \notin old.skills_allowed => ~ AllowsSkill(new, s)
              /\ \A other \in Skill \ {s} : AllowsSkill(new, other) <=> AllowsSkill(old, other)
              /\ \A t \in Tool : AllowsTool(new, t) <=> AllowsTool(old, t)
<1>1. ASSUME RbacTypeOK, NEW s \in Skill, NEW roles \in SUBSET Role, SetSkillRoles(s, roles),
             NEW r \in Role
      PROVE  LET old == Read[r]
                 new == saving'[r]
             IN /\ r \in roles /\ All \notin old.skills_denied => AllowsSkill(new, s)
                /\ r \notin roles /\ All \notin old.skills_allowed => ~ AllowsSkill(new, s)
                /\ \A other \in Skill \ {s} : AllowsSkill(new, other) <=> AllowsSkill(old, other)
                /\ \A t \in Tool : AllowsTool(new, t) <=> AllowsTool(old, t)
  <2>1. saving'[r] = SkillSet(Read[r], s, r \in roles)
        BY <1>1, SavesNew DEF SetSkillRoles
  <2>2. Read[r] \in RoleData /\ (r \in roles) \in BOOLEAN
        BY <1>1, ReadType DEF Files
  <2> QED BY <2>1, <2>2, SkillSetExact
<1>2. RbacTypeOK => \A s \in Skill, roles \in SUBSET Role : SetSkillRoles(s, roles) => Exact(s, roles)
      BY <1>1
<1>3. RbacTypeOK /\ [RbacNext]_rbacVars =>
          [\A s \in Skill, roles \in SUBSET Role : SetSkillRoles(s, roles) => Exact(s, roles)]_rbacVars
      BY <1>2
<1> QED BY <1>3, RbacTypeCorrect, PTL DEF RbacSpec, SkillUpdateExact

\* set_mcp_server_roles gives a server to exactly the roles it was asked for.
THEOREM ServerUpdateExactHolds == RbacSpec => ServerUpdateExact
<1> DEFINE Exact(v, roles) ==
        \A r \in Role :
           LET old == Read[r]
               new == saving'[r]
           IN /\ r \in roles /\ All \notin old.mcp_tools_denied =>
                    /\ HasServer(new, v)
                    /\ \A t \in ToolsOf(v) \ old.mcp_tools_denied : AllowsTool(new, t)
              /\ r \notin roles =>
                    ~ HasServer(new, v) /\ \A t \in ToolsOf(v) : ~ AllowsTool(new, t)
              /\ \A t \in Tool \ ToolsOf(v) : AllowsTool(new, t) <=> AllowsTool(old, t)
              /\ \A s \in Skill : AllowsSkill(new, s) <=> AllowsSkill(old, s)
<1>1. ASSUME RbacTypeOK, NEW v \in Server, NEW roles \in SUBSET Role, SetServerRoles(v, roles),
             NEW r \in Role
      PROVE  LET old == Read[r]
                 new == saving'[r]
             IN /\ r \in roles /\ All \notin old.mcp_tools_denied =>
                      /\ HasServer(new, v)
                      /\ \A t \in ToolsOf(v) \ old.mcp_tools_denied : AllowsTool(new, t)
                /\ r \notin roles =>
                      ~ HasServer(new, v) /\ \A t \in ToolsOf(v) : ~ AllowsTool(new, t)
                /\ \A t \in Tool \ ToolsOf(v) : AllowsTool(new, t) <=> AllowsTool(old, t)
                /\ \A s \in Skill : AllowsSkill(new, s) <=> AllowsSkill(old, s)
  <2>1. saving'[r] = ServerSet(Read[r], v, r \in roles)
        BY <1>1, SavesNew DEF SetServerRoles
  <2>2. Read[r] \in RoleData /\ (r \in roles) \in BOOLEAN
        BY <1>1, ReadType DEF Files
  <2> QED BY <2>1, <2>2, ServerSetExact
<1>2. RbacTypeOK => \A v \in Server, roles \in SUBSET Role : SetServerRoles(v, roles) => Exact(v, roles)
      BY <1>1
<1>3. RbacTypeOK /\ [RbacNext]_rbacVars =>
          [\A v \in Server, roles \in SUBSET Role : SetServerRoles(v, roles) => Exact(v, roles)]_rbacVars
      BY <1>2
<1> QED BY <1>3, RbacTypeCorrect, PTL DEF RbacSpec, ServerUpdateExact

\* Both kinds of update are exact.
THEOREM UpdatesExactHolds == RbacSpec => UpdatesExact
BY SkillUpdateExactHolds, ServerUpdateExactHolds DEF UpdatesExact
==============================================================================
