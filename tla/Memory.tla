-------------------------------- MODULE Memory --------------------------------
(***************************************************************************)
(* The memory of one user: the markdown files of long_term.py, the rows of *)
(* mid_term.py, and those who write them.  A turn of the agent reads the   *)
(* files before its first model call and archives itself when it is over   *)
(* (middleware/memory_injection.py, middleware/memory_archive.py); its     *)
(* memory_manage calls (runtime/tools.py) and the heartbeat's extraction   *)
(* (memory/heartbeat.py) write files as well.                              *)
(*                                                                         *)
(* Turns of the gateway's chats and background tasks hold its event loop   *)
(* while they create the files, run tools and archive.  Turns of the cron  *)
(* jobs, which have a memory manager of their own that nobody connects to  *)
(* PostgreSQL, tool calls and the heartbeat run in threads.  A file is     *)
(* read, truncated and written in three steps, between which other threads *)
(* may come in; a read or a write may also raise, before the file was      *)
(* truncated or after.                                                     *)
(*                                                                         *)
(* Short-term memory is left out: nothing calls add_message or set_state,  *)
(* and the flush flag is set by run_until_complete, which raises both on   *)
(* the running loop and in a thread, so that Redis holds no session and    *)
(* clear_session has nothing to clear.  PostgreSQL is external: any call   *)
(* of it may fail, above all those from another loop than its pool's.      *)
(* Rows do not grow old: a heartbeat that finds its rows too old does what *)
(* one that fails does.                                                    *)
(***************************************************************************)
EXTENDS Naturals, Functions

CONSTANTS
    LoopTurns,     \* turns of chats and background tasks
    ThreadTurns,   \* turns of cron jobs
    Tools,         \* memory_manage calls that write
    ToolFiles,     \* the files they name
    Cycles,        \* heartbeats
    Default,       \* the default text of MEMORY.md
    Heart,         \* the heartbeat's thread
    MaxStarts,     \* bound on the starts of the gateway
    None

Turns == LoopTurns \cup ThreadTurns
Actors == Turns \cup Tools \cup {Heart}
Entries == Turns \cup Tools \cup Cycles \cup {Default}
MemoryFiles == {"USER.md", "MEMORY.md"}
Files == MemoryFiles \cup {"daily"}

ASSUME ActorsAssumption ==
    /\ LoopTurns \cap ThreadTurns = {} /\ Tools \cap Turns = {}
    /\ Heart \notin Turns \cup Tools
    /\ Cycles \cap Turns = {}
    /\ None \notin Actors \cup Cycles
    /\ ToolFiles \subseteq Files
ASSUME BoundsAssumption == MaxStarts \in Nat

VARIABLES
    up,            \* the gateway runs
    starts,
    loop,          \* the turn that holds the event loop, or None
    mid,           \* memory_manager.mid_term is connected
    at,            \* where each turn is
    owner,         \* the turn of each tool call
    io,            \* what each actor is writing, or None
    file,          \* the entries in each file
    made,          \* the files that exist
    queued,        \* archive coroutines of each turn that wait for the loop
    rows,          \* rows of mid_term_memory: a turn's summaries, a heartbeat's facts
    heart,         \* where the heartbeat is
    cycle,         \* the current one
    found,         \* what it has yet to save
    \* what is not in the program
    written,       \* entries whose write to a file was completed
    replaced,      \* those that a later write was meant to replace
    damaged        \* files that two actors wrote at a time, or whose write was cut
                   \* short, by a crash or an error

gateway == <<up, starts, mid>>
turns == <<loop, at, owner, queued>>
beat == <<heart, cycle, found>>
disk == <<io, file, made, written, replaced, damaged>>
vars == <<gateway, turns, rows, beat, disk>>

\* A write of entry to file: base is what the actor read before.
Writing == [file : Files, base : SUBSET Entries, entry : Entries, cut : BOOLEAN, replaces : BOOLEAN]
ASSUME WritingAssumption == None \notin Writing
Found == {"preferences", "facts"}

TypeOK ==
    /\ up \in BOOLEAN /\ starts \in Nat /\ mid \in BOOLEAN
    /\ loop \in LoopTurns \cup {None}
    /\ at \in [Turns -> {"new", "init", "run", "log", "archive", "over"}]
    /\ owner \in [Tools -> Turns \cup {None}]
    /\ io \in [Actors -> Writing \cup {None}]
    /\ file \in [Files -> SUBSET Entries]
    /\ made \in SUBSET Files
    /\ queued \in [Turns -> Nat]
    /\ rows \in [Turns \cup Cycles -> Nat]
    /\ heart \in {"idle", "scan", "save", "append", "rows"}
    /\ cycle \in Cycles \cup {None}
    /\ found \in SUBSET Found
    /\ written \in [Files -> SUBSET Entries]
    /\ replaced \in [Files -> SUBSET Entries]
    /\ damaged \in SUBSET Files

Init ==
    /\ up = FALSE /\ starts = 0 /\ mid = FALSE
    /\ loop = None
    /\ at = [t \in Turns |-> "new"]
    /\ owner = [x \in Tools |-> None]
    /\ io = [a \in Actors |-> None]
    /\ file = [f \in Files |-> {}]
    /\ made = {}
    /\ queued = [t \in Turns |-> 0]
    /\ rows = [e \in Turns \cup Cycles |-> 0]
    /\ heart = "idle" /\ cycle = None /\ found = {}
    /\ written = [f \in Files |-> {}]
    /\ replaced = [f \in Files |-> {}]
    /\ damaged = {}

---------------------------------------------------------------------------
(* long_term.py: read_text and write_text *)

Busy(f, others) == \E a \in others : io[a] # None /\ io[a].file = f

\* Mutant: append_file writes what it is given, like write_file.
BeginBlind(a, f, entry, replaces) ==
    /\ io[a] = None
    /\ io' = [io EXCEPT ![a] = [file |-> f, base |-> {}, entry |-> entry, cut |-> FALSE, replaces |-> replaces]]
    /\ damaged' = IF Busy(f, Actors) THEN damaged \cup {f} ELSE damaged
    /\ UNCHANGED <<file, made, written, replaced>>

\* append_file and write_daily_log read the file, write_file does not.
Begin(a, f, entry, replaces) ==
    /\ io[a] = None
    /\ io' = [io EXCEPT ![a] = [file |-> f, base |-> IF replaces THEN {} ELSE file[f],
                                entry |-> entry, cut |-> FALSE, replaces |-> replaces]]
    /\ damaged' = IF Busy(f, Actors) THEN damaged \cup {f} ELSE damaged
    /\ UNCHANGED <<file, made, written, replaced>>

\* write_text opens the file, which creates or empties it ...
Truncate(a) ==
    /\ io[a] # None /\ ~io[a].cut
    /\ file' = [file EXCEPT ![io[a].file] = {}]
    /\ made' = made \cup {io[a].file}
    /\ io' = [io EXCEPT ![a].cut = TRUE]
    /\ UNCHANGED <<written, replaced, damaged>>
    /\ UNCHANGED <<gateway, turns, rows, beat>>

\* ... and then writes the text.
Fill(a) ==
    LET w == io[a] IN
    /\ w # None /\ w.cut
    /\ file' = [file EXCEPT ![w.file] = w.base \cup {w.entry}]
    /\ written' = [written EXCEPT ![w.file] = @ \cup {w.entry}]
    /\ replaced' = IF w.replaces THEN [replaced EXCEPT ![w.file] = written[w.file]] ELSE replaced
    /\ io' = [io EXCEPT ![a] = None]
    /\ UNCHANGED <<made, damaged>>

\* Or it raises, as may what comes before it.  A file that was truncated stays
\* without its text, and nobody writes it again: what memory_manage takes for an
\* unknown name, a ValueError, it tries a second time, with the same outcome.
WriteFails(a) ==
    /\ io[a] # None
    /\ io' = [io EXCEPT ![a] = None]
    /\ damaged' = IF io[a].cut THEN damaged \cup {io[a].file} ELSE damaged
    /\ UNCHANGED <<file, made, written, replaced>>

---------------------------------------------------------------------------
(* A turn *)

\* A turn of a cron job needs no event loop.
Takes(t) ==
    \/ t \in ThreadTurns /\ UNCHANGED loop
    \/ t \in LoopTurns /\ loop \in {None, t} /\ loop' = t
Leaves(t) == loop' = IF loop = t THEN None ELSE loop

\* init_user writes the files that are missing, one after the other.
InitUser(t) ==
    /\ up /\ at[t] = "new" /\ Takes(t)
    /\ at' = [at EXCEPT ![t] = "init"]
    /\ UNCHANGED <<owner, queued, gateway, rows, beat, disk>>

CreateBegins(t) == \E f \in MemoryFiles \ made :
    /\ at[t] = "init"
    /\ f = "MEMORY.md" => "USER.md" \in made
    /\ Begin(t, f, Default, FALSE)
    /\ UNCHANGED <<turns, gateway, rows, beat>>

CreateEnds(t) == at[t] = "init" /\ Fill(t) /\ UNCHANGED <<turns, gateway, rows, beat>>

\* init_user raises, and there is no agent to run.
CreateFails(t) ==
    /\ at[t] = "init" /\ WriteFails(t)
    /\ at' = [at EXCEPT ![t] = "over"] /\ Leaves(t)
    /\ UNCHANGED <<owner, queued, gateway, rows, beat>>

\* A chat may give the loop up here, and whenever it sends: see Yield.
Run(t) ==
    /\ at[t] = "init" /\ io[t] = None /\ MemoryFiles \subseteq made
    /\ at' = [at EXCEPT ![t] = "run"]
    /\ (UNCHANGED loop \/ Leaves(t))
    /\ UNCHANGED <<owner, queued, gateway, rows, beat, disk>>

ToolsAreOver(t) == \A x \in Tools : owner[x] = t => io[x] = None

\* memory_manage, in a tool thread for which the turn waits: append or write.
ToolBegins(x, t) == \E f \in ToolFiles, replaces \in BOOLEAN :
    /\ owner[x] = None /\ at[t] = "run" /\ Takes(t)
    /\ owner' = [owner EXCEPT ![x] = t]
    /\ Begin(x, f, x, replaces)
    /\ UNCHANGED <<at, queued, gateway, rows, beat>>

ToolEnds(x) == Fill(x) /\ UNCHANGED <<turns, gateway, rows, beat>>

\* memory_manage answers with the error, and the turn goes on.
ToolFails(x) == WriteFails(x) /\ UNCHANGED <<turns, gateway, rows, beat>>

\* The turn's next frame is sent.
Yield(t) ==
    /\ at[t] = "run" /\ loop = t /\ ToolsAreOver(t)
    /\ Leaves(t)
    /\ UNCHANGED <<at, owner, queued, gateway, rows, beat, disk>>

\* after_agent, when the turn's tools are over: log_daily ...
AfterAgent(t) ==
    /\ at[t] = "run" /\ ToolsAreOver(t) /\ Takes(t)
    /\ at' = [at EXCEPT ![t] = "log"]
    /\ Begin(t, "daily", t, FALSE)
    /\ UNCHANGED <<owner, queued, gateway, rows, beat>>

\* ... and the archive coroutine: scheduled on the loop, which the turn holds, or
\* run in the thread.
Archive(t) ==
    /\ at[t] = "log" /\ Fill(t)
    /\ at' = [at EXCEPT ![t] = "archive"]
    /\ queued' = [queued EXCEPT ![t] = 1]
    /\ UNCHANGED <<loop, owner, gateway, rows, beat>>

\* log_daily raises out of the agent's run: nothing is archived.
LogFails(t) ==
    /\ at[t] = "log" /\ WriteFails(t)
    /\ at' = [at EXCEPT ![t] = "over"] /\ Leaves(t)
    /\ UNCHANGED <<owner, queued, gateway, rows, beat>>

\* Mutant: a timed-out archive is run once more, like one without a loop.
GiveUpRetrying(t) ==
    /\ at[t] = "archive" /\ loop = t
    /\ at' = [at EXCEPT ![t] = "over"] /\ Leaves(t)
    /\ queued' = [queued EXCEPT ![t] = @ + 1]
    /\ UNCHANGED <<owner, gateway, rows, beat, disk>>

\* Mutant: future.result waits without a timeout.
GiveUpNever(t) ==
    /\ at[t] = "archive" /\ loop = t /\ queued[t] = 0
    /\ at' = [at EXCEPT ![t] = "over"] /\ Leaves(t)
    /\ UNCHANGED <<owner, queued, gateway, rows, beat, disk>>

\* The turn blocks the loop its archive needs, so future.result always times out:
\* after 30 seconds the answer goes out.
GiveUp(t) ==
    /\ at[t] = "archive" /\ loop = t
    /\ at' = [at EXCEPT ![t] = "over"] /\ Leaves(t)
    /\ UNCHANGED <<owner, queued, gateway, rows, beat, disk>>

Insert(e) == rows' = [rows EXCEPT ![e] = @ + 1]

\* _archive_mid_and_short, on the free loop or in the turn's thread.  A failed
\* insert is swallowed by write_mid_term.
RunArchive(t) ==
    /\ queued[t] > 0
    /\ t \in LoopTurns => up /\ loop = None
    /\ queued' = [queued EXCEPT ![t] = @ - 1]
    /\ \/ mid /\ t \in LoopTurns /\ Insert(t)
       \/ UNCHANGED rows
    /\ at' = IF t \in ThreadTurns THEN [at EXCEPT ![t] = "over"] ELSE at
    /\ UNCHANGED <<loop, owner, gateway, beat, disk>>

---------------------------------------------------------------------------
(* The heartbeat *)

HowMany == SumFunction(rows)

\* list_recent_users; an error ends the beat.
Wake(k) ==
    /\ up /\ heart = "idle" /\ mid
    /\ k \in Cycles \ (UNION {written[f] : f \in Files} \cup {cycle})
    /\ HowMany > 0
    /\ heart' = "scan" /\ cycle' = k
    /\ UNCHANGED <<found, gateway, turns, rows, disk>>

\* search_recent and the mini model's extraction.  Rows of both kinds count, those
\* of earlier beats among them.  Without two rows, or when a call fails, or the
\* gateway has disconnected, the beat is over.
Scan == \E fs \in SUBSET Found :
    /\ heart = "scan"
    /\ fs # {} => mid /\ HowMany >= 2
    /\ found' = fs
    /\ heart' = IF fs = {} THEN "idle" ELSE "save"
    /\ UNCHANGED <<cycle, gateway, turns, rows, disk>>

\* The preferences first, and then the facts.
FileOf(fs) == IF "preferences" \in fs THEN "USER.md" ELSE "MEMORY.md"

SaveBegins ==
    /\ heart = "save" /\ found # {}
    /\ heart' = "append"
    /\ Begin(Heart, FileOf(found), cycle, FALSE)
    /\ UNCHANGED <<cycle, found, gateway, turns, rows>>

SaveEnds ==
    /\ heart = "append" /\ Fill(Heart)
    /\ IF "preferences" \in found
       THEN found' = found \ {"preferences"} /\ heart' = "save"
       ELSE found' = found /\ heart' = "rows"
    /\ UNCHANGED <<cycle, gateway, turns, rows>>

\* run swallows the error; what was found and not saved is dropped.
SaveFails ==
    /\ heart = "append" /\ WriteFails(Heart)
    /\ heart' = "idle" /\ found' = {}
    /\ UNCHANGED <<cycle, gateway, turns, rows>>

\* The facts become rows as well, unless the insert fails.
SaveRows ==
    /\ heart = "rows"
    /\ \/ mid /\ Insert(cycle)
       \/ UNCHANGED rows
    /\ found' = {} /\ heart' = "save"
    /\ UNCHANGED <<cycle, gateway, turns, disk>>

BeatEnds ==
    /\ heart = "save" /\ found = {}
    /\ heart' = "idle"
    /\ UNCHANGED <<cycle, found, gateway, turns, rows, disk>>

---------------------------------------------------------------------------
(* server.py lifespan *)

\* Mutant: a store that failed to connect is kept without its pool.
StartHalfConnected == \E connected \in {TRUE, None} :
    /\ ~up /\ starts < MaxStarts
    /\ up' = TRUE /\ starts' = starts + 1
    /\ mid' = connected
    /\ UNCHANGED <<turns, rows, beat, disk>>

\* connect_mid_term leaves no store behind when it fails.
Start == \E connected \in BOOLEAN :
    /\ ~up /\ starts < MaxStarts
    /\ up' = TRUE /\ starts' = starts + 1
    /\ mid' = connected
    /\ UNCHANGED <<turns, rows, beat, disk>>

\* disconnect_mid_term, once the chats are over; threads go on.
Disconnect ==
    /\ up /\ mid /\ loop = None
    /\ mid' = FALSE
    /\ UNCHANGED <<up, starts, turns, rows, beat, disk>>

\* The process ends: at the end of a shutdown, or at any time by a crash.  What was
\* not yet written is lost, and a truncated file stays empty.
Die ==
    /\ up
    /\ up' = FALSE /\ mid' = FALSE
    /\ loop' = None
    /\ at' = [t \in Turns |-> IF at[t] = "new" THEN "new" ELSE "over"]
    /\ queued' = [t \in Turns |-> 0]
    /\ io' = [a \in Actors |-> None]
    /\ damaged' = damaged \cup {io[a].file : a \in {b \in Actors : io[b] # None /\ io[b].cut}}
    /\ heart' = "idle" /\ found' = {}
    /\ UNCHANGED <<starts, owner, rows, cycle, file, made, written, replaced>>

TurnStep(t) ==
    \/ InitUser(t) \/ CreateBegins(t) \/ CreateEnds(t) \/ CreateFails(t) \/ Run(t)
    \/ Yield(t) \/ AfterAgent(t) \/ Archive(t) \/ LogFails(t) \/ GiveUp(t) \/ RunArchive(t)

Next ==
    \/ \E t \in Turns : TurnStep(t)
    \/ \E x \in Tools : ToolEnds(x) \/ ToolFails(x) \/ \E t \in Turns : ToolBegins(x, t)
    \/ \E a \in Actors : Truncate(a)
    \/ \E k \in Cycles : Wake(k)
    \/ Scan \/ SaveBegins \/ SaveEnds \/ SaveFails \/ SaveRows \/ BeatEnds
    \/ Start \/ Disconnect \/ Die

\* What a turn does by itself once it is begun, and a tool.
Goes(t) ==
    \/ CreateBegins(t) \/ CreateEnds(t) \/ CreateFails(t) \/ Run(t) \/ Yield(t)
    \/ Truncate(t) \/ Archive(t) \/ LogFails(t) \/ GiveUp(t)
ToolGoes(x) == Truncate(x) \/ ToolEnds(x) \/ ToolFails(x)

\* Threads and the loop are scheduled; a write ends, if not by an error; an agent's
\* run sends or ends; the timeout of an archive strikes.  Nothing makes a turn, a tool
\* or a heartbeat begin.
Fairness ==
    /\ \A t \in Turns : WF_vars(Goes(t)) /\ WF_vars(RunArchive(t))
    /\ \A x \in Tools : WF_vars(ToolGoes(x))

Spec == Init /\ [][Next]_vars /\ Fairness

---------------------------------------------------------------------------
(* Properties *)

\* An entry whose write was completed, and that nobody meant to replace, is in its
\* file, unless the file was written by two actors at a time, or a write of it was cut
\* short by a crash or an error; and the two are never chats or background tasks,
\* because these create files, log and archive without giving up the event loop
\* (long_term.py append_file, write_daily_log, write_file and init_user_workspace).
LostOnlyByDamage == \A f \in Files :
    /\ f \notin damaged /\ ~Busy(f, Actors) => written[f] \ replaced[f] \subseteq file[f]
    /\ \A t, u \in LoopTurns : t # u => ~(Busy(f, {t}) /\ Busy(f, {u}))

\* The rows follow the files: a turn has at most one summary, although its archive
\* runs after the turn gave it up, and a beat one row for its facts; and the entry
\* was in its file first, so that a crash in between leaves a file without the row
\* and never the row alone (memory_archive.py, heartbeat.py).
RowsFollowFiles ==
    /\ \A e \in Turns \cup Cycles : rows[e] <= 1
    /\ \A t \in Turns : rows[t] > 0 => t \in written["daily"]
    /\ \A k \in Cycles : rows[k] > 0 => k \in written["MEMORY.md"]

\* A turn never keeps the event loop for good, although it waits for an archive
\* that needs the loop; and the archive of every turn is run once the loop is free,
\* unless the process ends (memory_archive.py _run_async_archive).
ArchiveSettles ==
    /\ []<>(loop = None)
    /\ \A t \in Turns : []<>(queued[t] = 0)
=============================================================================
