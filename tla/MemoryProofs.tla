----------------------------- MODULE MemoryProofs -----------------------------
(***************************************************************************)
(* What Memory promises, for any turns, tool calls and heartbeats.         *)
(*                                                                         *)
(* FileInv is about a file and those who have it open: as long as it is    *)
(* not damaged there is one of them, and what it will write back holds     *)
(* every entry that must not be lost.  LoopInv says which turns hold the   *)
(* event loop, ArchiveInv and BeatInv what was written to the files by the *)
(* time a row may be inserted.                                             *)
(***************************************************************************)
EXTENDS Memory, TLAPS

\* Actor a has file f open.
On(a, f) == io[a] # None /\ io[a].file = f

FileInv == \A f \in Files : f \notin damaged =>
    /\ \A a, b \in Actors : On(a, f) /\ On(b, f) => a = b
    /\ (\A a \in Actors : On(a, f) => ~io[a].cut) => written[f] \ replaced[f] \subseteq file[f]
    /\ \A a \in Actors : On(a, f) /\ ~io[a].replaces => written[f] \ replaced[f] \subseteq io[a].base

\* A turn writes while it creates the files and while it logs, and a turn of the
\* gateway's loop does so without giving the loop up.
LoopInv ==
    /\ \A t \in Turns : io[t] # None => at[t] \in {"init", "log"}
    /\ \A t \in LoopTurns : at[t] \in {"init", "log", "archive"} => loop = t

\* A turn is logged before its archive may run.
ArchiveInv == \A t \in Turns :
    /\ at[t] = "log" /\ io[t] # None => io[t].file = "daily" /\ io[t].entry = t
    /\ queued[t] + rows[t] > 0 => at[t] \in {"archive", "over"} /\ t \in written["daily"]
    /\ queued[t] + rows[t] <= 1

\* A beat appends to the files before it inserts its row.
BeatInv ==
    /\ heart # "idle" => cycle \in Cycles
    /\ heart \in {"scan", "append", "rows"} \/ (heart = "save" /\ found # {}) => rows[cycle] = 0
    /\ heart = "append" => found # {}
    /\ heart = "append" /\ io[Heart] # None =>
            io[Heart].file = FileOf(found) /\ io[Heart].entry = cycle
    /\ heart = "rows" => cycle \in written["MEMORY.md"]
    /\ \A k \in Cycles : rows[k] <= 1 /\ (rows[k] > 0 => k \in written["MEMORY.md"])

IInv == TypeOK /\ FileInv /\ LoopInv /\ ArchiveInv /\ BeatInv

---------------------------------------------------------------------------
(* The three steps of a write *)

DiskTypes ==
    /\ io \in [Actors -> Writing \cup {None}]
    /\ file \in [Files -> SUBSET Entries]
    /\ made \in SUBSET Files
    /\ written \in [Files -> SUBSET Entries]
    /\ replaced \in [Files -> SUBSET Entries]
    /\ damaged \in SUBSET Files

\* What a write may change for the others: nothing that they have open, and nothing
\* that was written is taken back.
OnlyIo(a) ==
    /\ \A b \in Actors \ {a} : io'[b] = io[b]
    /\ \A f \in Files : written[f] \subseteq written'[f]

LEMMA BeginKeeps ==
    ASSUME DiskTypes, FileInv, NEW a \in Actors, NEW f \in Files, NEW entry \in Entries,
           NEW replaces \in BOOLEAN, Begin(a, f, entry, replaces)
    PROVE  /\ DiskTypes' /\ FileInv' /\ OnlyIo(a)
           /\ io[a] = None /\ io'[a] # None /\ io'[a].file = f /\ io'[a].entry = entry
<1> DEFINE w == [file |-> f, base |-> IF replaces THEN {} ELSE file[f],
                 entry |-> entry, cut |-> FALSE, replaces |-> replaces]
<1>1. io[a] = None /\ io' = [io EXCEPT ![a] = w] /\ UNCHANGED <<file, made, written, replaced>>
  BY DEF Begin
<1>2. w \in Writing
  BY DEF Writing, DiskTypes
<1>3. w # None
  BY <1>2, WritingAssumption
<1>4. io'[a] = w /\ \A b \in Actors \ {a} : io'[b] = io[b]
  BY <1>1 DEF DiskTypes
<1>5. w.file = f /\ w.entry = entry /\ w.cut = FALSE /\ w.replaces = replaces
      /\ w.base = IF replaces THEN {} ELSE file[f]
  OBVIOUS
<1> HIDE DEF w
<1>6. damaged' \subseteq Files /\ damaged \subseteq damaged' /\ (f \notin damaged' => ~Busy(f, Actors))
  BY DEF Begin, DiskTypes
<1>7. DiskTypes'
  <2>1. io' \in [Actors -> Writing \cup {None}]
    BY <1>1, <1>2 DEF DiskTypes
  <2> QED
    BY <1>1, <1>6, <2>1 DEF DiskTypes
<1>8. ASSUME NEW g \in Files, g \notin damaged'
      PROVE  /\ \A b, c \in Actors : On(b, g)' /\ On(c, g)' => b = c
             /\ (\A b \in Actors : On(b, g)' => ~io'[b].cut) => written'[g] \ replaced'[g] \subseteq file'[g]
             /\ \A b \in Actors : On(b, g)' /\ ~io'[b].replaces => written'[g] \ replaced'[g] \subseteq io'[b].base
  <2>1. g \notin damaged
    BY <1>6, <1>8
  <2>2. CASE g = f
    <3>1. \A b \in Actors : ~On(b, f)
      BY <1>6, <1>8, <2>2 DEF Busy, On
    <3>2. \A b \in Actors : On(b, f)' => b = a
      BY <1>4, <3>1 DEF On
    <3>3. written[f] \ replaced[f] \subseteq file[f]
      BY <2>1, <2>2, <3>1 DEF FileInv
    <3> QED
      BY <1>1, <1>4, <1>5, <2>2, <3>2, <3>3
  <2>3. CASE g # f
    <3>1. \A b \in Actors : On(b, g)' => On(b, g) /\ b # a /\ io'[b] = io[b]
      BY <1>4, <1>5, <2>3 DEF On
    <3>2. \A b \in Actors : On(b, g) => On(b, g)'
      BY <1>1, <1>4 DEF On
    <3> QED
      BY <1>1, <2>1, <3>1, <3>2 DEF FileInv
  <2> QED
    BY <2>2, <2>3
<1>9. FileInv'
  BY <1>8 DEF FileInv
<1> QED
  BY <1>1, <1>3, <1>4, <1>5, <1>7, <1>9 DEF OnlyIo

LEMMA FillKeeps ==
    ASSUME DiskTypes, FileInv, NEW a \in Actors, Fill(a)
    PROVE  /\ DiskTypes' /\ FileInv' /\ OnlyIo(a)
           /\ io[a] # None /\ io'[a] = None /\ io[a].entry \in written'[io[a].file]
<1> DEFINE w == io[a]
<1>1. /\ w # None /\ w.cut
      /\ file' = [file EXCEPT ![w.file] = w.base \cup {w.entry}]
      /\ written' = [written EXCEPT ![w.file] = @ \cup {w.entry}]
      /\ replaced' = IF w.replaces THEN [replaced EXCEPT ![w.file] = written[w.file]] ELSE replaced
      /\ io' = [io EXCEPT ![a] = None]
      /\ UNCHANGED <<made, damaged>>
  BY DEF Fill
<1>2. w \in Writing
  BY <1>1 DEF DiskTypes
<1>3. w.file \in Files /\ w.base \subseteq Entries /\ w.entry \in Entries /\ w.replaces \in BOOLEAN
  BY <1>2 DEF Writing
<1>4. io'[a] = None /\ \A b \in Actors \ {a} : io'[b] = io[b]
  BY <1>1 DEF DiskTypes
<1>5. /\ file'[w.file] = w.base \cup {w.entry}
      /\ written'[w.file] = written[w.file] \cup {w.entry}
      /\ replaced'[w.file] = IF w.replaces THEN written[w.file] ELSE replaced[w.file]
      /\ \A g \in Files : g # w.file =>
            file'[g] = file[g] /\ written'[g] = written[g] /\ replaced'[g] = replaced[g]
  BY <1>1, <1>3 DEF DiskTypes
<1>6. On(a, w.file)
  BY <1>1 DEF On
<1>7. DiskTypes'
  <2>1. io' \in [Actors -> Writing \cup {None}]
    BY <1>1 DEF DiskTypes
  <2>2. file' \in [Files -> SUBSET Entries] /\ written' \in [Files -> SUBSET Entries]
    BY <1>1, <1>3 DEF DiskTypes
  <2>3. replaced' \in [Files -> SUBSET Entries]
    BY <1>1, <1>3 DEF DiskTypes
  <2> QED
    BY <1>1, <2>1, <2>2, <2>3 DEF DiskTypes
<1> HIDE DEF w
<1>8. ASSUME NEW g \in Files, g \notin damaged'
      PROVE  /\ \A b, c \in Actors : On(b, g)' /\ On(c, g)' => b = c
             /\ (\A b \in Actors : On(b, g)' => ~io'[b].cut) => written'[g] \ replaced'[g] \subseteq file'[g]
             /\ \A b \in Actors : On(b, g)' /\ ~io'[b].replaces => written'[g] \ replaced'[g] \subseteq io'[b].base
  <2>1. g \notin damaged
    BY <1>1, <1>8
  <2>2. \A b \in Actors : On(b, g)' => On(b, g) /\ b # a /\ io'[b] = io[b]
    BY <1>4 DEF On
  <2>3. CASE g = w.file
    <3>1. \A b \in Actors : ~On(b, g)'
      BY <1>6, <2>1, <2>2, <2>3 DEF FileInv
    <3>2. written'[g] \ replaced'[g] \subseteq file'[g]
      <4>1. CASE w.replaces
        BY <1>5, <2>3, <4>1
      <4>2. CASE ~w.replaces
        <5>1. written[g] \ replaced[g] \subseteq w.base
          BY <1>6, <2>1, <2>3, <4>2 DEF FileInv, w
        <5> QED
          BY <1>5, <2>3, <4>2, <5>1
      <4> QED
        BY <4>1, <4>2
    <3> QED
      BY <3>1, <3>2
  <2>4. CASE g # w.file
    <3>1. \A b \in Actors : On(b, g) => b # a
      BY <2>4 DEF On, w
    <3>2. \A b \in Actors : On(b, g) => On(b, g)' /\ io'[b] = io[b]
      BY <1>4, <3>1 DEF On
    <3> QED
      BY <1>5, <2>1, <2>2, <2>4, <3>2 DEF FileInv
  <2> QED
    BY <2>3, <2>4
<1>9. FileInv'
  BY <1>8 DEF FileInv
<1>10. \A f \in Files : written[f] \subseteq written'[f]
  BY <1>5
<1> QED
  BY <1>1, <1>4, <1>5, <1>7, <1>9, <1>10 DEF OnlyIo, w

\* A write that raises leaves its file as it is, and damaged if it was truncated.
LEMMA WriteFailsKeeps ==
    ASSUME DiskTypes, FileInv, NEW a \in Actors, WriteFails(a)
    PROVE  DiskTypes' /\ FileInv' /\ OnlyIo(a) /\ io'[a] = None
<1> DEFINE w == io[a]
<1>1. /\ w # None /\ io' = [io EXCEPT ![a] = None]
      /\ damaged' = IF w.cut THEN damaged \cup {w.file} ELSE damaged
      /\ UNCHANGED <<file, made, written, replaced>>
  BY DEF WriteFails
<1>2. w \in Writing /\ w.file \in Files
  BY <1>1 DEF DiskTypes, Writing
<1>3. io'[a] = None /\ \A b \in Actors \ {a} : io'[b] = io[b]
  BY <1>1 DEF DiskTypes
<1>4. DiskTypes'
  <2>1. io' \in [Actors -> Writing \cup {None}]
    BY <1>1 DEF DiskTypes
  <2> QED
    BY <1>1, <1>2, <2>1 DEF DiskTypes
<1>5. ASSUME NEW g \in Files, g \notin damaged'
      PROVE  /\ \A b, c \in Actors : On(b, g)' /\ On(c, g)' => b = c
             /\ (\A b \in Actors : On(b, g)' => ~io'[b].cut) => written'[g] \ replaced'[g] \subseteq file'[g]
             /\ \A b \in Actors : On(b, g)' /\ ~io'[b].replaces => written'[g] \ replaced'[g] \subseteq io'[b].base
  <2>1. g \notin damaged /\ (On(a, g) => ~w.cut)
    BY <1>1, <1>5 DEF On
  <2>2. \A b \in Actors : On(b, g)' => On(b, g) /\ b # a /\ io'[b] = io[b]
    BY <1>3 DEF On
  <2>3. \A b \in Actors \ {a} : On(b, g) => On(b, g)' /\ io'[b] = io[b]
    BY <1>3 DEF On
  <2>4. ASSUME \A b \in Actors : On(b, g)' => ~io'[b].cut
        PROVE  written[g] \ replaced[g] \subseteq file[g]
    <3>1. \A b \in Actors : On(b, g) => ~io[b].cut
      BY <2>1, <2>3, <2>4
    <3> QED
      BY <2>1, <3>1 DEF FileInv
  <2> QED
    BY <1>1, <2>1, <2>2, <2>4 DEF FileInv
<1>6. FileInv'
  BY <1>5 DEF FileInv
<1> QED
  BY <1>1, <1>3, <1>4, <1>6 DEF OnlyIo

\* A truncation leaves everyone at the file and the entry they were at.
LEMMA TruncateKeeps ==
    ASSUME DiskTypes, FileInv, NEW a \in Actors, Truncate(a)
    PROVE  /\ DiskTypes' /\ FileInv' /\ written' = written
           /\ \A b \in Actors : /\ io'[b] # None <=> io[b] # None
                                /\ io[b] # None => io'[b].file = io[b].file /\ io'[b].entry = io[b].entry
<1> DEFINE w == io[a]
           v == [w EXCEPT !.cut = TRUE]
<1>1. /\ w # None /\ ~w.cut
      /\ file' = [file EXCEPT ![w.file] = {}]
      /\ made' = made \cup {w.file}
      /\ io' = [io EXCEPT ![a] = v]
      /\ UNCHANGED <<written, replaced, damaged>>
  BY DEF Truncate
<1>2. w \in Writing
  BY <1>1 DEF DiskTypes
<1>3. v \in Writing /\ v.file = w.file /\ v.entry = w.entry /\ v.cut /\ v.base = w.base
      /\ v.replaces = w.replaces /\ w.file \in Files
  BY <1>2 DEF Writing
<1>4. v # None
  BY <1>3, WritingAssumption
<1>5. io'[a] = v /\ \A b \in Actors \ {a} : io'[b] = io[b]
  BY <1>1 DEF DiskTypes
<1>6. DiskTypes'
  <2>1. io' \in [Actors -> Writing \cup {None}]
    BY <1>1, <1>3 DEF DiskTypes
  <2> QED
    BY <1>1, <1>3, <2>1 DEF DiskTypes
<1> HIDE DEF v
<1>7. \A b \in Actors : /\ io'[b] # None <=> io[b] # None
                        /\ io[b] # None => /\ io'[b].file = io[b].file /\ io'[b].entry = io[b].entry
                                           /\ io'[b].base = io[b].base /\ io'[b].replaces = io[b].replaces
  BY <1>1, <1>3, <1>4, <1>5
<1>8. ASSUME NEW g \in Files, g \notin damaged'
      PROVE  /\ \A b, c \in Actors : On(b, g)' /\ On(c, g)' => b = c
             /\ (\A b \in Actors : On(b, g)' => ~io'[b].cut) => written'[g] \ replaced'[g] \subseteq file'[g]
             /\ \A b \in Actors : On(b, g)' /\ ~io'[b].replaces => written'[g] \ replaced'[g] \subseteq io'[b].base
  <2>1. \A b \in Actors : On(b, g)' <=> On(b, g)
    BY <1>7 DEF On
  <2>2. CASE g = w.file
    <3>1. On(a, g)' /\ io'[a].cut
      BY <1>1, <1>3, <1>5, <2>1, <2>2 DEF On
    <3> QED
      BY <1>1, <1>7, <1>8, <2>1, <3>1 DEF FileInv, On
  <2>3. CASE g # w.file
    <3>1. \A b \in Actors : On(b, g) => b # a /\ io'[b] = io[b]
      BY <1>5, <2>3 DEF On
    <3>2. file'[g] = file[g]
      BY <1>1, <1>3, <2>3 DEF DiskTypes
    <3> QED
      BY <1>1, <1>8, <2>1, <3>1, <3>2 DEF FileInv
  <2> QED
    BY <2>2, <2>3
<1>9. FileInv'
  BY <1>8 DEF FileInv
<1> QED
  BY <1>1, <1>6, <1>7, <1>9

LEMMA SameDisk ==
    ASSUME DiskTypes, FileInv, UNCHANGED disk
    PROVE  DiskTypes' /\ FileInv' /\ io' = io /\ written' = written
<1>1. UNCHANGED <<io, file, made, written, replaced, damaged>>
  BY DEF disk
<1> QED
  BY <1>1 DEF DiskTypes, FileInv, On

---------------------------------------------------------------------------
(* The rest of the state *)

RestTypes ==
    /\ up \in BOOLEAN /\ starts \in Nat /\ mid \in BOOLEAN
    /\ loop \in LoopTurns \cup {None}
    /\ at \in [Turns -> {"new", "init", "run", "log", "archive", "over"}]
    /\ owner \in [Tools -> Turns \cup {None}]
    /\ queued \in [Turns -> Nat]
    /\ rows \in [Turns \cup Cycles -> Nat]
    /\ heart \in {"idle", "scan", "save", "append", "rows"}
    /\ cycle \in Cycles \cup {None}
    /\ found \in SUBSET Found

LEMMA TypesSplit == TypeOK <=> RestTypes /\ DiskTypes
BY DEF TypeOK, RestTypes, DiskTypes

LEMMA TypesJoined == RestTypes' /\ DiskTypes' => TypeOK'
BY DEF TypeOK, RestTypes, DiskTypes

\* The invariants of the turns and of the heartbeat are kept when only others write.
LEMMA OthersWrite ==
    ASSUME IInv, NEW a \in Actors, OnlyIo(a), UNCHANGED <<turns, rows, beat>>
    PROVE  /\ a \notin Turns => LoopInv' /\ ArchiveInv'
           /\ a # Heart => BeatInv'
<1>1. /\ UNCHANGED <<loop, at, owner, queued, rows, heart, cycle, found>>
      /\ \A b \in Actors \ {a} : io'[b] = io[b]
      /\ \A f \in Files : written[f] \subseteq written'[f]
      /\ Turns \subseteq Actors /\ LoopTurns \subseteq Turns /\ Heart \in Actors
      /\ "daily" \in Files /\ "MEMORY.md" \in Files
  BY DEF OnlyIo, turns, beat, Actors, Turns, Files, MemoryFiles
<1>2. ASSUME a \notin Turns PROVE LoopInv'
  BY <1>1, <1>2 DEF IInv, LoopInv
<1>3. ASSUME a \notin Turns PROVE ArchiveInv'
  BY <1>1, <1>3 DEF IInv, ArchiveInv
<1>4. ASSUME a # Heart PROVE BeatInv'
  BY <1>1, <1>4 DEF IInv, BeatInv, FileOf
<1> QED
  BY <1>2, <1>3, <1>4

\* The heartbeat is not concerned by what a turn does to its own state.
LEMMA TurnLeavesBeat ==
    ASSUME IInv, NEW t \in Turns, OnlyIo(t) \/ UNCHANGED disk, UNCHANGED beat,
           \A k \in Cycles : rows'[k] = rows[k]
    PROVE  BeatInv'
<1>1. /\ UNCHANGED <<heart, cycle, found>> /\ io'[Heart] = io[Heart]
      /\ \A f \in Files : written[f] \subseteq written'[f]
      /\ "MEMORY.md" \in Files
  BY ActorsAssumption DEF OnlyIo, beat, Actors, disk, Files, MemoryFiles
<1> QED
  BY <1>1 DEF IInv, BeatInv, FileOf

---------------------------------------------------------------------------
(* The steps *)

LEMMA TruncateStep ==
    ASSUME IInv, NEW a \in Actors, Truncate(a)
    PROVE  IInv'
<1>1. RestTypes /\ DiskTypes /\ FileInv
  BY TypesSplit DEF IInv
<1>2. /\ DiskTypes' /\ FileInv' /\ written' = written
      /\ \A b \in Actors : /\ io'[b] # None <=> io[b] # None
                           /\ io[b] # None => io'[b].file = io[b].file /\ io'[b].entry = io[b].entry
  BY <1>1, TruncateKeeps
<1>3. /\ UNCHANGED <<up, starts, mid, loop, at, owner, queued, rows, heart, cycle, found>>
      /\ Turns \subseteq Actors /\ LoopTurns \subseteq Turns /\ Heart \in Actors
  BY DEF Truncate, gateway, turns, beat, Actors, Turns
<1>4. RestTypes'
  BY <1>1, <1>3 DEF RestTypes
<1>5. LoopInv'
  BY <1>2, <1>3 DEF IInv, LoopInv
<1>6. ArchiveInv'
  BY <1>2, <1>3 DEF IInv, ArchiveInv
<1>7. BeatInv'
  BY <1>2, <1>3 DEF IInv, BeatInv, FileOf
<1> QED
  BY <1>2, <1>4, <1>5, <1>6, <1>7, TypesJoined DEF IInv

\* A turn that takes or leaves the loop keeps it from none that holds it.
LEMMA TurnMoves ==
    ASSUME IInv, NEW t \in Turns, UNCHANGED disk,
           \/ InitUser(t) \/ Run(t) \/ Yield(t) \/ GiveUp(t)
    PROVE  IInv'
<1>1. RestTypes /\ DiskTypes /\ FileInv /\ LoopTurns \subseteq Turns /\ Turns \subseteq Actors
  BY TypesSplit DEF IInv, Turns, Actors
<1>2. DiskTypes' /\ FileInv' /\ io' = io /\ written' = written
  BY <1>1, SameDisk
<1>3. UNCHANGED <<up, starts, mid, owner, queued, rows, heart, cycle, found>>
  BY DEF InitUser, Run, Yield, GiveUp, gateway, beat
<1>4. /\ loop' \in {loop, None} \/ (t \in LoopTurns /\ loop' = t)
      /\ \A u \in LoopTurns \ {t} : loop = u => loop' = u
      /\ t \in LoopTurns /\ at'[t] \in {"init", "log", "archive"} => loop' = t
      /\ \A u \in Turns \ {t} : at'[u] = at[u]
      /\ at' \in [Turns -> {"new", "init", "run", "log", "archive", "over"}]
      /\ io[t] # None => at'[t] \in {"init", "log"}
      /\ at'[t] = "log" => at[t] = "log"
      /\ at[t] \in {"archive", "over"} => at'[t] \in {"archive", "over"}
  <2>1. CASE InitUser(t)
    BY <1>1, <2>1, ActorsAssumption DEF InitUser, Takes, RestTypes, IInv, LoopInv, Turns, Actors
  <2>2. CASE Run(t)
    BY <1>1, <2>2, ActorsAssumption DEF Run, Leaves, RestTypes, IInv, LoopInv, Turns, Actors
  <2>3. CASE Yield(t)
    BY <1>1, <2>3, ActorsAssumption DEF Yield, Leaves, RestTypes, IInv, LoopInv, Turns, Actors
  <2>4. CASE GiveUp(t)
    BY <1>1, <2>4, ActorsAssumption DEF GiveUp, Leaves, RestTypes, IInv, LoopInv, Turns, Actors
  <2> QED
    BY <2>1, <2>2, <2>3, <2>4
<1>5. RestTypes'
  BY <1>1, <1>3, <1>4 DEF RestTypes
<1>6. LoopInv'
  BY <1>1, <1>2, <1>4 DEF IInv, LoopInv
<1>7. ArchiveInv'
  <2>1. ASSUME NEW u \in Turns
        PROVE  /\ at'[u] = "log" => at[u] = "log"
               /\ at[u] \in {"archive", "over"} => at'[u] \in {"archive", "over"}
    BY <1>4
  <2> QED
    BY <1>2, <1>3, <2>1 DEF IInv, ArchiveInv
<1>8. BeatInv'
  BY <1>3, TurnLeavesBeat DEF beat
<1> QED
  BY <1>2, <1>5, <1>6, <1>7, <1>8, TypesJoined DEF IInv

LEMMA CreateStep ==
    ASSUME IInv, NEW t \in Turns, CreateBegins(t) \/ CreateEnds(t)
    PROVE  IInv'
<1>1. RestTypes /\ DiskTypes /\ FileInv /\ t \in Actors /\ Default \in Entries
  BY TypesSplit DEF IInv, Actors, Entries
<1>2. DiskTypes' /\ FileInv' /\ OnlyIo(t)
  <2>1. CASE CreateBegins(t)
    <3>1. PICK f \in Files : Begin(t, f, Default, FALSE)
      BY <2>1 DEF CreateBegins, Files
    <3> QED
      BY <1>1, <3>1, BeginKeeps
  <2>2. CASE CreateEnds(t)
    BY <1>1, <2>2, FillKeeps DEF CreateEnds
  <2> QED
    BY <2>1, <2>2
<1>3. /\ UNCHANGED <<up, starts, mid, loop, at, owner, queued, rows, heart, cycle, found>>
      /\ at[t] = "init"
  BY DEF CreateBegins, CreateEnds, gateway, turns, beat
<1>4. RestTypes'
  BY <1>1, <1>3 DEF RestTypes
<1>5. LoopInv'
  BY <1>2, <1>3 DEF IInv, LoopInv, OnlyIo, Actors, Turns
<1>6. ArchiveInv'
  BY <1>2, <1>3 DEF IInv, ArchiveInv, OnlyIo, Actors, Files
<1>7. BeatInv'
  BY <1>2, <1>3, TurnLeavesBeat DEF beat
<1> QED
  BY <1>2, <1>4, <1>5, <1>6, <1>7, TypesJoined DEF IInv

LEMMA ToolStep ==
    ASSUME IInv, NEW x \in Tools, ToolEnds(x) \/ ToolFails(x) \/ \E t \in Turns : ToolBegins(x, t)
    PROVE  IInv'
<1>1. RestTypes /\ DiskTypes /\ FileInv /\ x \in Actors /\ x \in Entries /\ x \notin Turns /\ x # Heart
  BY TypesSplit, ActorsAssumption DEF IInv, Actors, Entries
<1>2. CASE ToolEnds(x) \/ ToolFails(x)
  <2>1. DiskTypes' /\ FileInv' /\ OnlyIo(x)
    BY <1>1, <1>2, FillKeeps, WriteFailsKeeps DEF ToolEnds, ToolFails
  <2>2. UNCHANGED <<turns, gateway, rows, beat>>
    BY <1>2 DEF ToolEnds, ToolFails
  <2>3. RestTypes'
    BY <1>1, <2>2 DEF RestTypes, turns, gateway, beat
  <2> QED
    BY <1>1, <2>1, <2>2, <2>3, OthersWrite, TypesJoined DEF IInv
<1>3. ASSUME NEW t \in Turns, ToolBegins(x, t) PROVE IInv'
  <2>1. PICK f \in Files, replaces \in BOOLEAN : Begin(x, f, x, replaces)
    BY <1>3, ActorsAssumption DEF ToolBegins
  <2>2. DiskTypes' /\ FileInv' /\ OnlyIo(x)
    BY <1>1, <2>1, BeginKeeps
  <2>3. /\ UNCHANGED <<up, starts, mid, at, queued, rows, heart, cycle, found>>
        /\ at[t] = "run" /\ owner' = [owner EXCEPT ![x] = t] /\ Takes(t)
    BY <1>3 DEF ToolBegins, gateway, beat
  <2>4. loop' \in LoopTurns \cup {None} /\ \A u \in LoopTurns : loop = u => loop' = u
    BY <1>1, <2>3, ActorsAssumption DEF Takes, RestTypes, Actors, Turns
  <2>5. RestTypes'
    BY <1>1, <2>3, <2>4 DEF RestTypes
  <2>6. \A u \in Turns : io'[u] = io[u]
    BY <1>1, <2>2 DEF OnlyIo, Actors
  <2>7. LoopInv'
    BY <2>3, <2>4, <2>6 DEF IInv, LoopInv
  <2>8. ArchiveInv'
    BY <2>2, <2>3, <2>6 DEF IInv, ArchiveInv, OnlyIo, Files
  <2>9. BeatInv'
    BY <1>1, <2>2, <2>3 DEF IInv, BeatInv, OnlyIo, Files, MemoryFiles, Actors, FileOf
  <2> QED
    BY <2>2, <2>5, <2>7, <2>8, <2>9, TypesJoined DEF IInv
<1> QED
  BY <1>2, <1>3

LEMMA AfterAgentStep ==
    ASSUME IInv, NEW t \in Turns, AfterAgent(t)
    PROVE  IInv'
<1>1. /\ RestTypes /\ DiskTypes /\ FileInv /\ t \in Actors /\ t \in Entries
      /\ LoopTurns \subseteq Turns /\ Turns \subseteq Actors /\ "daily" \in Files
  BY TypesSplit DEF IInv, Actors, Entries, Turns, Files
<1>2. /\ Begin(t, "daily", t, FALSE) /\ at' = [at EXCEPT ![t] = "log"] /\ at[t] = "run" /\ Takes(t)
      /\ UNCHANGED <<up, starts, mid, owner, queued, rows, heart, cycle, found>>
  BY DEF AfterAgent, gateway, beat
<1>3. /\ DiskTypes' /\ FileInv' /\ OnlyIo(t)
      /\ io'[t].file = "daily" /\ io'[t].entry = t
  BY <1>1, <1>2, BeginKeeps
<1>4. /\ loop' \in LoopTurns \cup {None} /\ \A u \in LoopTurns : loop = u => loop' = u
      /\ t \in LoopTurns => loop' = t
  BY <1>1, <1>2, ActorsAssumption DEF Takes, RestTypes, Actors, Turns
<1>5. RestTypes'
  BY <1>1, <1>2, <1>4 DEF RestTypes
<1>6. \A u \in Turns \ {t} : io'[u] = io[u] /\ at'[u] = at[u]
  BY <1>1, <1>2, <1>3 DEF OnlyIo, RestTypes
<1>7. at'[t] = "log"
  BY <1>1, <1>2 DEF RestTypes
<1>8. LoopInv'
  BY <1>1, <1>4, <1>6, <1>7 DEF IInv, LoopInv
<1>9. ArchiveInv'
  BY <1>1, <1>2, <1>3, <1>6, <1>7 DEF IInv, ArchiveInv, OnlyIo
<1>10. BeatInv'
  BY <1>2, <1>3, TurnLeavesBeat DEF beat
<1> QED
  BY <1>3, <1>5, <1>8, <1>9, <1>10, TypesJoined DEF IInv

LEMMA ArchiveStep ==
    ASSUME IInv, NEW t \in Turns, Archive(t)
    PROVE  IInv'
<1>1. /\ RestTypes /\ DiskTypes /\ FileInv /\ t \in Actors
      /\ LoopTurns \subseteq Turns /\ Turns \subseteq Actors /\ "daily" \in Files
  BY TypesSplit DEF IInv, Actors, Turns, Files
<1>2. /\ Fill(t) /\ at[t] = "log" /\ at' = [at EXCEPT ![t] = "archive"]
      /\ queued' = [queued EXCEPT ![t] = 1]
      /\ UNCHANGED <<up, starts, mid, loop, owner, rows, heart, cycle, found>>
  BY DEF Archive, gateway, beat
<1>3. /\ DiskTypes' /\ FileInv' /\ OnlyIo(t)
      /\ io[t] # None /\ io'[t] = None /\ io[t].entry \in written'[io[t].file]
  BY <1>1, <1>2, FillKeeps
<1>4. RestTypes'
  BY <1>1, <1>2 DEF RestTypes
<1>5. \A u \in Turns \ {t} : io'[u] = io[u] /\ at'[u] = at[u] /\ queued'[u] = queued[u]
  BY <1>1, <1>2, <1>3 DEF OnlyIo, RestTypes
<1>6. at'[t] = "archive" /\ queued'[t] = 1
  BY <1>1, <1>2 DEF RestTypes
<1>7. LoopInv'
  BY <1>1, <1>2, <1>3, <1>5, <1>6 DEF IInv, LoopInv
<1>8. t \in written'["daily"] /\ rows[t] = 0
  <2>1. rows[t] \in Nat /\ queued[t] \in Nat
    BY <1>1 DEF RestTypes
  <2> QED
    BY <1>2, <1>3, <2>1 DEF IInv, ArchiveInv
<1>9. ASSUME NEW u \in Turns
      PROVE  /\ at'[u] = "log" /\ io'[u] # None => io'[u].file = "daily" /\ io'[u].entry = u
             /\ queued'[u] + rows'[u] > 0 => at'[u] \in {"archive", "over"} /\ u \in written'["daily"]
             /\ queued'[u] + rows'[u] <= 1
  <2>1. CASE u = t
    BY <1>2, <1>6, <1>8, <2>1
  <2>2. CASE u # t
    BY <1>1, <1>2, <1>3, <1>5, <2>2 DEF IInv, ArchiveInv, OnlyIo
  <2> QED
    BY <2>1, <2>2
<1>10. BeatInv'
  BY <1>2, <1>3, TurnLeavesBeat DEF beat
<1> QED
  BY <1>3, <1>4, <1>7, <1>9, <1>10, TypesJoined DEF IInv, ArchiveInv

\* A turn that cannot create a file or log is over, without an archive.
LEMMA FailStep ==
    ASSUME IInv, NEW t \in Turns, CreateFails(t) \/ LogFails(t)
    PROVE  IInv'
<1>1. /\ RestTypes /\ DiskTypes /\ FileInv /\ t \in Actors
      /\ LoopTurns \subseteq Turns /\ Turns \subseteq Actors /\ "daily" \in Files
  BY TypesSplit DEF IInv, Actors, Turns, Files
<1>2. /\ WriteFails(t) /\ at[t] \in {"init", "log"} /\ at' = [at EXCEPT ![t] = "over"] /\ Leaves(t)
      /\ UNCHANGED <<up, starts, mid, owner, queued, rows, heart, cycle, found>>
  BY DEF CreateFails, LogFails, gateway, beat
<1>3. DiskTypes' /\ FileInv' /\ OnlyIo(t) /\ io'[t] = None
  BY <1>1, <1>2, WriteFailsKeeps
<1>4. loop' \in LoopTurns \cup {None} /\ \A u \in LoopTurns \ {t} : loop = u => loop' = u
  BY <1>1, <1>2 DEF Leaves, RestTypes
<1>5. RestTypes'
  BY <1>1, <1>2, <1>4 DEF RestTypes
<1>6. \A u \in Turns \ {t} : io'[u] = io[u] /\ at'[u] = at[u]
  BY <1>1, <1>2, <1>3 DEF OnlyIo, RestTypes
<1>7. at'[t] = "over"
  BY <1>1, <1>2 DEF RestTypes
<1>8. LoopInv'
  BY <1>1, <1>3, <1>4, <1>6, <1>7 DEF IInv, LoopInv
<1>9. ASSUME NEW u \in Turns
      PROVE  /\ at'[u] = "log" /\ io'[u] # None => io'[u].file = "daily" /\ io'[u].entry = u
             /\ queued'[u] + rows'[u] > 0 => at'[u] \in {"archive", "over"} /\ u \in written'["daily"]
             /\ queued'[u] + rows'[u] <= 1
  <2>1. CASE u = t
    BY <1>1, <1>2, <1>3, <1>7, <2>1 DEF IInv, ArchiveInv, OnlyIo
  <2>2. CASE u # t
    BY <1>1, <1>2, <1>3, <1>6, <2>2 DEF IInv, ArchiveInv, OnlyIo
  <2> QED
    BY <2>1, <2>2
<1>10. BeatInv'
  BY <1>2, <1>3, TurnLeavesBeat DEF beat
<1> QED
  BY <1>3, <1>5, <1>8, <1>9, <1>10, TypesJoined DEF IInv, ArchiveInv

LEMMA RunArchiveStep ==
    ASSUME IInv, NEW t \in Turns, RunArchive(t)
    PROVE  IInv'
<1>1. /\ RestTypes /\ DiskTypes /\ FileInv
      /\ LoopTurns \subseteq Turns /\ Turns = LoopTurns \cup ThreadTurns
      /\ LoopTurns \cap ThreadTurns = {} /\ Cycles \cap Turns = {}
  BY TypesSplit, ActorsAssumption DEF IInv, Turns
<1>2. /\ queued[t] > 0 /\ queued' = [queued EXCEPT ![t] = @ - 1]
      /\ (Insert(t) \/ UNCHANGED rows)
      /\ at' = IF t \in ThreadTurns THEN [at EXCEPT ![t] = "over"] ELSE at
      /\ UNCHANGED <<up, starts, mid, loop, owner, heart, cycle, found>> /\ UNCHANGED disk
  BY DEF RunArchive, gateway, beat
<1>3. DiskTypes' /\ FileInv' /\ io' = io /\ written' = written
  BY <1>1, <1>2, SameDisk
<1>4. /\ queued[t] \in Nat /\ rows[t] \in Nat /\ queued[t] = 1 /\ rows[t] = 0
      /\ at[t] \in {"archive", "over"} /\ t \in written["daily"]
  <2>1. queued[t] \in Nat /\ rows[t] \in Nat
    BY <1>1 DEF RestTypes
  <2> QED
    BY <1>2, <2>1 DEF IInv, ArchiveInv
<1>5. /\ queued' \in [Turns -> Nat] /\ queued'[t] = 0
      /\ rows' \in [Turns \cup Cycles -> Nat] /\ rows'[t] \in {0, 1}
      /\ \A e \in (Turns \cup Cycles) \ {t} : rows'[e] = rows[e]
      /\ \A u \in Turns \ {t} : queued'[u] = queued[u]
  BY <1>1, <1>2, <1>4 DEF RestTypes, Insert
<1>6. /\ at' \in [Turns -> {"new", "init", "run", "log", "archive", "over"}]
      /\ at'[t] \in {"archive", "over"} /\ (at'[t] = at[t] \/ at'[t] = "over")
      /\ \A u \in Turns \ {t} : at'[u] = at[u]
  BY <1>1, <1>2, <1>4 DEF RestTypes
<1>7. RestTypes'
  BY <1>1, <1>2, <1>5, <1>6 DEF RestTypes
<1>8. LoopInv'
  <2>1. ASSUME NEW u \in Turns, io'[u] # None PROVE at'[u] \in {"init", "log"}
    BY <1>3, <1>4, <1>6, <2>1 DEF IInv, LoopInv
  <2>2. ASSUME NEW u \in LoopTurns, at'[u] \in {"init", "log", "archive"} PROVE loop' = u
    BY <1>1, <1>2, <1>6, <2>2 DEF IInv, LoopInv
  <2> QED
    BY <2>1, <2>2 DEF LoopInv
<1>9. ASSUME NEW u \in Turns
      PROVE  /\ at'[u] = "log" /\ io'[u] # None => io'[u].file = "daily" /\ io'[u].entry = u
             /\ queued'[u] + rows'[u] > 0 => at'[u] \in {"archive", "over"} /\ u \in written'["daily"]
             /\ queued'[u] + rows'[u] <= 1
  <2>1. CASE u = t
    BY <1>3, <1>4, <1>5, <1>6, <2>1
  <2>2. CASE u # t
    BY <1>3, <1>5, <1>6, <2>2 DEF IInv, ArchiveInv
  <2> QED
    BY <2>1, <2>2
<1>10. BeatInv'
  <2>1. \A k \in Cycles : rows'[k] = rows[k]
    BY <1>1, <1>5
  <2> QED
    BY <1>2, <2>1, TurnLeavesBeat DEF beat
<1> QED
  BY <1>3, <1>7, <1>8, <1>9, <1>10, TypesJoined DEF IInv, ArchiveInv

\* The heartbeat does not touch the turns.
LEMMA BeatLeavesTurns ==
    ASSUME IInv, OnlyIo(Heart) \/ UNCHANGED disk, UNCHANGED turns,
           \A t \in Turns : rows'[t] = rows[t]
    PROVE  LoopInv' /\ ArchiveInv'
<1>1. /\ UNCHANGED <<loop, at, queued>> /\ \A t \in Turns : io'[t] = io[t]
      /\ \A f \in Files : written[f] \subseteq written'[f]
      /\ "daily" \in Files
  BY ActorsAssumption DEF OnlyIo, turns, disk, Files, Actors
<1>2. LoopInv'
  BY <1>1 DEF IInv, LoopInv, Turns
<1>3. ArchiveInv'
  BY <1>1 DEF IInv, ArchiveInv
<1> QED
  BY <1>2, <1>3

LEMMA HeartStep ==
    ASSUME IInv, (\E k \in Cycles : Wake(k)) \/ Scan \/ SaveRows \/ BeatEnds
    PROVE  IInv'
<1>1. RestTypes /\ DiskTypes /\ FileInv /\ BeatInv /\ None \notin Cycles /\ Cycles \cap Turns = {}
      /\ "MEMORY.md" \in Files
  BY TypesSplit, ActorsAssumption DEF IInv, Files, MemoryFiles
<1>2. UNCHANGED <<up, starts, mid, loop, at, owner, queued>> /\ UNCHANGED disk /\ UNCHANGED turns
  BY DEF Wake, Scan, SaveRows, BeatEnds, gateway, turns
<1>3. DiskTypes' /\ FileInv' /\ io' = io /\ written' = written
  BY <1>1, <1>2, SameDisk
<1>4. ASSUME NEW k \in Cycles, Wake(k)
      PROVE  RestTypes' /\ BeatInv' /\ rows' = rows
  <2>1. /\ heart' = "scan" /\ cycle' = k /\ UNCHANGED <<found, rows>>
        /\ k \notin written["MEMORY.md"]
    BY <1>1, <1>4 DEF Wake
  <2>2. rows[k] = 0
    BY <1>1, <2>1 DEF BeatInv, RestTypes
  <2> QED
    BY <1>1, <1>2, <1>3, <2>1, <2>2 DEF RestTypes, BeatInv
<1>5. ASSUME Scan
      PROVE  RestTypes' /\ BeatInv' /\ rows' = rows
  <2>1. PICK fs \in SUBSET Found : /\ heart = "scan" /\ found' = fs
                                   /\ heart' = IF fs = {} THEN "idle" ELSE "save"
                                   /\ UNCHANGED <<cycle, rows>>
    BY <1>5 DEF Scan
  <2> QED
    BY <1>1, <1>2, <1>3, <2>1 DEF RestTypes, BeatInv
<1>6. CASE SaveRows
  <2>1. heart = "rows" /\ heart' = "save" /\ found' = {} /\ cycle' = cycle
        /\ (Insert(cycle) \/ UNCHANGED rows) /\ cycle \in Cycles /\ rows[cycle] = 0
        /\ cycle \in written["MEMORY.md"]
    BY <1>1, <1>6 DEF SaveRows, BeatInv
  <2>2. /\ rows' \in [Turns \cup Cycles -> Nat] /\ rows'[cycle] <= 1
        /\ \A e \in (Turns \cup Cycles) \ {cycle} : rows'[e] = rows[e]
    BY <1>1, <2>1 DEF RestTypes, Insert
  <2>3. RestTypes'
    BY <1>1, <1>2, <2>1, <2>2 DEF RestTypes
  <2>4. BeatInv'
    BY <1>1, <1>3, <2>1, <2>2 DEF BeatInv
  <2>5. \A t \in Turns : rows'[t] = rows[t]
    BY <1>1, <2>1, <2>2
  <2> QED
    BY <1>2, <1>3, <2>3, <2>4, <2>5, BeatLeavesTurns, TypesJoined DEF IInv
<1>7. CASE BeatEnds
  <2>1. heart' = "idle" /\ UNCHANGED <<cycle, found, rows>>
    BY <1>7 DEF BeatEnds
  <2>2. RestTypes' /\ BeatInv'
    BY <1>1, <1>2, <1>3, <2>1 DEF RestTypes, BeatInv
  <2> QED
    BY <1>2, <1>3, <2>1, <2>2, BeatLeavesTurns, TypesJoined DEF IInv
<1> QED
  BY <1>2, <1>3, <1>4, <1>5, <1>6, <1>7, BeatLeavesTurns, TypesJoined DEF IInv

LEMMA SaveStep ==
    ASSUME IInv, SaveBegins \/ SaveEnds \/ SaveFails
    PROVE  IInv'
<1>1. /\ RestTypes /\ DiskTypes /\ FileInv /\ BeatInv /\ Heart \in Actors
      /\ Cycles \subseteq Entries /\ "MEMORY.md" \in Files
      /\ \A fs : FileOf(fs) \in Files
  BY TypesSplit DEF IInv, Actors, Entries, Files, MemoryFiles, FileOf
<1>2. UNCHANGED <<up, starts, mid, loop, at, owner, queued, rows, cycle>> /\ UNCHANGED turns
  BY DEF SaveBegins, SaveEnds, SaveFails, gateway, turns
<1>3. CASE SaveBegins
  <2>1. /\ heart = "save" /\ found # {} /\ heart' = "append" /\ found' = found
        /\ Begin(Heart, FileOf(found), cycle, FALSE) /\ cycle \in Entries
    BY <1>1, <1>3 DEF SaveBegins, BeatInv
  <2>2. /\ DiskTypes' /\ FileInv' /\ OnlyIo(Heart)
        /\ io'[Heart].file = FileOf(found) /\ io'[Heart].entry = cycle
    BY <1>1, <2>1, BeginKeeps
  <2>3. RestTypes'
    BY <1>1, <1>2, <2>1 DEF RestTypes
  <2>4. BeatInv'
    BY <1>1, <1>2, <2>1, <2>2 DEF BeatInv, OnlyIo
  <2> QED
    BY <1>2, <2>2, <2>3, <2>4, BeatLeavesTurns, TypesJoined DEF IInv
<1>4. CASE SaveEnds
  <2>1. /\ heart = "append" /\ Fill(Heart)
        /\ \/ "preferences" \in found /\ found' = found \ {"preferences"} /\ heart' = "save"
           \/ "preferences" \notin found /\ found' = found /\ heart' = "rows"
    BY <1>4 DEF SaveEnds
  <2>2. /\ DiskTypes' /\ FileInv' /\ OnlyIo(Heart)
        /\ io[Heart] # None /\ io'[Heart] = None /\ io[Heart].entry \in written'[io[Heart].file]
    BY <1>1, <2>1, FillKeeps
  <2>3. RestTypes'
    BY <1>1, <1>2, <2>1 DEF RestTypes
  <2>4. "preferences" \notin found => cycle \in written'["MEMORY.md"]
    BY <1>1, <2>1, <2>2 DEF BeatInv, FileOf
  <2>5. BeatInv'
    BY <1>1, <1>2, <2>1, <2>2, <2>4 DEF BeatInv, OnlyIo
  <2> QED
    BY <1>2, <2>2, <2>3, <2>5, BeatLeavesTurns, TypesJoined DEF IInv
<1>5. CASE SaveFails
  <2>1. WriteFails(Heart) /\ heart' = "idle" /\ found' = {}
    BY <1>5 DEF SaveFails
  <2>2. DiskTypes' /\ FileInv' /\ OnlyIo(Heart)
    BY <1>1, <2>1, WriteFailsKeeps
  <2>3. RestTypes'
    BY <1>1, <1>2, <2>1 DEF RestTypes
  <2>4. BeatInv'
    BY <1>1, <1>2, <2>1, <2>2 DEF BeatInv, OnlyIo
  <2> QED
    BY <1>2, <2>2, <2>3, <2>4, BeatLeavesTurns, TypesJoined DEF IInv
<1> QED
  BY <1>3, <1>4, <1>5

LEMMA GatewayStep ==
    ASSUME IInv, Start \/ Disconnect
    PROVE  IInv'
<1>1. RestTypes /\ DiskTypes /\ FileInv
  BY TypesSplit DEF IInv
<1>2. UNCHANGED <<loop, at, owner, queued, rows, heart, cycle, found>> /\ UNCHANGED disk
  BY DEF Start, Disconnect, turns, beat
<1>3. up' \in BOOLEAN /\ starts' \in Nat /\ mid' \in BOOLEAN
  <2>1. CASE Start
    BY <1>1, <2>1 DEF Start, RestTypes
  <2>2. CASE Disconnect
    BY <1>1, <2>2 DEF Disconnect, RestTypes
  <2> QED
    BY <2>1, <2>2
<1>4. DiskTypes' /\ FileInv' /\ io' = io /\ written' = written
  BY <1>1, <1>2, SameDisk
<1>5. RestTypes'
  BY <1>1, <1>2, <1>3 DEF RestTypes
<1>6. LoopInv' /\ ArchiveInv' /\ BeatInv'
  BY <1>2, <1>4 DEF IInv, LoopInv, ArchiveInv, BeatInv, FileOf
<1> QED
  BY <1>4, <1>5, <1>6, TypesJoined DEF IInv

\* A file that was cut is damaged; one that was only read stays as it was.
LEMMA DieStep ==
    ASSUME IInv, Die
    PROVE  IInv'
<1>1. RestTypes /\ DiskTypes /\ FileInv
  BY TypesSplit DEF IInv
<1>2. /\ up' = FALSE /\ mid' = FALSE /\ loop' = None
      /\ at' = [t \in Turns |-> IF at[t] = "new" THEN "new" ELSE "over"]
      /\ queued' = [t \in Turns |-> 0] /\ io' = [a \in Actors |-> None]
      /\ damaged' = damaged \cup {io[a].file : a \in {b \in Actors : io[b] # None /\ io[b].cut}}
      /\ heart' = "idle" /\ found' = {}
      /\ UNCHANGED <<starts, owner, rows, cycle, file, made, written, replaced>>
  BY DEF Die
<1>3. \A a \in Actors : io[a] # None => io[a].file \in Files
  BY <1>1 DEF DiskTypes, Writing
<1>4. DiskTypes'
  BY <1>1, <1>2, <1>3 DEF DiskTypes
<1>5. FileInv'
  <2>1. SUFFICES ASSUME NEW f \in Files, f \notin damaged'
                 PROVE  /\ \A a, b \in Actors : On(a, f)' /\ On(b, f)' => a = b
                        /\ written'[f] \ replaced'[f] \subseteq file'[f]
                        /\ \A a \in Actors : ~On(a, f)'
    BY DEF FileInv
  <2>2. f \notin damaged /\ \A a \in Actors : On(a, f) => ~io[a].cut
    BY <1>2, <2>1 DEF On
  <2>3. \A a \in Actors : ~On(a, f)'
    BY <1>2 DEF On
  <2> QED
    BY <1>1, <1>2, <2>2, <2>3 DEF FileInv
<1>6. RestTypes'
  BY <1>1, <1>2 DEF RestTypes
<1>7. LoopInv'
  BY <1>2 DEF LoopInv, Turns, Actors
<1>8. ArchiveInv'
  <2>1. SUFFICES ASSUME NEW t \in Turns
                 PROVE  /\ at'[t] # "log" /\ queued'[t] = 0 /\ rows'[t] = rows[t]
                        /\ rows[t] \in Nat /\ rows[t] <= 1
                        /\ rows[t] > 0 => at'[t] \in {"archive", "over"} /\ t \in written'["daily"]
    BY DEF ArchiveInv
  <2>2. rows[t] \in Nat /\ queued[t] \in Nat
    BY <1>1 DEF RestTypes
  <2> QED
    BY <1>2, <2>2 DEF IInv, ArchiveInv
<1>9. BeatInv'
  BY <1>2 DEF IInv, BeatInv
<1> QED
  BY <1>4, <1>5, <1>6, <1>7, <1>8, <1>9, TypesJoined DEF IInv

---------------------------------------------------------------------------
(* The theorems *)

LEMMA InitHolds == Init => IInv
<1> SUFFICES ASSUME Init PROVE IInv
  OBVIOUS
<1>1. TypeOK
  BY DEF Init, TypeOK
<1>2. \A a \in Actors : io[a] = None
  BY DEF Init
<1>3. FileInv
  BY <1>2 DEF Init, FileInv, On
<1>4. LoopInv
  BY <1>2 DEF Init, LoopInv, Turns, Actors
<1>5. ArchiveInv
  BY <1>2 DEF Init, ArchiveInv
<1>6. BeatInv
  BY DEF Init, BeatInv
<1> QED
  BY <1>1, <1>3, <1>4, <1>5, <1>6 DEF IInv

LEMMA NextKeeps == IInv /\ [Next]_vars => IInv'
<1> SUFFICES ASSUME IInv, [Next]_vars PROVE IInv'
  OBVIOUS
<1>1. ASSUME NEW t \in Turns, TurnStep(t) PROVE IInv'
  <2>1. CASE InitUser(t) \/ Run(t) \/ Yield(t) \/ GiveUp(t)
    BY <2>1, TurnMoves DEF InitUser, Run, Yield, GiveUp
  <2> QED
    BY <1>1, <2>1, CreateStep, AfterAgentStep, ArchiveStep, FailStep, RunArchiveStep DEF TurnStep
<1>2. ASSUME NEW x \in Tools, ToolEnds(x) \/ ToolFails(x) \/ \E t \in Turns : ToolBegins(x, t)
      PROVE  IInv'
  BY <1>2, ToolStep
<1>3. ASSUME NEW a \in Actors, Truncate(a) PROVE IInv'
  BY <1>3, TruncateStep
<1>4. CASE UNCHANGED vars
  <2>1. RestTypes /\ DiskTypes /\ FileInv
    BY TypesSplit DEF IInv
  <2>2. /\ UNCHANGED <<up, starts, mid, loop, at, owner, queued, rows, heart, cycle, found>>
        /\ UNCHANGED disk
    BY <1>4 DEF vars, gateway, turns, beat
  <2>3. DiskTypes' /\ FileInv' /\ io' = io /\ written' = written
    BY <2>1, <2>2, SameDisk
  <2>4. RestTypes'
    BY <2>1, <2>2 DEF RestTypes
  <2>5. LoopInv' /\ ArchiveInv' /\ BeatInv'
    BY <2>2, <2>3 DEF IInv, LoopInv, ArchiveInv, BeatInv, FileOf
  <2> QED
    BY <2>3, <2>4, <2>5, TypesJoined DEF IInv
<1> QED
  BY <1>1, <1>2, <1>3, <1>4, HeartStep, SaveStep, GatewayStep, DieStep DEF Next

\* Files, rows and everyone's place are well typed.
THEOREM TypeCorrect == Spec => []TypeOK
<1>1. IInv => TypeOK
  BY DEF IInv
<1> QED
  BY <1>1, InitHolds, NextKeeps, PTL DEF Spec

\* No completed entry is lost but by two writers of a file at a time, or by a crash or
\* an error while it is written, and never by two chats (long_term.py).
THEOREM LostOnlyByDamageHolds == Spec => []LostOnlyByDamage
<1>1. IInv => LostOnlyByDamage
  <2> SUFFICES ASSUME IInv, NEW f \in Files
               PROVE  /\ f \notin damaged /\ ~Busy(f, Actors) => written[f] \ replaced[f] \subseteq file[f]
                      /\ \A t, u \in LoopTurns : t # u => ~(Busy(f, {t}) /\ Busy(f, {u}))
    BY DEF LostOnlyByDamage
  <2>1. ASSUME f \notin damaged, ~Busy(f, Actors) PROVE written[f] \ replaced[f] \subseteq file[f]
    <3>1. \A a \in Actors : ~On(a, f)
      BY <2>1 DEF Busy, On
    <3> QED
      BY <2>1, <3>1 DEF IInv, FileInv
  <2>2. \A t \in LoopTurns : Busy(f, {t}) => loop = t
    BY DEF IInv, LoopInv, Busy, Turns
  <2> QED
    BY <2>1, <2>2
<1> QED
  BY <1>1, InitHolds, NextKeeps, PTL DEF Spec

\* A turn has at most one summary in the table and a beat one row of facts, and the
\* entry was in its file before (memory_archive.py, heartbeat.py).
THEOREM RowsFollowFilesHolds == Spec => []RowsFollowFiles
<1>1. IInv => RowsFollowFiles
  <2> SUFFICES ASSUME IInv PROVE RowsFollowFiles
    OBVIOUS
  <2>1. \A t \in Turns : rows[t] \in Nat /\ queued[t] \in Nat
    BY DEF IInv, TypeOK
  <2> QED
    BY <2>1 DEF IInv, ArchiveInv, BeatInv, RowsFollowFiles
<1> QED
  BY <1>1, InitHolds, NextKeeps, PTL DEF Spec
=============================================================================
