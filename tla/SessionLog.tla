----------------------------- MODULE SessionLog -----------------------------
(***************************************************************************)
(* The log of one session: SessionManager's cache and JSONL file           *)
(* (session/manager.py), the turns that append to it, and the              *)
(* consolidation that archives it (memory/consolidation.py, _consolidating *)
(* and the consolidation locks of agent/loop_memory.py).                   *)
(*                                                                         *)
(* The file grows by the messages a Session object holds beyond the ones   *)
(* SessionManager counts as persisted, and is rewritten now and then.  A   *)
(* session can be evicted and loaded again while a turn still holds the    *)
(* object it was given.  A consolidation asks a model to summarise the     *)
(* first messages and moves the object's cursor past them; /new archives   *)
(* what is left and clears the log, /reboot clears it at once, and a       *)
(* command line session is archived as a whole when it exits.              *)
(***************************************************************************)
EXTENDS Naturals, Sequences, FiniteSets, SequencesExt

CONSTANTS
    Objects,       \* Session objects alive at once
    NoObject,
    Jobs,          \* background consolidations alive at once
    Locks,         \* asyncio.Lock objects of _consolidation_locks
    Nobody,
    MaxMessages,   \* bound: messages of the session
    Window,        \* memory_window: unconsolidated messages that start one
    Keep,          \* memory_window // 2
    LowWater,      \* messages that are worth archiving at exit
    Compact        \* _COMPACT_THRESHOLD, in lines

ASSUME SessionAssumption ==
    /\ NoObject \notin Objects /\ Nobody \notin Jobs \cup Locks \cup {"new"} /\ "new" \notin Jobs
    /\ Keep \in Nat \ {0} /\ Window \in Nat \ {0} /\ Compact \in Nat /\ MaxMessages \in Nat

\* A lock for each consolidation and one for /new: get_consolidation_lock makes a new
\* one whenever it has none.
ASSUME LocksAssumption ==
    IsFiniteSet(Jobs) /\ IsFiniteSet(Locks) /\ Cardinality(Jobs) < Cardinality(Locks)

VARIABLES
    up,         \* the process
    heap,       \* Session objects: messages and last_consolidated
    cached,     \* the object in SessionManager._cache
    file,       \* what the JSONL file holds, and whether a line of it is torn
    persisted,  \* _persisted_msg_count; 0 when absent
    appended,   \* _append_lines_since_compact
    turn,       \* the turn of the session, its object, and what /new archives
    jobs,       \* background consolidations
    exit,       \* drain_and_consolidate
    flag,       \* the session is in _consolidating
    dict,       \* the lock in _consolidation_locks
    holder,     \* who holds each lock
    archived,   \* history: messages in HISTORY.md
    next,       \* the next message
    forked      \* history: a message went to one of two objects in use

logVars == <<up, heap, cached, file, persisted, appended, turn, jobs, exit, flag, dict,
             holder, archived, next, forked>>

Empty == [msgs |-> <<>>, cursor |-> 0]
NoTurnYet == [at |-> "idle", obj |-> NoObject, lock |-> Nobody, old |-> {}]
NoJob == [at |-> "none", obj |-> NoObject, lock |-> Nobody, old |-> {}, target |-> 0]
NoExit == [at |-> "none", obj |-> NoObject, old |-> {}]

LogInit ==
    /\ up = TRUE
    /\ heap = [o \in Objects |-> Empty] /\ cached = NoObject
    /\ file = [msgs |-> <<>>, cursor |-> 0, torn |-> FALSE]
    /\ persisted = 0 /\ appended = 0
    /\ turn = NoTurnYet /\ jobs = [j \in Jobs |-> NoJob] /\ exit = NoExit
    /\ flag = FALSE /\ dict = Nobody /\ holder = [l \in Locks |-> Nobody]
    /\ archived = {} /\ next = 1 /\ forked = FALSE

-----------------------------------------------------------------------------
Writers == {cached, turn.obj, exit.obj} \ {NoObject}
Live == Writers \cup ({jobs[j].obj : j \in Jobs} \ {NoObject})
Unused == Objects \ Live

\* Objects nobody refers to any more are collected.
Keeps(h) == heap' = [o \in Objects |-> IF o \in Live' THEN h[o] ELSE Empty]

\* get_or_create: the cached object, or a new one loaded from the file; a
\* file that cannot be parsed makes an empty session.
Opened ==
    IF cached # NoObject
    THEN [obj |-> cached, rec |-> heap[cached], per |-> persisted, app |-> appended]
    ELSE [obj |-> CHOOSE o \in Unused : TRUE,
          rec |-> IF file.torn THEN Empty ELSE [msgs |-> file.msgs, cursor |-> file.cursor],
          per |-> IF file.torn THEN persisted ELSE Len(file.msgs),
          app |-> IF file.torn THEN appended ELSE 0]

CanOpen == up /\ (cached # NoObject \/ Unused # {})

Opens ==
    /\ cached' = Opened.obj /\ persisted' = Opened.per /\ appended' = Opened.app
    /\ Keeps([heap EXCEPT ![Opened.obj] = Opened.rec])

\* _save_to_disk replaces the file instead of appending to it.
Rewrites(total, per, app) ==
    per = 0 \/ per > total \/ app + (total - per) + 1 >= Compact

\* save: the messages beyond the persisted count and a metadata line are
\* appended, or the file is replaced.
FileAfter(rec, per, app) ==
    IF Rewrites(Len(rec.msgs), per, app)
    THEN [msgs |-> rec.msgs, cursor |-> rec.cursor, torn |-> FALSE]
    ELSE [file EXCEPT !.msgs = @ \o SubSeq(rec.msgs, per + 1, Len(rec.msgs)),
                      !.cursor = rec.cursor]

\* Mutant: an append does not advance the count.
SavesUncounted(rec, per, app) ==
    /\ file' = FileAfter(rec, per, app)
    /\ persisted' = IF Rewrites(Len(rec.msgs), per, app) THEN Len(rec.msgs) ELSE per
    /\ appended' = IF Rewrites(Len(rec.msgs), per, app) THEN 0
                   ELSE app + (Len(rec.msgs) - per) + 1

\* The count and the lines after a save.
Saves(rec, per, app) ==
    /\ file' = FileAfter(rec, per, app)
    /\ persisted' = Len(rec.msgs)
    /\ appended' = IF Rewrites(Len(rec.msgs), per, app) THEN 0
                   ELSE app + (Len(rec.msgs) - per) + 1

\* A message is appended to an object, which is saved and cached.
Grows(h) ==
    LET rec == [h.rec EXCEPT !.msgs = Append(@, next)]
    IN /\ next <= MaxMessages /\ next' = next + 1
       /\ cached' = h.obj
       /\ Saves(rec, h.per, h.app)
       /\ Keeps([heap EXCEPT ![h.obj] = rec])
       /\ forked' = (forked \/ Writers \ {h.obj} # {})

Held == [obj |-> turn.obj, rec |-> heap[turn.obj], per |-> persisted, app |-> appended]

\* clear, save and invalidate; the turn is over.
Clears ==
    /\ turn' = NoTurnYet
    /\ file' = FileAfter(Empty, persisted, appended)
    /\ persisted' = 0 /\ appended' = 0 /\ cached' = NoObject
    /\ Keeps([heap EXCEPT ![turn.obj] = Empty])

LogUnchanged == UNCHANGED <<cached, file, persisted, appended, next, forked>>

-----------------------------------------------------------------------------
\* get_consolidation_lock: the lock of the session, or a new one.  A lock lives
\* as long as a consolidation that asked for it.
FreeLocks == Locks \ ({turn.lock} \cup {jobs[j].lock : j \in Jobs})
LockOf == IF dict # Nobody THEN dict ELSE CHOOSE l \in FreeLocks : TRUE

\* The finally of a consolidation: discard_consolidating, and
\* pop_consolidation_lock, which keeps a lock somebody holds.
Finished(held) ==
    /\ holder' = held
    /\ flag' = FALSE
    /\ dict' = IF dict # Nobody /\ held[dict] # Nobody THEN dict ELSE Nobody

\* The threshold check: a background task is created, which waits for the lock.
Checks ==
    \E oversize \in BOOLEAN :
        LET r == heap[turn.obj]
            due == (Len(r.msgs) - r.cursor >= Window \/ oversize) /\ ~flag
        IN IF ~due THEN UNCHANGED <<jobs, flag, dict>>
           ELSE \E j \in Jobs :
                  /\ jobs[j] = NoJob
                  /\ jobs' = [jobs EXCEPT ![j] = [NoJob EXCEPT !.at = "waiting",
                                                  !.obj = turn.obj, !.lock = LockOf]]
                  /\ flag' = TRUE /\ dict' = LockOf

\* _init_session.
TurnBegins ==
    /\ CanOpen /\ turn.at = "idle" /\ exit.at = "none"
    /\ turn' = [NoTurnYet EXCEPT !.at = "begun", !.obj = Opened.obj]
    /\ UNCHANGED jobs /\ UNCHANGED exit
    /\ Opens
    /\ UNCHANGED <<up, file, flag, dict, holder, archived, next, forked>>

\* The request is stored and answered later.
Chat ==
    /\ turn.at = "begun"
    /\ turn' = [turn EXCEPT !.at = "inferring"]
    /\ Checks
    /\ UNCHANGED exit
    /\ Grows(Held)
    /\ UNCHANGED <<up, holder, archived>>

\* The safety scan blocks the request.
Blocked ==
    /\ turn.at = "begun"
    /\ turn' = NoTurnYet
    /\ Checks
    /\ UNCHANGED <<exit, up, holder, archived>> /\ LogUnchanged
    /\ Keeps(heap)

\* AgentLoop.run: the user's reply to a question of the turn is appended to
\* whatever object the cache returns.
Reply ==
    /\ turn.at = "inferring" /\ CanOpen
    /\ UNCHANGED <<turn, jobs, exit>>
    /\ Grows(Opened)
    /\ UNCHANGED <<up, flag, dict, holder, archived>>

\* finalize_turn: the answer is stored.
Finalize ==
    /\ turn.at = "inferring"
    /\ turn' = NoTurnYet /\ UNCHANGED <<jobs, exit>>
    /\ Grows(Held)
    /\ UNCHANGED <<up, flag, dict, holder, archived>>

\* The turn fails or is stopped before it has an answer.
TurnStops ==
    /\ turn.at \in {"begun", "inferring"}
    /\ turn' = NoTurnYet /\ UNCHANGED <<jobs, exit>>
    /\ LogUnchanged /\ UNCHANGED <<up, flag, dict, holder, archived>>
    /\ Keeps(heap)

\* /reboot.
Reboot ==
    /\ turn.at = "begun"
    /\ UNCHANGED <<jobs, exit>>
    /\ Clears
    /\ UNCHANGED <<up, flag, dict, holder, archived, next, forked>>

\* Another session's /resume of this one.
Peek ==
    /\ CanOpen /\ cached = NoObject
    /\ UNCHANGED <<turn, jobs, exit>>
    /\ Opens
    /\ UNCHANGED <<up, file, flag, dict, holder, archived, next, forked>>

\* _put_cache of another session evicts this one.
Evict ==
    /\ up /\ cached # NoObject
    /\ cached' = NoObject /\ UNCHANGED <<turn, jobs, exit>>
    /\ Saves(heap[cached], persisted, appended)
    /\ Keeps(heap)
    /\ UNCHANGED <<up, flag, dict, holder, archived, next, forked>>

-----------------------------------------------------------------------------
IdsOf(msgs) == ToSet(msgs)

\* A background consolidation gets the lock and plans: all but the last
\* messages beyond the cursor.
JobAcquires(j) ==
    LET r   == heap[jobs[j].obj]
        end == IF Len(r.msgs) > Keep THEN Len(r.msgs) - Keep ELSE 0
        old == IdsOf(SubSeq(r.msgs, r.cursor + 1, end))
    IN /\ jobs[j].at = "waiting" /\ holder[jobs[j].lock] = Nobody
       /\ IF old = {}
          THEN jobs' = [jobs EXCEPT ![j] = NoJob] /\ Finished(holder)
          ELSE /\ jobs' = [jobs EXCEPT ![j].at = "calling", ![j].old = old, ![j].target = end]
               /\ holder' = [holder EXCEPT ![jobs[j].lock] = j]
               /\ UNCHANGED <<flag, dict>>
       /\ UNCHANGED <<turn, exit, up, archived>> /\ LogUnchanged
       /\ Keeps(heap)

\* Mutant: the cursor follows the messages that arrived during the call.
JobArchivesAll(j) ==
    /\ jobs[j].at = "calling"
    /\ archived' = archived \cup jobs[j].old
    /\ jobs' = [jobs EXCEPT ![j] = NoJob]
    /\ Finished([holder EXCEPT ![jobs[j].lock] = Nobody])
    /\ UNCHANGED <<turn, exit, up>> /\ LogUnchanged
    /\ Keeps([heap EXCEPT ![jobs[j].obj].cursor = Len(heap[jobs[j].obj].msgs) - Keep])

\* _persist_consolidation_result: the summary, or the fallback, goes to
\* HISTORY.md and the cursor to where it was planned.
JobArchives(j) ==
    /\ jobs[j].at = "calling"
    /\ archived' = archived \cup jobs[j].old
    /\ jobs' = [jobs EXCEPT ![j] = NoJob]
    /\ Finished([holder EXCEPT ![jobs[j].lock] = Nobody])
    /\ UNCHANGED <<turn, exit, up>> /\ LogUnchanged
    /\ Keeps([heap EXCEPT ![jobs[j].obj].cursor = jobs[j].target])

\* Mutant: only a consolidation that succeeded gives its lock back.
JobFailsHolding(j) ==
    /\ jobs[j].at = "calling"
    /\ jobs' = [jobs EXCEPT ![j] = NoJob]
    /\ UNCHANGED <<turn, exit, up, archived, flag, dict, holder>> /\ LogUnchanged
    /\ Keeps(heap)

\* The model cannot be reached, or writing the archive failed.
JobFails(j) ==
    /\ jobs[j].at = "calling"
    /\ jobs' = [jobs EXCEPT ![j] = NoJob]
    /\ Finished([holder EXCEPT ![jobs[j].lock] = Nobody])
    /\ UNCHANGED <<turn, exit, up, archived>> /\ LogUnchanged
    /\ Keeps(heap)

\* /new marks the session and waits for its lock.
NewBegins ==
    /\ turn.at = "begun"
    /\ flag' = TRUE /\ dict' = LockOf
    /\ turn' = [turn EXCEPT !.at = "waiting", !.lock = LockOf]
    /\ UNCHANGED <<jobs, exit, up, heap, holder, archived>> /\ LogUnchanged

\* It gets the lock after the consolidations that wait already; a log without
\* messages beyond its cursor is cleared at once.
NewAcquires ==
    LET r   == heap[turn.obj]
        old == IdsOf(SubSeq(r.msgs, r.cursor + 1, Len(r.msgs)))
    IN /\ turn.at = "waiting" /\ holder[turn.lock] = Nobody
       /\ \A j \in Jobs : jobs[j].at = "waiting" => jobs[j].lock # turn.lock
       /\ UNCHANGED <<jobs, exit, up, archived, next, forked>>
       /\ IF old = {}
          THEN Finished(holder) /\ Clears
          ELSE /\ turn' = [turn EXCEPT !.at = "archiving", !.old = old]
               /\ holder' = [holder EXCEPT ![turn.lock] = "new"]
               /\ UNCHANGED <<flag, dict, heap, cached, file, persisted, appended>>

NewArchives ==
    /\ turn.at = "archiving"
    /\ archived' = archived \cup turn.old
    /\ Finished([holder EXCEPT ![turn.lock] = Nobody])
    /\ UNCHANGED <<jobs, exit>>
    /\ Clears
    /\ UNCHANGED <<up, next, forked>>

\* Mutant: the log is cleared although archiving it failed.
NewFailsClearing ==
    /\ turn.at = "archiving"
    /\ Finished([holder EXCEPT ![turn.lock] = Nobody])
    /\ UNCHANGED <<jobs, exit>>
    /\ Clears
    /\ UNCHANGED <<up, archived, next, forked>>

\* Archiving failed, or /stop cancels the command, waiting or not: the log stays.
NewFails ==
    /\ turn.at \in {"waiting", "archiving"}
    /\ Finished(IF turn.at = "archiving" THEN [holder EXCEPT ![turn.lock] = Nobody]
                                         ELSE holder)
    /\ turn' = NoTurnYet /\ UNCHANGED <<jobs, exit>>
    /\ LogUnchanged /\ UNCHANGED <<up, archived>>
    /\ Keeps(heap)

\* drain_and_consolidate, without the lock and without marking the session.  The
\* command line reads on, and leaves, when the answer is there.
DrainBegins ==
    /\ CanOpen /\ turn.at = "idle" /\ exit.at = "none" /\ ~flag
    /\ Len(Opened.rec.msgs) - Opened.rec.cursor >= LowWater
    /\ exit' = [at |-> "calling", obj |-> Opened.obj, old |-> IdsOf(Opened.rec.msgs)]
    /\ UNCHANGED <<turn, jobs>>
    /\ Opens
    /\ UNCHANGED <<up, file, flag, dict, holder, archived, next, forked>>

\* archive_all puts the cursor back to 0; a consolidation that failed is saved
\* all the same.
DrainEnds ==
    /\ exit.at = "calling"
    /\ exit' = [NoExit EXCEPT !.at = "done"]
    /\ UNCHANGED <<turn, jobs>>
    /\ cached' = exit.obj
    /\ \E done \in BOOLEAN :
         LET rec == IF done THEN [heap[exit.obj] EXCEPT !.cursor = 0] ELSE heap[exit.obj]
         IN /\ archived' = IF done THEN archived \cup exit.old ELSE archived
            /\ Saves(rec, persisted, appended)
            /\ Keeps([heap EXCEPT ![exit.obj] = rec])
    /\ UNCHANGED <<up, flag, dict, holder, next, forked>>

-----------------------------------------------------------------------------
\* What a process that dies while it appends leaves behind: nothing, half a
\* line, or a message without the metadata line after it.
Interrupted ==
    {file, [file EXCEPT !.torn = TRUE]} \cup
    (IF turn.at \in {"begun", "inferring"} /\ next <= MaxMessages /\ persisted # 0
     THEN {[file EXCEPT !.msgs = Append(@, next)]} ELSE {})

Die ==
    /\ up
    /\ up' = FALSE
    /\ file' \in Interrupted
    /\ next' = IF file'.msgs = file.msgs THEN next ELSE next + 1
    /\ forked' = (forked \/ (file'.msgs # file.msgs /\ Writers \ {turn.obj} # {}))
    /\ heap' = [o \in Objects |-> Empty] /\ cached' = NoObject
    /\ persisted' = 0 /\ appended' = 0
    /\ turn' = NoTurnYet /\ jobs' = [j \in Jobs |-> NoJob] /\ exit' = NoExit
    /\ flag' = FALSE /\ dict' = Nobody /\ holder' = [l \in Locks |-> Nobody]
    /\ UNCHANGED archived

Restart ==
    /\ ~up /\ up' = TRUE
    /\ UNCHANGED <<heap, cached, file, persisted, appended, turn, jobs, exit, flag, dict,
                   holder, archived, next, forked>>

TurnMoves == Chat \/ Blocked \/ Finalize \/ TurnStops \/ Reboot \/ NewBegins
             \/ NewAcquires \/ NewArchives \/ NewFails
JobMoves(j) == JobAcquires(j) \/ JobArchives(j) \/ JobFails(j)

LogNext ==
    \/ TurnBegins \/ TurnMoves \/ Reply \/ Peek \/ Evict
    \/ \E j \in Jobs : JobMoves(j)
    \/ DrainBegins \/ DrainEnds \/ Die \/ Restart

\* A turn and a consolidation go on while the process lives: the calls to the
\* model are answered or fail.
LogFairness == WF_logVars(TurnMoves) /\ \A j \in Jobs : WF_logVars(JobMoves(j))

LogSpec == LogInit /\ [][LogNext]_logVars /\ LogFairness

-----------------------------------------------------------------------------
\* The types; a lock is held by the consolidation that is calling the model.
SessionTypeOK ==
    /\ up \in BOOLEAN
    /\ \A o \in Objects : heap[o].msgs \in Seq(1 .. MaxMessages) /\ heap[o].cursor \in Nat
    /\ cached \in Objects \cup {NoObject}
    /\ file.msgs \in Seq(1 .. MaxMessages) /\ file.cursor \in Nat /\ file.torn \in BOOLEAN
    /\ persisted \in 0 .. MaxMessages /\ appended \in 0 .. Compact
    /\ turn.at \in {"idle", "begun", "inferring", "waiting", "archiving"}
    /\ exit.at \in {"none", "calling", "done"}
    /\ \A j \in Jobs : jobs[j].at \in {"none", "waiting", "calling"}
    /\ flag \in BOOLEAN /\ dict \in Locks \cup {Nobody}
    /\ archived \subseteq 1 .. MaxMessages /\ next \in 1 .. MaxMessages + 1
    /\ forked \in BOOLEAN
    /\ \A l \in Locks :
          /\ holder[l] \in Jobs => jobs[holder[l]].at = "calling"
          /\ holder[l] = "new" <=> turn.at = "archiving" /\ turn.lock = l

\* The file holds a beginning of what every object in use holds, in the same
\* order and without repetition, and the count of persisted messages is its
\* length, unless two objects in use diverged or a line is torn
\* (_save_to_disk, clear, get_or_create, _put_cache).
FileAgrees ==
    ~forked /\ ~file.torn =>
        \A o \in Writers : /\ IsPrefix(file.msgs, heap[o].msgs)
                           /\ persisted = Len(file.msgs)

\* A message before the cursor, in the file or in an object in use, is in the
\* archive: what the model no longer reads was summarised
\* (_consolidation_plan, _persist_consolidation_result, _load).
NeverSkipped ==
    ~forked =>
        /\ \A o \in Writers : \A i \in 1 .. Len(heap[o].msgs) :
              i <= heap[o].cursor => heap[o].msgs[i] \in archived
        /\ \A i \in 1 .. Len(file.msgs) : i <= file.cursor => file.msgs[i] \in archived

\* /new clears nothing that is not in the archive, whatever ran before it and
\* however it ends, unless the file could not be read or objects diverged
\* (the /new branch of _handle_slash_commands).
NewKeepsAll ==
    [][turn.at \in {"waiting", "archiving"} /\ up' /\ ~forked /\ ~file.torn =>
         IdsOf(file.msgs) \subseteq IdsOf(file'.msgs) \cup archived']_logVars

\* A session that is being consolidated becomes free again, and /new comes to
\* an end, whatever fails and whoever is stopped.
ConsolidationEnds ==
    /\ flag ~> ~flag
    /\ turn.at = "waiting" ~> turn.at # "waiting"
=============================================================================
