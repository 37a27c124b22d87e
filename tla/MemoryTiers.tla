---------------------------- MODULE MemoryTiers ----------------------------
(***************************************************************************)
(* The immediate tier of one session's memory (memory/tiers.py): entries   *)
(* are buffered and flushed to SQLite by one background task once there    *)
(* are enough of them, and by drain_and_consolidate when a command line    *)
(* session exits.  Entries arrive while a flush waits for the database,    *)
(* and a flush that fails half-way leaves rows in the open transaction.    *)
(***************************************************************************)
EXTENDS Naturals, Sequences

CONSTANTS
    QueueSize,    \* immediate_queue_size
    MaxEntries,   \* bound: entries
    MaxTorn       \* bound: failed flushes that leave rows in the transaction

ASSUME TiersAssumption ==
    QueueSize \in Nat \ {0} /\ MaxEntries \in Nat /\ MaxTorn \in Nat

VARIABLES
    buffer,      \* _immediate_queues
    rows,        \* memory_short_term, what is committed of it
    open,        \* rows inserted in the connection's transaction, not committed
    entries,     \* entries buffered so far
    refused,     \* those whose content is not text: the NOT NULL column refuses them
    flush,       \* flush_immediate: the task in _flush_tasks, and the exit's call
    overlapped,  \* history: two flushes wrote at once
    torn         \* history: failed flushes that left rows in the transaction

tierVars == <<buffer, rows, open, entries, refused, flush, overlapped, torn>>

Flushers == {"task", "exit"}
NoFlush == [at |-> "none", batch |-> <<>>]
ReadyFlush == [at |-> "ready", batch |-> <<>>]
Writing(batch) == [at |-> "writing", batch |-> batch]

TierInit ==
    /\ buffer = <<>> /\ rows = <<>> /\ open = <<>> /\ entries = 0 /\ refused = {}
    /\ flush = [w \in Flushers |-> NoFlush] /\ overlapped = FALSE /\ torn = 0

\* buffer_entry and _schedule_flush, which creates a task unless one is active.
\* The content of an assistant's entry with tool calls may be None.
Buffer ==
    /\ entries < MaxEntries /\ flush["exit"].at = "none"
    /\ entries' = entries + 1
    /\ refused' \in {refused, refused \union {entries'}}
    /\ buffer' = Append(buffer, entries')
    /\ flush' = IF Len(buffer') >= QueueSize /\ flush["task"].at = "none"
                THEN [flush EXCEPT !["task"] = ReadyFlush] ELSE flush
    /\ UNCHANGED <<rows, open, overlapped, torn>>

\* The finally of flush_immediate: the task schedules its successor if the
\* buffer is full.
Left(w, left) ==
    IF w = "task" /\ Len(left) >= QueueSize THEN ReadyFlush ELSE NoFlush

FlushBegins(w) ==
    /\ flush[w].at = "ready"
    /\ flush' = [flush EXCEPT ![w] = IF buffer = <<>> THEN NoFlush ELSE Writing(buffer)]
    /\ overlapped' = (overlapped \/ \E v \in Flushers \ {w} : flush[v].at = "writing")
    /\ UNCHANGED <<buffer, rows, open, entries, refused, torn>>

\* How many entries of a batch executemany inserts before one that is refused,
\* or before the database fails.
Inserted(batch) ==
    {n \in 0 .. Len(batch) : \A i \in 1 .. n : batch[i] \notin refused}

\* Mutant: the buffer is emptied, with what arrived during the write.
FlushEmpties(w) ==
    /\ flush[w].at = "writing" /\ Len(flush[w].batch) \in Inserted(flush[w].batch)
    /\ rows' = rows \o open \o flush[w].batch /\ open' = <<>>
    /\ buffer' = <<>>
    /\ flush' = [flush EXCEPT ![w] = NoFlush]
    /\ UNCHANGED <<entries, refused, overlapped, torn>>

\* The batch is in the database, with the rows the transaction held: as many
\* entries leave the buffer, and what arrived in the meantime is written next.
FlushWrites(w) ==
    LET left == SubSeq(buffer, Len(flush[w].batch) + 1, Len(buffer))
    IN /\ flush[w].at = "writing" /\ Len(flush[w].batch) \in Inserted(flush[w].batch)
       /\ rows' = (rows \o open) \o flush[w].batch /\ open' = <<>>
       /\ buffer' = left
       /\ flush' = [flush EXCEPT ![w] = IF left = <<>> THEN NoFlush ELSE Writing(left)]
       /\ UNCHANGED <<entries, refused, overlapped, torn>>

\* executemany or the commit fails: the entries stay in the buffer.  Nothing is
\* rolled back (unless SQLite does it, as when the disk is full): what was
\* inserted of the batch stays in the transaction.
FlushFails(w) ==
    /\ flush[w].at = "writing"
    /\ \/ open' = <<>> /\ torn' = torn
       \/ \E n \in Inserted(flush[w].batch) :
             /\ open' = open \o SubSeq(flush[w].batch, 1, n)
             /\ torn' = IF n = 0 THEN torn ELSE torn + 1
             /\ torn' <= MaxTorn
    /\ flush' = [flush EXCEPT ![w] = Left(w, buffer)]
    /\ UNCHANGED <<buffer, rows, entries, refused, overlapped>>

\* Another write on the connection commits what a failed flush left: the flush of
\* another session, or mark_consolidated.
OtherCommits ==
    /\ open # <<>>
    /\ rows' = rows \o open /\ open' = <<>>
    /\ UNCHANGED <<buffer, entries, refused, flush, overlapped, torn>>

\* drain_and_consolidate flushes itself, whether or not the task is writing.
ExitFlush ==
    /\ flush["exit"].at = "none" /\ buffer # <<>>
    /\ flush' = [flush EXCEPT !["exit"] = ReadyFlush]
    /\ UNCHANGED <<buffer, rows, open, entries, refused, overlapped, torn>>

TierNext ==
    \/ Buffer \/ ExitFlush \/ OtherCommits
    \/ \E w \in Flushers : FlushBegins(w) \/ FlushWrites(w) \/ FlushFails(w)

-----------------------------------------------------------------------------
\* Unless the exit's flush wrote beside the task, what the buffer deletes by count
\* is what the database has: the buffer holds the latest entries, every earlier one
\* is committed, and each of them once and in order if no failed flush left rows in
\* the transaction.  A full buffer always has a task that flushes it
\* (flush_immediate, buffer_entry, _schedule_flush, Database.execute_many).
Buffered ==
    /\ ~overlapped =>
         LET first == entries - Len(buffer)
         IN /\ \A i \in 1 .. Len(buffer) : buffer[i] = first + i
            /\ \A e \in 1 .. first : \E i \in 1 .. Len(rows) : rows[i] = e
            /\ torn = 0 => rows = [i \in 1 .. first |-> i]
    /\ Len(buffer) >= QueueSize => flush["task"].at # "none"
=============================================================================
