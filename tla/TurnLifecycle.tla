--------------------------- MODULE TurnLifecycle ---------------------------
(***************************************************************************)
(* One turn after another of one session: TurnLifecycle.handle_message     *)
(* with the orchestrator policy, AgentLoop._process_message, and the       *)
(* checkpoint file of the session (session/turn_store.py).                 *)
(*                                                                         *)
(* A turn is attempted until it succeeds or its task may not be retried.   *)
(* Each attempt stores the request, writes checkpoints on its way, may ask *)
(* the user a question, stores the answer and runs the hooks after it.     *)
(* The worker may be cancelled at every await, a checkpoint write may      *)
(* fail, and the process may die; at its start a process, this one or      *)
(* another on the same workspace, marks what looks unfinished interrupted. *)
(* That a session has one turn at a time is GroupDispatcher's OneWorker.   *)
(***************************************************************************)
EXTENDS Naturals, Sequences, FiniteSets

CONSTANTS
    Turns,         \* requests of the session, by turn_id
    NoTurn,
    TaskRetries,   \* max_retries of OrchestratorPolicy
    MaxAttempts,   \* _MAX_RETRY_ATTEMPTS
    MaxReplies     \* bound: messages that answer a question

ASSUME TurnsAssumption ==
    /\ NoTurn \notin Turns
    /\ TaskRetries \in Nat /\ MaxAttempts \in Nat \ {0} /\ MaxReplies \in Nat

TaskState == {"executing", "approved", "failed"}    \* between two awaits
Terminal == {"completed", "failed", "interrupted"}
Place == {"idle", "starting", "stored", "building", "inferring", "asking", "persisting",
          "publishing"}
Status == Terminal \cup {"building_context", "inferring", "waiting_user", "finalizing"}
NoRow == <<NoTurn, "completed">>

VARIABLES
    running,   \* the gateway process
    db,        \* OrchestratorPolicy._db: "closed" or "opened"
    turn,      \* the turn the worker executes
    at,        \* where it is in _process_message
    mine,      \* persisted_user: this attempt stored the request
    attempts,  \* attempts begun of each turn
    task,      \* TaskRecord.state of each turn in _tasks
    retries,   \* TaskRecord.retry_count
    active,    \* OrchestratorPolicy._active
    question,  \* turn that registered the pending question of the session
    replies,   \* messages that were taken for the answer to a question
    log,       \* Session.messages: turn and role of requests and answers
    latest,    \* the last readable row of the checkpoint file
    torn,      \* the file ends in half a row
    fate,      \* what became of each request
    blind,     \* history: turns of which a row was lost, or is no longer the last
    lost       \* history: the turn the process died in, and where in it

turnVars == <<running, db, turn, at, mine, attempts, task, retries, active, question,
              replies, log, latest, torn, fate, blind, lost>>

Told == {"answered", "failed"}
Over == Told \cup {"refused", "cancelled", "crashed"}

TurnInit ==
    /\ running = TRUE /\ db = "closed"
    /\ turn = NoTurn /\ at = "idle" /\ mine = FALSE
    /\ attempts = [t \in Turns |-> 0]
    /\ task = [t \in Turns |-> "none"] /\ retries = [t \in Turns |-> 0]
    /\ active = {} /\ question = NoTurn /\ replies = 0
    /\ log = <<>> /\ latest = NoRow /\ torn = FALSE
    /\ fate = [t \in Turns |-> "waiting"]
    /\ blind = {} /\ lost = <<NoTurn, "idle">>

-----------------------------------------------------------------------------
\* TurnStore.record: one row is appended.  A row after half a row is glued to
\* it and skipped by every reader.
Appended(t, status) ==
    IF torn THEN /\ torn' = FALSE /\ blind' = blind \cup {t} /\ UNCHANGED latest
            ELSE /\ latest' = <<t, status>> /\ UNCHANGED <<torn, blind>>

\* _record_turn_checkpoint: a write that fails is logged.
Recorded(t, status) ==
    \/ Appended(t, status)
    \/ blind' = blind \cup {t} /\ UNCHANGED <<latest, torn>>

Unrecorded == UNCHANGED <<latest, torn, blind>>

Holds(t) == \E i \in DOMAIN log : log[i] = <<t, "user">>

\* The turn is over for the worker.
Ends(t, f) ==
    /\ fate' = [fate EXCEPT ![t] = f]
    /\ turn' = NoTurn /\ at' = "idle" /\ mine' = FALSE

\* Mutant: a task that succeeded stays registered.
SucceedsRegistered(t) ==
    /\ task' = [task EXCEPT ![t] = "approved"]
    /\ UNCHANGED active
    /\ Ends(t, "answered")

\* after_success and _publish_response, unless the message tool has answered
\* already.
Succeeds(t) ==
    /\ task' = [task EXCEPT ![t] = "approved"]
    /\ active' = active \ {t}
    /\ Ends(t, "answered")

\* Mutant: the retry limit of the task is off by one.
FailsOnceMore(t) ==
    IF attempts[t] < MaxAttempts /\ t \in active /\ retries[t] <= TaskRetries
    THEN /\ retries' = [retries EXCEPT ![t] = @ + 1]
         /\ attempts' = [attempts EXCEPT ![t] = @ + 1]
         /\ at' = "starting" /\ mine' = FALSE
         /\ UNCHANGED <<turn, task, active, fate>>
    ELSE /\ task' = [task EXCEPT ![t] = "failed"]
         /\ active' = active \ {t}
         /\ Ends(t, "failed")
         /\ UNCHANGED <<retries, attempts>>

\* Mutant: nothing limits the retries.
FailsUncounted(t) ==
    /\ at' = "starting" /\ mine' = FALSE
    /\ UNCHANGED <<turn, task, active, fate, retries, attempts>>

\* An attempt failed: on_retry, or after_failure and _publish_error.
Fails(t) ==
    IF attempts[t] < MaxAttempts /\ t \in active /\ retries[t] < TaskRetries
    THEN /\ retries' = [retries EXCEPT ![t] = @ + 1]
         /\ attempts' = [attempts EXCEPT ![t] = @ + 1]
         /\ at' = "starting" /\ mine' = FALSE
         /\ UNCHANGED <<turn, task, active, fate>>
    ELSE /\ task' = [task EXCEPT ![t] = "failed"]
         /\ active' = active \ {t}
         /\ Ends(t, "failed")
         /\ UNCHANGED <<retries, attempts>>

-----------------------------------------------------------------------------
\* handle_message: before_execute opens the event database once and registers
\* a task.
Begin(t) ==
    /\ running /\ turn = NoTurn /\ fate[t] = "waiting"
    /\ turn' = t /\ at' = "starting" /\ db' = "opened"
    /\ attempts' = [attempts EXCEPT ![t] = 1]
    /\ task' = [task EXCEPT ![t] = "executing"]
    /\ active' = active \cup {t}
    /\ fate' = [fate EXCEPT ![t] = "running"]
    /\ UNCHANGED <<running, mine, retries, question, replies, log, latest, torn,
                   blind, lost>>

\* The database cannot be opened: the turn ends outside the try, unanswered.
\* _db is set, so nobody tries again.
Refused(t) ==
    /\ running /\ turn = NoTurn /\ fate[t] = "waiting" /\ db = "closed"
    /\ db' = "opened"
    /\ fate' = [fate EXCEPT ![t] = "refused"]
    /\ UNCHANGED <<running, turn, at, mine, attempts, task, retries, active,
                   question, replies, log, latest, torn, blind, lost>>

\* A slash command, or a request the safety scan blocks, is answered without
\* a trace in the log or the checkpoints.
Shortcut ==
    /\ at = "starting"
    /\ Succeeds(turn)
    /\ UNCHANGED <<running, db, attempts, retries, question, replies, log, latest,
                   torn, blind, lost>>

\* persist_user_message: the request is in the session's file before any row.
Persist ==
    /\ at = "starting"
    /\ mine' = ~Holds(turn)
    /\ log' = IF Holds(turn) THEN log ELSE Append(log, <<turn, "user">>)
    /\ at' = "stored"
    /\ UNCHANGED <<running, db, turn, attempts, task, retries, active, question,
                   replies, latest, torn, fate, blind, lost>>

\* The rows accepted and building_context.
Accept ==
    /\ at = "stored"
    /\ Recorded(turn, "building_context")
    /\ at' = "building"
    /\ UNCHANGED <<running, db, turn, mine, attempts, task, retries, active, question,
                   replies, log, fate, lost>>

Infer ==
    /\ at = "building"
    /\ Recorded(turn, "inferring")
    /\ at' = "inferring"
    /\ UNCHANGED <<running, db, turn, mine, attempts, task, retries, active,
                   question, replies, log, fate, lost>>

\* GenVerHandler.ask_user: the question is registered before the row is
\* written, and stays when the write fails; the tool then reports an error.
Ask ==
    /\ at = "inferring"
    /\ question' = turn
    /\ \/ Appended(turn, "waiting_user") /\ at' = "asking"
       \/ /\ blind' = blind \cup {turn}
          /\ UNCHANGED <<latest, torn, at>>
    /\ UNCHANGED <<running, db, turn, mine, attempts, task, retries, active,
                   replies, log, fate, lost>>

QuestionTimesOut ==
    /\ at = "asking"
    /\ question' = NoTurn /\ at' = "inferring"
    /\ UNCHANGED <<running, db, turn, mine, attempts, task, retries, active,
                   replies, log, latest, torn, fate, blind, lost>>

\* AgentLoop.run: the next message of the session is the answer, whichever
\* turn asked; its row hides those of a turn that runs meanwhile.
Reply ==
    /\ running /\ question # NoTurn /\ replies < MaxReplies
    /\ replies' = replies + 1
    /\ latest' = IF torn THEN latest ELSE <<question, "inferring">>
    /\ torn' = FALSE
    /\ blind' = blind \cup (IF torn THEN {question} ELSE {})
                     \cup (IF turn \in {question, NoTurn} THEN {} ELSE {turn})
    /\ question' = NoTurn
    /\ at' = IF at = "asking" THEN "inferring" ELSE at
    /\ UNCHANGED <<running, db, turn, mine, attempts, task, retries, active, log,
                   fate, lost>>

\* Mutant: a request that is in the log already is taken to be this attempt's.
FinalizeAssumes ==
    /\ at = "inferring"
    /\ Recorded(turn, "finalizing")
    /\ log' = log \o (IF mine THEN <<<<turn, "user">>>> ELSE <<>>)
                  \o <<<<turn, "assistant">>>>
    /\ at' = "persisting"
    /\ UNCHANGED <<running, db, turn, mine, attempts, task, retries, active,
                   question, replies, fate, lost>>

\* finalize_turn: save_turn stores the request unless this attempt did, and
\* the answer.
Finalize ==
    /\ at = "inferring"
    /\ Recorded(turn, "finalizing")
    /\ log' = log \o (IF mine THEN <<>> ELSE <<<<turn, "user">>>>)
                  \o <<<<turn, "assistant">>>>
    /\ at' = "persisting"
    /\ UNCHANGED <<running, db, turn, mine, attempts, task, retries, active,
                   question, replies, fate, lost>>

\* Mutant: the last row of a turn is finalizing.
CompleteUnrecorded ==
    /\ at = "persisting"
    /\ at' = "publishing"
    /\ Unrecorded
    /\ UNCHANGED <<running, db, turn, mine, attempts, task, retries, active,
                   question, replies, log, fate, lost>>

\* persist_structured_memory returned.
Complete ==
    /\ at = "persisting"
    /\ Recorded(turn, "completed")
    /\ at' = "publishing"
    /\ UNCHANGED <<running, db, turn, mine, attempts, task, retries, active,
                   question, replies, log, fate, lost>>

PublishAnswer ==
    /\ at = "publishing"
    /\ Succeeds(turn)
    /\ UNCHANGED <<running, db, attempts, retries, question, replies, log, latest,
                   torn, blind, lost>>

\* An exception anywhere in an attempt; before the first row it leaves none.
AttemptFails ==
    /\ \/ at \in {"starting", "stored"} /\ Unrecorded
       \/ at \in {"building", "inferring", "persisting"} /\ Recorded(turn, "failed")
    /\ Fails(turn)
    /\ UNCHANGED <<running, db, question, replies, log, lost>>

\* /stop or shutdown: the task of the turn stays as it is.
Cancel ==
    /\ \/ at = "starting" /\ Unrecorded
       \/ at \in {"building", "inferring", "asking", "persisting"}
          /\ Recorded(turn, "interrupted")
    /\ question' = IF at = "asking" THEN NoTurn ELSE question
    /\ Ends(turn, "cancelled")
    /\ UNCHANGED <<running, db, attempts, task, retries, active, replies, log,
                   lost>>

-----------------------------------------------------------------------------
\* The process dies, perhaps in the middle of a row.
Die ==
    /\ running
    /\ running' = FALSE
    /\ db' = "closed" /\ turn' = NoTurn /\ at' = "idle" /\ mine' = FALSE
    /\ task' = [t \in Turns |-> "none"] /\ retries' = [t \in Turns |-> 0]
    /\ active' = {} /\ question' = NoTurn
    /\ torn' \in {torn, TRUE}
    /\ fate' = [t \in Turns |-> IF t = turn THEN "crashed" ELSE fate[t]]
    /\ lost' = <<turn, at>>
    /\ UNCHANGED <<attempts, replies, log, latest, blind>>

\* Mutant: a turn that waits for its user is left alone.
MarkInterruptedUnlessWaiting ==
    IF latest[2] \in Terminal \cup {"waiting_user"} THEN UNCHANGED <<latest, torn, blind>>
    ELSE Appended(latest[1], "interrupted")

\* mark_interrupted_inflight, for the file of this session.
MarkInterrupted ==
    IF latest[2] \in Terminal THEN UNCHANGED <<latest, torn, blind>>
    ELSE Appended(latest[1], "interrupted")

Restart ==
    /\ ~running
    /\ running' = TRUE /\ lost' = <<NoTurn, "idle">>
    /\ MarkInterrupted
    /\ UNCHANGED <<db, turn, at, mine, attempts, task, retries, active, question,
                   replies, log, fate>>

\* Another process builds an AgentLoop on the workspace (theos cron run).
OtherProcess ==
    /\ running
    /\ MarkInterrupted
    /\ UNCHANGED <<running, db, turn, at, mine, attempts, task, retries, active,
                   question, replies, log, fate, lost>>

-----------------------------------------------------------------------------
InferenceEnds == Finalize \/ (at = "inferring" /\ AttemptFails)
TurnStep == Shortcut \/ Persist \/ Accept \/ Infer \/ Ask \/ QuestionTimesOut \/ Complete
            \/ PublishAnswer \/ InferenceEnds \/ AttemptFails

TurnNext ==
    \/ \E t \in Turns : Begin(t) \/ Refused(t)
    \/ Reply \/ TurnStep \/ Cancel \/ Die \/ Restart \/ OtherProcess

\* The worker goes on, a question times out, and inference ends however often
\* it asks (ToolLoop's LoopEnds); nothing is assumed of users and processes.
TurnFairness == WF_turnVars(TurnStep) /\ SF_turnVars(InferenceEnds)

TurnSpec == TurnInit /\ [][TurnNext]_turnVars /\ TurnFairness

-----------------------------------------------------------------------------
\* The types of a session's turns.
TurnTypeOK ==
    /\ running \in BOOLEAN /\ db \in {"closed", "opened"}
    /\ turn \in Turns \cup {NoTurn}
    /\ at \in Place
    /\ mine \in BOOLEAN
    /\ attempts \in [Turns -> 0 .. MaxAttempts]
    /\ task \in [Turns -> TaskState \cup {"none"}]
    /\ retries \in [Turns -> 0 .. TaskRetries]
    /\ active \subseteq Turns
    /\ question \in Turns \cup {NoTurn}
    /\ log \in Seq(Turns \X {"user", "assistant"})
    /\ latest \in (Turns \cup {NoTurn}) \X Status
    /\ torn \in BOOLEAN
    /\ fate \in [Turns -> {"waiting", "running"} \cup Over]
    /\ blind \subseteq Turns /\ lost \in (Turns \cup {NoTurn}) \X Place

\* What the task registry says of a turn agrees with what its user was told:
\* approved with an answer, failed with the error message, in the registry of
\* active tasks only while it is executed, or for good when it was cancelled
\* (after_success, after_failure, handle_message).
TaskTells ==
    \A t \in Turns :
        /\ task[t] = "approved" => fate[t] = "answered"
        /\ task[t] = "failed" => fate[t] = "failed"
        /\ t \in active <=> task[t] = "executing"
        /\ t \in active => t = turn \/ fate[t] = "cancelled"

\* In the log the model reads, an answer always follows its request, and a
\* request is stored at most once by each attempt (persist_user_message,
\* save_turn).
LogFollows ==
    \A t \in Turns :
        /\ \A i \in DOMAIN log :
              log[i] = <<t, "assistant">> => \E k \in 1 .. i - 1 : log[k] = <<t, "user">>
        /\ Cardinality({i \in DOMAIN log : log[i] = <<t, "user">>}) <= attempts[t]

\* No process reports a turn interrupted whose user was told its outcome,
\* unless a checkpoint of the turn was lost (mark_interrupted_inflight).
NoFalseInterruption ==
    [][latest' # latest /\ latest'[2] = "interrupted" =>
         fate[latest'[1]] \notin Told \/ latest'[1] \in blind]_turnVars

\* Between the first row of an attempt and the last one of the turn.
Recording == {"building", "inferring", "asking", "persisting"}

\* A process that starts reports the turn the last one died in interrupted when
\* that one died between the rows of an attempt, unless a checkpoint of the turn
\* was lost or the file ends in half a row.  A turn that died with its answer
\* unpublished stays completed; one that died before the first row of an
\* attempt is not known to it (mark_interrupted_inflight).
InterruptedReported ==
    [][~running /\ running' /\ lost[1] \notin blind \cup {NoTurn} /\ ~torn =>
         /\ lost[2] \in Recording => latest' = <<lost[1], "interrupted">>
         /\ lost[2] = "publishing" => latest' = <<lost[1], "completed">>]_turnVars

\* Every turn ends, whatever fails and however often it is retried.
TurnEnds == \A t \in Turns : fate[t] = "running" ~> fate[t] # "running"
=============================================================================
