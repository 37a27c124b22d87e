---------------------------- MODULE CronService ----------------------------
(***************************************************************************)
(* The scheduler of the gateway: src/src/cron/service.py.                  *)
(*                                                                         *)
(* Jobs live in memory and in one JSON file.  A timer task sleeps until    *)
(* the earliest next run, starts every due job as a task of its own,       *)
(* waits for all of them, saves and arms the next timer.  Users (and the   *)
(* agent turns the jobs run) add, remove, enable and disable jobs and      *)
(* start them by hand meanwhile; each of these saves and re-arms, which    *)
(* cancels the timer task and, when it is waiting for jobs, those jobs.    *)
(*                                                                         *)
(* Other processes use the same file through a CronService of their own    *)
(* that is never started: the theos cron commands and theos agent.  Each   *)
(* process reads the file once and from then on writes all it has in       *)
(* memory, so it neither sees nor keeps what another one wrote since.      *)
(*                                                                         *)
(* A clock is abstracted to what the code compares: whether the next run   *)
(* of a job, the time of a one-shot and the expiry of a recurring job have *)
(* come.  Each action is the code between two awaits.                      *)
(***************************************************************************)
EXTENDS Naturals

CONSTANTS
    JobIds,    \* ids of jobs
    Others,    \* processes beside the gateway, or the gateway before start
    NoJob,     \* the store has no job of this id
    NoStore,   \* a process that has not read the file
    Torn       \* content of a store file whose write was cut by a crash

\* "once": at, deleted after its run; "at": at, disabled after its run;
\* "every": every and cron schedules.
Kinds == {"once", "at", "every"}

\* What CronJob holds that the scheduler acts on.  next is state.next_run_at_ms
\* (None, in the future, reached); ran is whether last_run_at_ms is set.
CronJob == [enabled : BOOLEAN, next : {"none", "later", "due"}, ran : BOOLEAN]

ASSUME NoJobAssumption == NoJob \notin CronJob

Store == [JobIds -> CronJob \cup {NoJob}]

ASSUME StoreAssumption == Torn \notin Store /\ NoStore \notin Store

VARIABLES
    up,        \* the gateway runs and has started the service
    schedule,  \* kind of each id ever added, "none" before
    jobs,      \* CronService._store.jobs
    file,      \* the store file
    timer,     \* _timer_task: "off", "asleep", "due" (sleep over), "running"
    execs,     \* executions of each job: "timed", "stale" (cancelled, not yet
               \* unwound), "manual"
    past,      \* one-shots whose time has come
    expired,   \* recurring jobs whose expires_at_ms has come
    closed,    \* history: ids removed, or one-shots that completed, and
               \* not enabled again since
    copies,    \* _store of the other processes
    apart      \* history: ids another process changed beside the running
               \* gateway, or a write changed unknowingly, with a store read
               \* before or in the middle of the last change

cronVars == <<up, schedule, jobs, file, timer, execs, past, expired, closed,
              copies, apart>>

OneShot(j) == schedule[j] \in {"once", "at"}
Enabled(js, j) == js[j] # NoJob /\ js[j].enabled

CronInit ==
    /\ up = FALSE
    /\ schedule = [j \in JobIds |-> "none"]
    /\ jobs = [j \in JobIds |-> NoJob]
    /\ file = [j \in JobIds |-> NoJob]
    /\ timer = "off"
    /\ execs = [j \in JobIds |-> {}]
    /\ past = {} /\ expired = {} /\ closed = {} /\ apart = {}
    /\ copies = [p \in Others |-> NoStore]

-----------------------------------------------------------------------------
\* _compute_next_run from the present.
NextRun(j) == IF OneShot(j) /\ j \in past THEN "none" ELSE "later"

\* What _arm_timer makes of the jobs js.
Armed(js) ==
    CASE \E j \in JobIds : Enabled(js, j) /\ js[j].next = "due"   -> "due"
      [] \A j \in JobIds : Enabled(js, j) => js[j].next = "none"  -> "off"
      [] OTHER                                                    -> "asleep"

\* Mutant: a tick that waits for its jobs is not told.
TimerForgotten(ex) == ex

\* _cancel_timer: the cancelled tick passes its cancellation on to the jobs
\* it gathers, which end when they get to it.
TimerCancelled(ex) ==
    [j \in JobIds |-> IF "timed" \in ex[j] THEN (ex[j] \ {"timed"}) \cup {"stale"}
                                           ELSE ex[j]]

\* _save_and_rearm with jobs js and executions ex.
SaveAndRearm(js, ex) ==
    /\ jobs' = js
    /\ file' = js
    /\ timer' = Armed(js)
    /\ execs' = TimerCancelled(ex)

\* Mutant: a one-shot that is not deleted stays enabled.
EndedStaysEnabled(js, j) ==
    IF js[j] = NoJob THEN {js}
    ELSE IF schedule[j] = "once" THEN {[js EXCEPT ![j] = NoJob]}
         ELSE {[js EXCEPT ![j].next = n, ![j].ran = TRUE] : n \in {"later", "due"}}

\* The jobs js after an execution of j: the end of _execute_job.  A recurring
\* job is rescheduled from the start of the execution.
Ended(js, j) ==
    IF js[j] = NoJob THEN {js}
    ELSE CASE schedule[j] = "once" -> {[js EXCEPT ![j] = NoJob]}
           [] schedule[j] = "at" ->
                {[js EXCEPT ![j] = [enabled |-> FALSE, next |-> "none", ran |-> TRUE]]}
           [] OTHER ->
                {[js EXCEPT ![j].next = n, ![j].ran = TRUE] : n \in {"later", "due"}}

\* A new job, and a job js[j] enabled or disabled.
NewJob == [enabled |-> TRUE, next |-> "later", ran |-> FALSE]
Switched(js, j, e) ==
    [js EXCEPT ![j].enabled = e, ![j].next = IF e THEN NextRun(j) ELSE "none"]

Close(j) == closed' = IF OneShot(j) THEN closed \cup {j} ELSE closed

-----------------------------------------------------------------------------
\* Operations of users and tools.

\* Mutant: the new job is saved with the next change only.
AddJobUnsaved(j) ==
    /\ up /\ schedule[j] = "none"
    /\ \E k \in Kinds : schedule' = [schedule EXCEPT ![j] = k]
    /\ jobs' = [jobs EXCEPT ![j] = NewJob]
    /\ timer' = Armed(jobs')
    /\ execs' = TimerCancelled(execs)
    /\ UNCHANGED <<up, file, past, expired, closed, copies, apart>>

AddJob(j) ==
    /\ up /\ schedule[j] = "none"
    /\ \E k \in Kinds : schedule' = [schedule EXCEPT ![j] = k]
    /\ SaveAndRearm([jobs EXCEPT ![j] = NewJob], execs)
    /\ UNCHANGED <<up, past, expired, closed, copies, apart>>

RemoveJob(j) ==
    /\ up /\ jobs[j] # NoJob
    /\ SaveAndRearm([jobs EXCEPT ![j] = NoJob], execs)
    /\ closed' = closed \cup {j}
    /\ apart' = apart \ {j}
    /\ UNCHANGED <<up, schedule, past, expired, copies>>

EnableJob(j, e) ==
    /\ up /\ jobs[j] # NoJob
    /\ SaveAndRearm(Switched(jobs, j, e), execs)
    /\ closed' = IF e THEN closed \ {j} ELSE closed
    /\ apart' = apart \ {j}
    /\ UNCHANGED <<up, schedule, past, expired, copies>>

\* run_job with force; it does not ask whether the job is executing.  One
\* manual execution of a job at a time is a bound of the model.
RunJob(j) ==
    /\ up /\ jobs[j] # NoJob /\ "manual" \notin execs[j]
    /\ execs' = [execs EXCEPT ![j] = @ \cup {"manual"}]
    /\ UNCHANGED <<up, schedule, jobs, file, timer, past, expired, closed, copies, apart>>

ManualEnds(j) ==
    /\ "manual" \in execs[j]
    /\ \E js \in Ended(jobs, j) : SaveAndRearm(js, [execs EXCEPT ![j] = @ \ {"manual"}])
    /\ Close(j)
    /\ UNCHANGED <<up, schedule, past, expired, copies, apart>>

-----------------------------------------------------------------------------
\* The timer task: tick and _on_timer.
SleepEnds ==
    /\ timer = "asleep"
    /\ timer' = "due"
    /\ UNCHANGED <<up, schedule, jobs, file, execs, past, expired, closed, copies, apart>>

DueJobs == {j \in JobIds : Enabled(jobs, j) /\ jobs[j].next = "due"}

\* Mutant: waiting for the jobs of an earlier tick or a manual run comes first.
FireAlone ==
    /\ timer = "due"
    /\ \A j \in JobIds : execs[j] = {}
    /\ IF DueJobs = {}
       THEN SaveAndRearm(jobs, execs)
       ELSE /\ timer' = "running"
            /\ execs' = [j \in JobIds |-> IF j \in DueJobs THEN {"timed"} ELSE {}]
            /\ UNCHANGED <<jobs, file>>
    /\ UNCHANGED <<up, schedule, past, expired, closed, copies, apart>>

Fire ==
    /\ timer = "due"
    /\ IF DueJobs = {}
       THEN SaveAndRearm(jobs, execs)
       ELSE /\ timer' = "running"
            /\ execs' = [j \in JobIds |-> IF j \in DueJobs THEN execs[j] \cup {"timed"}
                                                           ELSE execs[j]]
            /\ UNCHANGED <<jobs, file>>
    /\ UNCHANGED <<up, schedule, past, expired, closed, copies, apart>>

\* The callback returned, failed or hit _JOB_TIMEOUT_S: recorded alike.
TimedEnds(j) ==
    /\ "timed" \in execs[j]
    /\ jobs' \in Ended(jobs, j)
    /\ execs' = [execs EXCEPT ![j] = @ \ {"timed"}]
    /\ Close(j)
    /\ UNCHANGED <<up, schedule, file, timer, past, expired, copies, apart>>

\* A cancelled execution ends: by its CancelledError, which skips the rest of
\* _execute_job, or, when the turn it runs swallows that, like any other.
StaleUnwinds(j) ==
    /\ "stale" \in execs[j]
    /\ execs' = [execs EXCEPT ![j] = @ \ {"stale"}]
    /\ UNCHANGED <<up, schedule, jobs, file, timer, past, expired, closed, copies, apart>>

StaleCompletes(j) ==
    /\ "stale" \in execs[j]
    /\ jobs' \in Ended(jobs, j)
    /\ execs' = [execs EXCEPT ![j] = @ \ {"stale"}]
    /\ Close(j)
    /\ UNCHANGED <<up, schedule, file, timer, past, expired, copies, apart>>

\* Mutant: the tick saves and ends.
TickEndsUnarmed ==
    /\ timer = "running"
    /\ \A j \in JobIds : "timed" \notin execs[j]
    /\ file' = jobs
    /\ timer' = "off"
    /\ UNCHANGED <<up, schedule, jobs, execs, past, expired, closed, copies, apart>>

\* gather returned: save and arm the next timer.
TickEnds ==
    /\ timer = "running"
    /\ \A j \in JobIds : "timed" \notin execs[j]
    /\ SaveAndRearm(jobs, execs)
    /\ UNCHANGED <<up, schedule, past, expired, closed, copies, apart>>

-----------------------------------------------------------------------------
\* Time.  The next run of a job comes; or the time of a one-shot comes while
\* the service is down or the job has no next run; or a job expires.
NextRunComes(j) ==
    /\ jobs[j] # NoJob /\ jobs[j].next = "later"
    /\ jobs' = [jobs EXCEPT ![j].next = "due"]
    /\ past' = IF OneShot(j) THEN past \cup {j} ELSE past
    /\ UNCHANGED <<up, schedule, file, timer, execs, expired, closed, copies, apart>>

OneShotPasses(j) ==
    /\ OneShot(j) /\ j \notin past
    /\ jobs[j] # NoJob => jobs[j].next = "none"
    /\ past' = past \cup {j}
    /\ UNCHANGED <<up, schedule, jobs, file, timer, execs, expired, closed, copies, apart>>

Expires(j) ==
    /\ schedule[j] = "every" /\ j \notin expired
    /\ expired' = expired \cup {j}
    /\ UNCHANGED <<up, schedule, jobs, file, timer, execs, past, closed, copies, apart>>

\* The process ends: stop(), or a crash, which may cut a write of the file.
Crash ==
    /\ up
    /\ up' = FALSE
    /\ jobs' = [j \in JobIds |-> NoJob]
    /\ file' \in {file, Torn}
    /\ timer' = "off"
    /\ execs' = [j \in JobIds |-> {}]
    /\ UNCHANGED <<schedule, past, expired, closed, copies, apart>>

-----------------------------------------------------------------------------
\* Other processes: each reads the file once, changes what it has and writes
\* all of it, an add, a removal and a switch at once, a theos cron run when
\* the job has ended, which may take minutes.

\* _load_store: a file that cannot be read counts as empty, and so does one
\* that another process is just writing.
Empty == [j \in JobIds |-> NoJob]
Loaded == IF file = Torn THEN Empty ELSE file
Read(busy) == {Loaded} \cup IF busy THEN {Empty} ELSE {}
Busy(ps) == \E p \in ps : copies[p] # NoStore

OtherLoads(p) ==
    /\ copies[p] = NoStore
    /\ \E js \in Read(up \/ Busy(Others \ {p})) : copies' = [copies EXCEPT ![p] = js]
    /\ UNCHANGED <<up, schedule, jobs, file, timer, execs, past, expired, closed, apart>>

\* The ids that writing a store which still has js would change unknowingly.
Undone(js) ==
    {j \in JobIds : IF file = Torn THEN schedule[j] # "none"
                    ELSE \/ (js[j] = NoJob) # (file[j] = NoJob)
                         \/ Enabled(js, j) # Enabled(file, j)}

\* The change of p to job j is written; the write is whole, or cut by the death
\* of p or mixed with one of another process.
OtherWrites(p, j, js) ==
    /\ copies' = [copies EXCEPT ![p] = js]
    /\ file' \in {js, Torn}
    /\ apart' = apart \cup Undone(copies[p]) \cup IF up THEN {j} ELSE {}
    /\ UNCHANGED <<up, jobs, timer, execs, past, expired>>

OtherAdds(p, j) ==
    /\ copies[p] # NoStore /\ schedule[j] = "none"
    /\ \E k \in Kinds : schedule' = [schedule EXCEPT ![j] = k]
    /\ OtherWrites(p, j, [copies[p] EXCEPT ![j] = NewJob])
    /\ UNCHANGED closed

OtherRemoves(p, j) ==
    /\ copies[p] # NoStore /\ copies[p][j] # NoJob
    /\ OtherWrites(p, j, [copies[p] EXCEPT ![j] = NoJob])
    /\ closed' = closed \cup {j}
    /\ UNCHANGED schedule

OtherSwitches(p, j, e) ==
    /\ copies[p] # NoStore /\ copies[p][j] # NoJob
    /\ OtherWrites(p, j, Switched(copies[p], j, e))
    /\ closed' = IF e THEN closed \ {j} ELSE closed
    /\ UNCHANGED schedule

OtherRan(p, j) ==
    /\ copies[p] # NoStore /\ copies[p][j] # NoJob
    /\ \E js \in Ended(copies[p], j) : OtherWrites(p, j, js)
    /\ Close(j)
    /\ UNCHANGED schedule

\* A command that is done, or dies.
OtherQuits(p) ==
    /\ copies[p] # NoStore
    /\ copies' = [copies EXCEPT ![p] = NoStore]
    /\ UNCHANGED <<up, schedule, jobs, file, timer, execs, past, expired, closed, apart>>

-----------------------------------------------------------------------------
\* _recompute_next_runs of the jobs js, which drops what can never fire again.
Dropped(js, j) == \/ OneShot(j) /\ j \in past /\ ~js[j].ran
                  \/ j \in expired
Recomputed(js) ==
    [j \in JobIds |-> CASE ~Enabled(js, j) -> js[j]
                        [] Enabled(js, j) /\ Dropped(js, j) -> NoJob
                        [] OTHER -> [js[j] EXCEPT !.next = NextRun(j)]]

\* start, by a process that reads the file now or, setting up the jobs of its
\* own, has done so and has written its changes.
Starts(js) ==
    /\ ~up
    /\ up' = TRUE
    /\ SaveAndRearm(Recomputed(js), execs)
    /\ apart' = apart \cup Undone(js)
    /\ UNCHANGED <<schedule, past, expired, closed>>

StartService ==
    \/ \E js \in Read(Busy(Others)) : Starts(js) /\ UNCHANGED copies
    \/ \E p \in Others : /\ copies[p] # NoStore
                        /\ Starts(copies[p])
                        /\ copies' = [copies EXCEPT ![p] = NoStore]

-----------------------------------------------------------------------------
CronEdit(j) == AddJob(j) \/ RemoveJob(j) \/ EnableJob(j, TRUE) \/ EnableJob(j, FALSE)
               \/ RunJob(j)
CronEnd(j) == ManualEnds(j) \/ TimedEnds(j) \/ StaleUnwinds(j) \/ StaleCompletes(j)
CronClock(j) == NextRunComes(j) \/ OneShotPasses(j) \/ Expires(j)

CronOther(p, j) == \/ OtherAdds(p, j) \/ OtherRemoves(p, j) \/ OtherRan(p, j)
                   \/ OtherSwitches(p, j, TRUE) \/ OtherSwitches(p, j, FALSE)

CronNext ==
    \/ \E j \in JobIds : CronEdit(j) \/ CronEnd(j) \/ CronClock(j)
    \/ \E p \in Others, j \in JobIds : CronOther(p, j)
    \/ \E p \in Others : OtherLoads(p) \/ OtherQuits(p)
    \/ SleepEnds \/ Fire \/ TickEnds \/ Crash \/ StartService

\* The event loop runs what is ready, a sleep ends, and a callback ends (it is
\* cut at _JOB_TIMEOUT_S); nothing is assumed of users, crashes or the clock.
CronFairness ==
    /\ WF_cronVars(SleepEnds) /\ WF_cronVars(Fire) /\ WF_cronVars(TickEnds)
    /\ \A j \in JobIds : WF_cronVars(TimedEnds(j))

CronSpec == CronInit /\ [][CronNext]_cronVars /\ CronFairness

-----------------------------------------------------------------------------
\* The types of the scheduler's state; executions the timer started are those
\* the running tick gathers, and a process that is down runs nothing.
CronTypeOK ==
    /\ up \in BOOLEAN
    /\ schedule \in [JobIds -> Kinds \cup {"none"}]
    /\ jobs \in Store
    /\ file \in Store \cup {Torn}
    /\ timer \in {"off", "asleep", "due", "running"}
    /\ execs \in [JobIds -> SUBSET {"timed", "stale", "manual"}]
    /\ past \subseteq JobIds /\ expired \subseteq JobIds /\ closed \subseteq JobIds
    /\ copies \in [Others -> Store \cup {NoStore}] /\ apart \subseteq JobIds
    /\ \A j \in JobIds : "timed" \in execs[j] => timer = "running"
    /\ ~up => timer = "off" /\ \A j \in JobIds : jobs[j] = NoJob /\ execs[j] = {}

\* The scheduler never falls asleep for good: while an enabled job has a next
\* run, some timer task is there, although every edit cancels the one there
\* was, and cancelled executions still reschedule their job (_arm_timer).
TimerArmed ==
    up /\ (\E j \in JobIds : Enabled(jobs, j) /\ jobs[j].next # "none") => timer # "off"

\* A job its user removed, or a one-shot that completed, is never started by
\* the timer again, across cancelled executions, crashes before the outcome
\* was saved, and restarts (_on_timer, _recompute_next_runs).  Excepted are the
\* jobs whose last change the gateway cannot know or someone undid: another
\* process made it while the gateway ran, which never reads the file again, or
\* a process wrote over it what it had read before, or in the middle of, it.
NeverAgain ==
    [][\A j \in closed \ apart : "timed" \in execs'[j] => "timed" \in execs[j]]_cronVars

\* A restart brings back every job that was added, here or by another process,
\* and is not over, except one-shots whose time passed, jobs that expired and
\* those excepted above, all of them when the file was torn (start).
SurvivesRestart ==
    [][~up /\ up' => \A j \in JobIds :
           \/ schedule[j] = "none"
           \/ j \in closed \cup expired \cup apart'
           \/ OneShot(j) /\ j \in past
           \/ jobs'[j] # NoJob]_cronVars

\* A due job is started, unless it is removed, disabled or rescheduled or the
\* process ends first: edits that cancel the tick and its jobs, and jobs the
\* tick waits for, only delay it (_on_timer, _arm_timer).
DueStarts ==
    \A j \in JobIds :
        (up /\ j \in DueJobs) ~> ("timed" \in execs[j] \/ ~up \/ j \notin DueJobs)
=============================================================================
