----------------------------- MODULE CronProofs -----------------------------
(***************************************************************************)
(* Proofs about CronService, for every set of jobs.                        *)
(*                                                                         *)
(* TimerArmed rests on every enabled recurring job having a next run: only *)
(* then can an execution that ends after an edit cancelled its tick not    *)
(* give a job a next run that no timer waits for.  NeverAgain rests on     *)
(* what the file may still hold of a job that is over (ClosedFile), since  *)
(* an outcome is saved only when the whole tick ends.                      *)
(***************************************************************************)
EXTENDS CronService, TLAPS

Executions == [JobIds -> SUBSET {"timed", "stale", "manual"}]

Typed ==
    /\ up \in BOOLEAN
    /\ schedule \in [JobIds -> Kinds \cup {"none"}]
    /\ past \subseteq JobIds /\ expired \subseteq JobIds /\ closed \subseteq JobIds
    /\ apart \subseteq JobIds

\* A store holds only jobs that were added, a recurring job that is enabled
\* always has a next run, and that of a one-shot is due when its time has come.
WellKept(js) ==
    \A j \in JobIds : js[j] # NoJob =>
        /\ schedule[j] # "none"
        /\ schedule[j] = "every" /\ js[j].enabled => js[j].next # "none"
        /\ OneShot(j) /\ js[j].next = "due" => j \in past

\* Only jobs that were added are over or executed, and the timer starts a
\* one-shot when its time has come.
Began(ex) ==
    \A j \in JobIds :
        /\ schedule[j] = "none" => j \notin closed /\ ex[j] = {}
        /\ OneShot(j) /\ ("timed" \in ex[j] \/ "stale" \in ex[j]) => j \in past

\* So are the stores other processes have read.
Copied ==
    /\ copies \in [Others -> Store \cup {NoStore}]
    /\ \A p \in Others : copies[p] # NoStore => WellKept(copies[p])

\* What is left of a job that is over: nothing, or it is disabled, or it is a
\* one-shot whose time has come and which has no next run.
Over(js) ==
    \A j \in closed \ apart :
        \/ js[j] = NoJob
        \/ ~js[j].enabled
        \/ OneShot(j) /\ j \in past /\ js[j].next = "none"

\* In the file it may also wait to be dropped by the next start.
OverInFile ==
    \A j \in closed \ apart :
        file[j] = NoJob \/ ~file[j].enabled \/ (OneShot(j) /\ j \in past)

\* A job that was added and is missing is over.
Gone(j) == schedule[j] = "none" \/ j \in closed \cup expired \cup apart
           \/ (OneShot(j) /\ j \in past)
Missing(js) == \A j \in JobIds : js[j] = NoJob => Gone(j)

CronInv ==
    /\ CronTypeOK /\ TimerArmed /\ Began(execs) /\ Copied
    /\ WellKept(jobs) /\ Over(jobs) /\ (up => Missing(jobs))
    /\ file # Torn => WellKept(file) /\ OverInFile /\ Missing(file)

-----------------------------------------------------------------------------
\* What _arm_timer leaves behind.
LEMMA ArmedTimer ==
    ASSUME NEW js
    PROVE  /\ Armed(js) \in {"off", "asleep", "due"}
           /\ (\E j \in JobIds : Enabled(js, j) /\ js[j].next # "none") => Armed(js) # "off"
BY DEF Armed

\* What _save_and_rearm leaves behind.
LEMMA SavedState ==
    ASSUME NEW js \in Store, NEW ex \in Executions,
           SaveAndRearm(js, ex)
    PROVE  /\ jobs' = js /\ file' = js /\ file' # Torn
           /\ timer' \in {"off", "asleep", "due"}
           /\ (\E j \in JobIds : Enabled(js, j) /\ js[j].next # "none") => timer' # "off"
           /\ execs' \in Executions
           /\ \A j \in JobIds : /\ "timed" \notin execs'[j]
                                /\ "stale" \in execs'[j] => "timed" \in ex[j] \/ "stale" \in ex[j]
                                /\ ex[j] = {} => execs'[j] = {}
<1>1. jobs' = js /\ file' = js /\ timer' = Armed(js) /\ execs' = TimerCancelled(ex)
    BY DEF SaveAndRearm
<1>2. /\ execs' \in Executions
      /\ \A j \in JobIds : /\ "timed" \notin execs'[j]
                           /\ "stale" \in execs'[j] => "timed" \in ex[j] \/ "stale" \in ex[j]
                           /\ ex[j] = {} => execs'[j] = {}
    BY <1>1 DEF TimerCancelled, Executions
<1> QED
    BY <1>1, <1>2, ArmedTimer, StoreAssumption

\* The store after an execution of a job.
LEMMA EndedStore ==
    ASSUME NEW st \in Store, NEW j \in JobIds, NEW js \in Ended(st, j)
    PROVE  /\ js \in Store
           /\ \A k \in JobIds \ {j} : js[k] = st[k]
           /\ st[j] = NoJob => js[j] = NoJob
           /\ st[j] # NoJob /\ schedule[j] = "once" => js[j] = NoJob
           /\ st[j] # NoJob /\ schedule[j] = "at" =>
                  js[j] # NoJob /\ ~js[j].enabled /\ js[j].next = "none"
           /\ st[j] # NoJob /\ ~OneShot(j) =>
                  js[j] # NoJob /\ (js[j].enabled => st[j].enabled) /\ js[j].next # "none"
<1>1. CASE st[j] = NoJob
    BY <1>1 DEF Ended
<1>2. CASE st[j] # NoJob /\ schedule[j] = "once"
  <2>1. js = [st EXCEPT ![j] = NoJob]
    BY <1>2 DEF Ended
  <2>2. js \in Store /\ js[j] = NoJob /\ \A k \in JobIds \ {j} : js[k] = st[k]
    BY <2>1 DEF Store
  <2> QED
    BY <1>2, <2>2 DEF OneShot
<1>3. CASE st[j] # NoJob /\ schedule[j] = "at"
  <2> DEFINE r == [enabled |-> FALSE, next |-> "none", ran |-> TRUE]
  <2>1. r \in CronJob /\ r.enabled = FALSE /\ r.next = "none"
    BY DEF CronJob
  <2>2. js = [st EXCEPT ![j] = r]
    BY <1>3 DEF Ended
  <2> HIDE DEF r
  <2>3. js \in Store /\ js[j] = r /\ \A k \in JobIds \ {j} : js[k] = st[k]
    BY <2>1, <2>2 DEF Store
  <2>4. r # NoJob /\ ~r.enabled
    BY <2>1, NoJobAssumption
  <2> QED
    BY <1>3, <2>1, <2>3, <2>4 DEF OneShot
<1>4. CASE st[j] # NoJob /\ ~OneShot(j)
  <2>1. st[j] \in CronJob
    BY <1>4 DEF Store
  <2>2. PICK n \in {"later", "due"} : js = [st EXCEPT ![j].next = n, ![j].ran = TRUE]
    BY <1>4 DEF Ended, OneShot
  <2> DEFINE r == [[st[j] EXCEPT !.next = n] EXCEPT !.ran = TRUE]
  <2>3. r \in CronJob /\ r.enabled = st[j].enabled /\ r.next = n
    BY <2>1 DEF CronJob
  <2>4. js = [st EXCEPT ![j] = r]
    BY <2>2 DEF Store
  <2> HIDE DEF r
  <2>5. js \in Store /\ js[j] = r /\ \A k \in JobIds \ {j} : js[k] = st[k]
    BY <2>3, <2>4 DEF Store
  <2>6. r # NoJob /\ r.next # "none"
    BY <2>3, NoJobAssumption
  <2> QED
    BY <1>4, <2>3, <2>5, <2>6 DEF OneShot
<1> QED
    BY <1>1, <1>2, <1>3, <1>4 DEF OneShot

\* The stores of other processes stay well kept while jobs are only added and
\* time goes on.
LEMMA CopiesStay ==
    ASSUME Copied, UNCHANGED copies, past \subseteq past',
           \A j \in JobIds : schedule[j] # "none" => schedule'[j] = schedule[j]
    PROVE  Copied'
BY DEF Copied, WellKept, OneShot

\* A store and executions that are as they should be are so after a save.
LEMMA SaveKeeps ==
    ASSUME NEW js \in Store, NEW ex \in Executions, SaveAndRearm(js, ex),
           Typed', up', WellKept(js)', Began(ex)', Over(js)', Missing(js)', Copied'
    PROVE  CronInv'
<1>1. /\ jobs' = js /\ file' = js /\ file' # Torn
      /\ timer' \in {"off", "asleep", "due"}
      /\ (\E j \in JobIds : Enabled(js, j) /\ js[j].next # "none") => timer' # "off"
      /\ execs' \in Executions
      /\ \A j \in JobIds : /\ "timed" \notin execs'[j]
                           /\ "stale" \in execs'[j] => "timed" \in ex[j] \/ "stale" \in ex[j]
                           /\ ex[j] = {} => execs'[j] = {}
    BY SavedState
<1>2. CronTypeOK'
    BY <1>1 DEF CronTypeOK, Typed, Executions, Copied
<1>3. TimerArmed'
    BY <1>1 DEF TimerArmed, Enabled
<1>4. Began(execs)'
    BY <1>1 DEF Began, OneShot
<1>5. WellKept(jobs)' /\ Over(jobs)' /\ Missing(jobs)'
    BY <1>1 DEF WellKept, Over, Missing, OneShot, Gone
<1>6. WellKept(file)' /\ OverInFile' /\ Missing(file)'
    BY <1>1 DEF WellKept, Over, OverInFile, Missing, OneShot, Gone
<1> QED
    BY <1>2, <1>3, <1>4, <1>5, <1>6 DEF CronInv

\* What the operations of users and tools do.
LEMMA AddStep == ASSUME CronInv, NEW j \in JobIds, AddJob(j) PROVE CronInv'
<1> DEFINE r == NewJob
<1>a. r \in CronJob /\ r.enabled = TRUE /\ r.next = "later"
    BY DEF CronJob, NewJob
<1>1. r \in CronJob /\ r.enabled /\ r.next = "later" /\ r # NoJob
    BY <1>a, NoJobAssumption
<1> HIDE DEF r
<1>2. PICK js : js = [jobs EXCEPT ![j] = r]
    OBVIOUS
<1>3. SaveAndRearm(js, execs) /\ up' /\ UNCHANGED <<past, expired, closed, copies, apart>>
    BY <1>2 DEF AddJob, r
<1>4. PICK k \in Kinds : schedule' = [schedule EXCEPT ![j] = k]
    BY DEF AddJob
<1>5. jobs \in Store /\ execs \in Executions /\ Typed /\ schedule[j] = "none"
    BY DEF CronInv, CronTypeOK, Executions, Typed, AddJob
<1>6. js \in Store /\ js[j] = r /\ \A i \in JobIds \ {j} : js[i] = jobs[i]
    BY <1>1, <1>2, <1>5 DEF Store
<1>7. /\ Typed' /\ schedule'[j] # "none"
      /\ \A i \in JobIds \ {j} : schedule'[i] = schedule[i]
    BY <1>3, <1>4, <1>5 DEF Typed, Kinds
<1>8. j \notin closed /\ execs[j] = {}
    BY <1>5 DEF CronInv, Began
<1>9. WellKept(js)'
    BY <1>1, <1>3, <1>6, <1>7 DEF CronInv, WellKept, OneShot
<1>10. Began(execs)
    BY DEF CronInv
<1>11. PICK ex : ex = execs
    OBVIOUS
<1>12. Began(ex)'
    BY <1>3, <1>7, <1>8, <1>10, <1>11 DEF Began, OneShot
<1>13. Over(js)'
    BY <1>3, <1>5, <1>6, <1>7, <1>8 DEF CronInv, Over, OneShot, Typed
<1>14. Missing(js)'
    BY <1>1, <1>3, <1>6, <1>7 DEF CronInv, Missing, Gone, OneShot, AddJob
<1>15. Copied'
    BY <1>3, <1>5, <1>7, CopiesStay DEF CronInv
<1> QED
    BY <1>3, <1>5, <1>6, <1>7, <1>9, <1>11, <1>12, <1>13, <1>14, <1>15, SaveKeeps

LEMMA RemoveStep == ASSUME CronInv, NEW j \in JobIds, RemoveJob(j) PROVE CronInv'
<1>1. PICK js, ex : js = [jobs EXCEPT ![j] = NoJob] /\ ex = execs
    OBVIOUS
<1>2. /\ SaveAndRearm(js, ex) /\ up' /\ UNCHANGED <<schedule, past, expired, copies>>
      /\ closed' = closed \cup {j} /\ apart' = apart \ {j} /\ jobs[j] # NoJob
    BY <1>1 DEF RemoveJob
<1>3. jobs \in Store /\ ex \in Executions /\ Typed /\ Began(ex)
    BY <1>1 DEF CronInv, CronTypeOK, Executions, Typed
<1>4. js \in Store /\ js[j] = NoJob /\ \A i \in JobIds \ {j} : js[i] = jobs[i]
    BY <1>1, <1>3 DEF Store
<1>5. Typed'
    BY <1>2, <1>3 DEF Typed
<1>6. WellKept(js)'
    BY <1>2, <1>4 DEF CronInv, WellKept, OneShot
<1>7. Began(ex)'
    BY <1>2, <1>3 DEF CronInv, WellKept, Began, OneShot
<1>8. Over(js)'
    BY <1>2, <1>3, <1>4 DEF CronInv, Over, OneShot, Typed
<1>9. Missing(js)'
    BY <1>2, <1>4 DEF CronInv, Missing, Gone, OneShot, RemoveJob
<1>10. Copied'
    BY <1>2, CopiesStay DEF CronInv
<1> QED
    BY <1>2, <1>3, <1>4, <1>5, <1>6, <1>7, <1>8, <1>9, <1>10, SaveKeeps

LEMMA EnableStep ==
    ASSUME CronInv, NEW j \in JobIds, NEW e \in BOOLEAN, EnableJob(j, e) PROVE CronInv'
<1> DEFINE n == IF e THEN NextRun(j) ELSE "none"
<1> DEFINE r == [[jobs[j] EXCEPT !.enabled = e] EXCEPT !.next = n]
<1>1. jobs \in Store /\ execs \in Executions /\ Typed /\ Began(execs) /\ jobs[j] \in CronJob
    BY DEF CronInv, CronTypeOK, Executions, Typed, Store, EnableJob
<1>2. /\ n \in {"none", "later"} /\ (e /\ ~OneShot(j) => n = "later")
      /\ e /\ OneShot(j) /\ j \in past => n = "none"
    BY DEF NextRun
<1> HIDE DEF n
<1>3. r \in CronJob /\ (r.enabled <=> e) /\ r.next = n /\ r # NoJob
    BY <1>1, <1>2, NoJobAssumption DEF CronJob
<1>4. PICK js, ex : js = [jobs EXCEPT ![j].enabled = e, ![j].next = n] /\ ex = execs
    OBVIOUS
<1>5. js = [jobs EXCEPT ![j] = r]
    BY <1>1, <1>4 DEF Store
<1> HIDE DEF r
<1>6. /\ SaveAndRearm(js, ex) /\ up' /\ UNCHANGED <<schedule, past, expired, copies>>
      /\ closed' = IF e THEN closed \ {j} ELSE closed
      /\ apart' = apart \ {j}
    BY <1>4 DEF EnableJob, Switched, n
<1>7. js \in Store /\ js[j] = r /\ \A i \in JobIds \ {j} : js[i] = jobs[i]
    BY <1>1, <1>3, <1>5 DEF Store
<1>8. Typed' /\ ex \in Executions
    BY <1>1, <1>4, <1>6 DEF Typed
<1>9. schedule[j] # "none" /\ schedule[j] \in {"once", "at", "every", "none"}
    BY <1>1, NoJobAssumption DEF CronInv, WellKept, Typed, Kinds
<1>10. WellKept(js)'
    BY <1>2, <1>3, <1>6, <1>7, <1>9 DEF CronInv, WellKept, OneShot
<1>11. Began(ex)'
    BY <1>1, <1>4, <1>6 DEF Began, OneShot
<1>12. Over(js)'
    BY <1>2, <1>3, <1>6, <1>7, <1>8 DEF CronInv, Over, OneShot, Typed
<1>13. Missing(js)'
    BY <1>3, <1>6, <1>7 DEF CronInv, Missing, Gone, OneShot, EnableJob
<1>14. Copied'
    BY <1>6, CopiesStay DEF CronInv
<1> QED
    BY <1>6, <1>7, <1>8, <1>10, <1>11, <1>12, <1>13, <1>14, SaveKeeps

LEMMA RunStep == ASSUME CronInv, NEW j \in JobIds, RunJob(j) PROVE CronInv'
<1>1. /\ execs \in Executions /\ execs' = [execs EXCEPT ![j] = @ \cup {"manual"}]
      /\ up /\ jobs[j] # NoJob
      /\ UNCHANGED <<up, schedule, jobs, file, timer, past, expired, closed, copies, apart>>
    BY DEF RunJob, CronInv, CronTypeOK, Executions
<1>2. /\ execs' \in Executions
      /\ \A i \in JobIds : /\ "timed" \in execs'[i] => "timed" \in execs[i]
                           /\ "stale" \in execs'[i] => "stale" \in execs[i]
                           /\ i # j => execs'[i] = execs[i]
    BY <1>1 DEF Executions
<1>3. CronTypeOK'
    BY <1>1, <1>2 DEF CronInv, CronTypeOK, Executions
<1>4. Began(execs)'
    BY <1>1, <1>2 DEF CronInv, Began, OneShot, WellKept
<1>5. /\ TimerArmed' /\ WellKept(jobs)' /\ Over(jobs)' /\ (up => Missing(jobs))'
      /\ (file # Torn => WellKept(file) /\ OverInFile /\ Missing(file))'
    BY <1>1 DEF CronInv, TimerArmed, Enabled, WellKept, Over, OverInFile, Missing, Gone, OneShot
<1>c. Copied'
    BY <1>1, CopiesStay DEF CronInv
<1> QED
    BY <1>c, <1>3, <1>4, <1>5 DEF CronInv

\* The end of an execution keeps the jobs as they should be.
LEMMA EndedKeeps ==
    ASSUME CronInv, up, NEW j \in JobIds, NEW js \in Ended(jobs, j), Close(j),
           UNCHANGED <<up, schedule, past, expired, copies, apart>>
    PROVE  /\ js \in Store /\ Typed'
           /\ WellKept(js)' /\ Over(js)' /\ Missing(js)'
           /\ \A i \in JobIds : Enabled(js, i) /\ js[i].next # "none" =>
                  Enabled(jobs, i) /\ jobs[i].next # "none"
<1>1. /\ jobs \in Store /\ Typed
      /\ closed' = IF OneShot(j) THEN closed \cup {j} ELSE closed
    BY DEF CronInv, CronTypeOK, Typed, Close
<1>2. /\ js \in Store
      /\ \A k \in JobIds \ {j} : js[k] = jobs[k]
      /\ jobs[j] = NoJob => js[j] = NoJob
      /\ jobs[j] # NoJob /\ schedule[j] = "once" => js[j] = NoJob
      /\ jobs[j] # NoJob /\ schedule[j] = "at" =>
             js[j] # NoJob /\ ~js[j].enabled /\ js[j].next = "none"
      /\ jobs[j] # NoJob /\ ~OneShot(j) =>
             js[j] # NoJob /\ (js[j].enabled => jobs[j].enabled) /\ js[j].next # "none"
    BY <1>1, EndedStore
<1>3. Typed'
    BY <1>1 DEF Typed
<1>4. WellKept(js)'
    BY <1>2 DEF CronInv, WellKept, OneShot
<1>5. Over(js)'
    BY <1>1, <1>2, <1>3 DEF CronInv, Over, OneShot, Typed
<1>6. Missing(js)'
    BY <1>1, <1>2 DEF CronInv, Missing, Gone, OneShot
<1>7. ASSUME NEW i \in JobIds, Enabled(js, i), js[i].next # "none"
      PROVE  Enabled(jobs, i) /\ jobs[i].next # "none"
  <2>1. CASE i # j
    BY <1>2, <1>7, <2>1 DEF Enabled
  <2>2. CASE i = j
    <3>1. jobs[j] # NoJob /\ ~OneShot(j)
      BY <1>2, <1>7, <2>2 DEF Enabled, OneShot
    <3>2. schedule[j] = "every"
      BY <1>1, <3>1 DEF CronInv, WellKept, Typed, Kinds, OneShot
    <3>3. jobs[j].enabled
      BY <1>2, <1>7, <2>2, <3>1 DEF Enabled
    <3> QED
      BY <2>2, <3>1, <3>2, <3>3 DEF CronInv, WellKept, Enabled
  <2> QED
    BY <2>1, <2>2
<1> QED
    BY <1>2, <1>3, <1>4, <1>5, <1>6, <1>7

\* Only a service that is up executes jobs.
LEMMA ExecutesUp == ASSUME CronInv, NEW j \in JobIds, execs[j] # {} PROVE up
BY DEF CronInv, CronTypeOK

LEMMA ManualStep == ASSUME CronInv, NEW j \in JobIds, ManualEnds(j) PROVE CronInv'
<1>1. "manual" \in execs[j] /\ execs \in Executions
    BY DEF ManualEnds, CronInv, CronTypeOK, Executions
<1>2. up
    BY <1>1, ExecutesUp
<1>3. PICK ex : ex = [execs EXCEPT ![j] = @ \ {"manual"}]
    OBVIOUS
<1>4. PICK js \in Ended(jobs, j) : SaveAndRearm(js, ex)
    BY <1>3 DEF ManualEnds
<1>5. Close(j) /\ UNCHANGED <<up, schedule, past, expired, copies, apart>>
    BY DEF ManualEnds
<1>6. js \in Store /\ Typed' /\ WellKept(js)' /\ Over(js)' /\ Missing(js)'
    BY <1>2, <1>5, EndedKeeps
<1>7. ex \in Executions /\ \A i \in JobIds : ex[i] \subseteq execs[i]
    BY <1>1, <1>3 DEF Executions
<1>8. Began(ex)'
    BY <1>5, <1>7 DEF CronInv, Began, OneShot, Close
<1>c. Copied'
    BY <1>5, CopiesStay DEF CronInv
<1> QED
    BY <1>c, <1>2, <1>4, <1>5, <1>6, <1>7, <1>8, SaveKeeps

\* An execution the timer started ends without a save.
LEMMA TimedStep ==
    ASSUME CronInv, NEW j \in JobIds, TimedEnds(j) \/ StaleCompletes(j) PROVE CronInv'
<1>1. PICK x \in {"timed", "stale"} :
          /\ x \in execs[j] /\ execs' = [execs EXCEPT ![j] = @ \ {x}]
          /\ jobs' \in Ended(jobs, j) /\ Close(j)
          /\ UNCHANGED <<up, schedule, file, timer, past, expired, copies, apart>>
    BY DEF TimedEnds, StaleCompletes
<1>2. up /\ execs \in Executions
    BY <1>1, ExecutesUp DEF CronInv, CronTypeOK, Executions
<1>3. PICK js : js = jobs'
    OBVIOUS
<1>4. /\ js \in Store /\ Typed' /\ WellKept(js)' /\ Over(js)' /\ Missing(js)'
      /\ \A i \in JobIds : Enabled(js, i) /\ js[i].next # "none" =>
             Enabled(jobs, i) /\ jobs[i].next # "none"
    BY <1>1, <1>2, <1>3, EndedKeeps
<1>5. execs' \in Executions /\ \A i \in JobIds : execs'[i] \subseteq execs[i]
    BY <1>1, <1>2 DEF Executions
<1>6. CronTypeOK'
    BY <1>1, <1>2, <1>3, <1>4, <1>5 DEF CronInv, CronTypeOK, Typed, Executions
<1>7. TimerArmed'
    BY <1>1, <1>2, <1>3, <1>4 DEF CronInv, TimerArmed, Enabled
<1>8. Began(execs)'
    BY <1>1, <1>5 DEF CronInv, Began, OneShot, Close
<1>9. WellKept(jobs)' /\ Over(jobs)' /\ (up => Missing(jobs))'
    BY <1>3, <1>4 DEF WellKept, Over, Missing, Gone, OneShot
<1>10. OneShot(j) => j \in past
    BY <1>1 DEF CronInv, Began
<1>11. (file # Torn => WellKept(file) /\ OverInFile /\ Missing(file))'
    BY <1>1, <1>10 DEF CronInv, WellKept, OverInFile, Missing, Gone, OneShot, Close
<1>c. Copied'
    BY <1>1, CopiesStay DEF CronInv
<1> QED
    BY <1>c, <1>6, <1>7, <1>8, <1>9, <1>11 DEF CronInv

LEMMA UnwindStep == ASSUME CronInv, NEW j \in JobIds, StaleUnwinds(j) PROVE CronInv'
<1>1. /\ execs \in Executions /\ execs' = [execs EXCEPT ![j] = @ \ {"stale"}]
      /\ UNCHANGED <<up, schedule, jobs, file, timer, past, expired, closed, copies, apart>>
    BY DEF StaleUnwinds, CronInv, CronTypeOK, Executions
<1>2. execs' \in Executions /\ \A i \in JobIds : execs'[i] \subseteq execs[i]
    BY <1>1 DEF Executions
<1>3. CronTypeOK'
    BY <1>1, <1>2 DEF CronInv, CronTypeOK, Executions
<1>4. Began(execs)'
    BY <1>1, <1>2 DEF CronInv, Began, OneShot
<1>5. /\ TimerArmed' /\ WellKept(jobs)' /\ Over(jobs)' /\ (up => Missing(jobs))'
      /\ (file # Torn => WellKept(file) /\ OverInFile /\ Missing(file))'
    BY <1>1 DEF CronInv, TimerArmed, Enabled, WellKept, Over, OverInFile, Missing, Gone, OneShot
<1>c. Copied'
    BY <1>1, CopiesStay DEF CronInv
<1> QED
    BY <1>c, <1>3, <1>4, <1>5 DEF CronInv

-----------------------------------------------------------------------------
\* The timer task.
LEMMA SleepStep == ASSUME CronInv, SleepEnds PROVE CronInv'
<1>c. Copied'
    BY CopiesStay DEF CronInv, SleepEnds
<1>1. CronTypeOK' /\ TimerArmed' /\ Began(execs)'
    BY DEF CronInv, SleepEnds, CronTypeOK, TimerArmed, Enabled, Began, OneShot
<1> QED
    BY <1>1, <1>c DEF CronInv, SleepEnds, WellKept, Over, OverInFile, Missing, Gone, OneShot

\* Saving the jobs as they are.
LEMMA RearmStep ==
    ASSUME CronInv, up, SaveAndRearm(jobs, execs),
           UNCHANGED <<up, schedule, past, expired, closed, copies, apart>>
    PROVE  CronInv'
<1>1. PICK js, ex : js = jobs /\ ex = execs
    OBVIOUS
<1>2. js \in Store /\ ex \in Executions /\ SaveAndRearm(js, ex) /\ up'
    BY <1>1 DEF CronInv, CronTypeOK, Executions
<1>3. Typed'
    BY DEF CronInv, CronTypeOK, Typed
<1>4. WellKept(js)' /\ Began(ex)' /\ Over(js)' /\ Missing(js)'
    BY <1>1 DEF CronInv, WellKept, Began, Over, Missing, Gone, OneShot
<1>c. Copied'
    BY CopiesStay DEF CronInv
<1> QED
    BY <1>c, <1>2, <1>3, <1>4, SaveKeeps

LEMMA FireStep == ASSUME CronInv, Fire PROVE CronInv'
<1>1. up /\ UNCHANGED <<up, schedule, past, expired, closed, copies, apart>>
    BY DEF Fire, CronInv, CronTypeOK
<1>2. CASE DueJobs = {}
    BY <1>1, <1>2, RearmStep DEF Fire
<1>3. CASE DueJobs # {}
  <2>1. /\ timer' = "running" /\ UNCHANGED <<jobs, file>>
        /\ execs' = [j \in JobIds |-> IF j \in DueJobs THEN execs[j] \cup {"timed"}
                                                       ELSE execs[j]]
    BY <1>3 DEF Fire
  <2>2. /\ execs' \in Executions
        /\ \A i \in JobIds : /\ i \in DueJobs => execs'[i] = execs[i] \cup {"timed"}
                             /\ i \notin DueJobs => execs'[i] = execs[i]
    BY <2>1 DEF CronInv, CronTypeOK, Executions
  <2>3. CronTypeOK'
    BY <1>1, <2>1, <2>2 DEF CronInv, CronTypeOK, Executions
  <2>4. \A i \in DueJobs : jobs[i] # NoJob /\ jobs[i].next = "due"
    BY DEF DueJobs, Enabled
  <2>5. Began(execs)'
    BY <1>1, <2>2, <2>4 DEF CronInv, Began, OneShot, WellKept
  <2>6. TimerArmed'
    BY <2>1 DEF TimerArmed
  <2>7. WellKept(jobs)' /\ Over(jobs)' /\ (up => Missing(jobs))'
        /\ (file # Torn => WellKept(file) /\ OverInFile /\ Missing(file))'
    BY <1>1, <2>1 DEF CronInv, WellKept, Over, OverInFile, Missing, Gone, OneShot
  <2>c. Copied'
      BY <1>1, <2>1, CopiesStay DEF CronInv, Fire
  <2> QED
    BY <2>c, <2>3, <2>5, <2>6, <2>7 DEF CronInv
<1> QED
    BY <1>2, <1>3

LEMMA TickStep == ASSUME CronInv, TickEnds PROVE CronInv'
<1>1. up
    BY DEF TickEnds, CronInv, CronTypeOK
<1> QED
    BY <1>1, RearmStep DEF TickEnds

-----------------------------------------------------------------------------
\* Time, and the end and the start of the process.
LEMMA DueStep == ASSUME CronInv, NEW j \in JobIds, NextRunComes(j) PROVE CronInv'
<1> DEFINE r == [jobs[j] EXCEPT !.next = "due"]
<1>1. jobs \in Store /\ jobs[j] # NoJob /\ jobs[j].next = "later" /\ jobs[j] \in CronJob
    BY DEF NextRunComes, CronInv, CronTypeOK, Store
<1>2. r \in CronJob /\ (r.enabled <=> jobs[j].enabled) /\ r.next = "due"
    BY <1>1 DEF CronJob
<1>3. r # NoJob
    BY <1>2, NoJobAssumption
<1>4. jobs' = [jobs EXCEPT ![j] = r]
    BY <1>1 DEF NextRunComes, Store
<1> HIDE DEF r
<1>5. jobs' \in Store /\ jobs'[j] = r /\ \A i \in JobIds \ {j} : jobs'[i] = jobs[i]
    BY <1>1, <1>2, <1>4 DEF Store
<1>6. /\ past' = IF OneShot(j) THEN past \cup {j} ELSE past
      /\ UNCHANGED <<up, schedule, file, timer, execs, expired, closed, copies, apart>>
    BY DEF NextRunComes
<1>7. up
    BY <1>1 DEF CronInv, CronTypeOK
<1>8. CronTypeOK'
    BY <1>5, <1>6, <1>7 DEF CronInv, CronTypeOK
<1>9. TimerArmed'
    BY <1>1, <1>2, <1>5, <1>6, <1>7 DEF CronInv, TimerArmed, Enabled
<1>10. Began(execs)'
    BY <1>6 DEF CronInv, Began, OneShot
<1>11. WellKept(jobs)' /\ (up => Missing(jobs))'
    BY <1>1, <1>2, <1>3, <1>5, <1>6, <1>7 DEF CronInv, WellKept, Missing, Gone, OneShot
<1>12. Over(jobs)'
    BY <1>1, <1>2, <1>3, <1>5, <1>6 DEF CronInv, Over, OneShot, CronTypeOK
<1>13. (file # Torn => WellKept(file) /\ OverInFile /\ Missing(file))'
    BY <1>6 DEF CronInv, WellKept, OverInFile, Missing, Gone, OneShot
<1>c. Copied'
    BY <1>6, CopiesStay DEF CronInv
<1> QED
    BY <1>c, <1>8, <1>9, <1>10, <1>11, <1>12, <1>13 DEF CronInv

LEMMA ClockStep ==
    ASSUME CronInv, NEW j \in JobIds, OneShotPasses(j) \/ Expires(j) PROVE CronInv'
<1>1. /\ past \subseteq past' /\ past' \subseteq JobIds
      /\ expired \subseteq expired' /\ expired' \subseteq JobIds
      /\ UNCHANGED <<up, schedule, jobs, file, timer, execs, closed, copies, apart>>
    BY DEF OneShotPasses, Expires, CronInv, CronTypeOK
<1>2. CronTypeOK' /\ TimerArmed'
    BY <1>1 DEF CronInv, CronTypeOK, TimerArmed, Enabled
<1>3. Began(execs)' /\ WellKept(jobs)' /\ Over(jobs)' /\ (up => Missing(jobs))'
    BY <1>1 DEF CronInv, Began, WellKept, Over, Missing, Gone, OneShot
<1>4. (file # Torn => WellKept(file) /\ OverInFile /\ Missing(file))'
    BY <1>1 DEF CronInv, WellKept, OverInFile, Missing, Gone, OneShot
<1>c. Copied'
    BY <1>1, CopiesStay DEF CronInv
<1> QED
    BY <1>c, <1>2, <1>3, <1>4 DEF CronInv

LEMMA CrashStep == ASSUME CronInv, Crash PROVE CronInv'
<1>1. /\ up' = FALSE /\ timer' = "off" /\ file' \in {file, Torn}
      /\ jobs' \in Store /\ \A j \in JobIds : jobs'[j] = NoJob
      /\ execs' \in Executions /\ \A j \in JobIds : execs'[j] = {}
      /\ UNCHANGED <<schedule, past, expired, closed, copies, apart>>
    BY DEF Crash, Store, Executions
<1>2. CronTypeOK' /\ TimerArmed'
    BY <1>1 DEF CronInv, CronTypeOK, TimerArmed, Executions
<1>3. Began(execs)' /\ WellKept(jobs)' /\ Over(jobs)'
    BY <1>1 DEF CronInv, CronTypeOK, Began, WellKept, Over, OneShot
<1>4. (file # Torn => WellKept(file) /\ OverInFile /\ Missing(file))'
    BY <1>1 DEF CronInv, WellKept, OverInFile, Missing, Gone, OneShot
<1>c. Copied'
    BY <1>1, CopiesStay DEF CronInv
<1> QED
    BY <1>c, <1>1, <1>2, <1>3, <1>4 DEF CronInv

\* The file that cannot be read, or is being written, counts as empty.
LEMMA ReadStore ==
    ASSUME CronInv, NEW b, NEW js \in Read(b)
    PROVE  js \in Store /\ WellKept(js)
<1>1. Empty \in Store /\ WellKept(Empty)
    BY DEF Empty, Store, WellKept
<1>2. Loaded \in Store /\ WellKept(Loaded)
    BY <1>1 DEF Loaded, CronInv, CronTypeOK
<1> QED
    BY <1>1, <1>2 DEF Read

\* What a store read before leaves undone it marks: for the other jobs it
\* agrees with the file.
LEMMA UndoneMarks ==
    ASSUME CronInv, NEW js \in Store, NEW j \in JobIds, j \notin Undone(js)
    PROVE  /\ js[j] = NoJob => Gone(j)
           /\ j \in closed \ apart =>
                  js[j] = NoJob \/ ~js[j].enabled \/ (OneShot(j) /\ j \in past)
<1>1. CASE file = Torn
    BY <1>1 DEF Undone, Gone, CronInv, Began
<1>2. CASE file # Torn
  <2>0. (file[j] = NoJob => Gone(j)) /\ (j \in closed \ apart =>
            file[j] = NoJob \/ ~file[j].enabled \/ (OneShot(j) /\ j \in past))
    BY <1>2 DEF CronInv, Missing, OverInFile
  <2>1. (js[j] = NoJob <=> file[j] = NoJob) /\ (Enabled(js, j) <=> Enabled(file, j))
    BY <1>2 DEF Undone
  <2>2. js[j] # NoJob /\ file[j] # NoJob => (js[j].enabled <=> file[j].enabled)
    BY <2>1 DEF Enabled
  <2> QED
    BY <2>0, <2>1, <2>2
<1> QED
    BY <1>1, <1>2

\* The jobs a start of the service leaves of those it has read.
LEMMA StartsKeeps ==
    ASSUME CronInv, NEW st \in Store, WellKept(st), Starts(st), Copied'
    PROVE  CronInv'
<1>1. PICK js, ex : js = Recomputed(st) /\ ex = execs
    OBVIOUS
<1>2. /\ SaveAndRearm(js, ex) /\ up' /\ UNCHANGED <<schedule, past, expired, closed>>
      /\ apart' = apart \cup Undone(st)
    BY <1>1 DEF Starts
<1>3. Typed' /\ ex \in Executions /\ \A j \in JobIds : ex[j] = {}
    BY <1>1, <1>2 DEF Starts, CronInv, CronTypeOK, Typed, Executions, Undone
<1>5. ASSUME NEW j \in JobIds
      PROVE  /\ js[j] \in CronJob \cup {NoJob}
             /\ st[j] = NoJob => js[j] = NoJob
             /\ st[j] # NoJob /\ ~st[j].enabled => js[j] = st[j]
             /\ st[j] # NoJob /\ st[j].enabled /\ Dropped(st, j) => js[j] = NoJob
             /\ st[j] # NoJob /\ st[j].enabled /\ ~Dropped(st, j) =>
                    js[j] # NoJob /\ js[j].next = NextRun(j)
  <2>1. st[j] \in CronJob \cup {NoJob}
    BY DEF Store
  <2>2. js[j] = IF ~Enabled(st, j) THEN st[j]
                ELSE IF Dropped(st, j) THEN NoJob
                ELSE [st[j] EXCEPT !.next = NextRun(j)]
    BY <1>1 DEF Recomputed
  <2>3. CASE st[j] = NoJob \/ ~st[j].enabled
    BY <2>1, <2>2, <2>3 DEF Enabled
  <2>4. CASE st[j] # NoJob /\ st[j].enabled /\ Dropped(st, j)
    BY <2>1, <2>2, <2>4 DEF Enabled
  <2>5. CASE st[j] # NoJob /\ st[j].enabled /\ ~Dropped(st, j)
    <3>1. js[j] = [st[j] EXCEPT !.next = NextRun(j)]
      BY <2>2, <2>5 DEF Enabled
    <3>2. NextRun(j) \in {"none", "later"}
      BY DEF NextRun
    <3>3. js[j] \in CronJob /\ js[j].next = NextRun(j)
      BY <2>1, <2>5, <3>1, <3>2 DEF CronJob
    <3> QED
      BY <2>5, <3>3, NoJobAssumption
  <2> QED
    BY <2>3, <2>4, <2>5
<1>6. js \in Store
  <2>1. js = [j \in JobIds |-> js[j]]
    BY <1>1 DEF Recomputed
  <2> QED
    BY <2>1, <1>5 DEF Store
<1>9. WellKept(js)'
    BY <1>2, <1>5 DEF WellKept, OneShot, NextRun
<1>10. Began(ex)'
    BY <1>2, <1>3 DEF CronInv, Began, OneShot
<1>11. Over(js)'
  <2> SUFFICES ASSUME NEW j \in closed' \ apart'
               PROVE  js[j] = NoJob \/ ~js[j].enabled
                      \/ (OneShot(j)' /\ j \in past' /\ js[j].next = "none")
    BY DEF Over
  <2>1. j \in JobIds /\ j \notin Undone(st) /\ j \in closed \ apart
    BY <1>2, <1>3 DEF Typed
  <2>2. st[j] = NoJob \/ ~st[j].enabled \/ (OneShot(j) /\ j \in past)
    BY <2>1, UndoneMarks
  <2> QED
    BY <1>2, <1>5, <2>1, <2>2 DEF OneShot, NextRun
<1>12. Missing(js)'
  <2> SUFFICES ASSUME NEW j \in JobIds, js[j] = NoJob PROVE Gone(j)'
    BY DEF Missing
  <2>1. CASE j \in Undone(st)
    BY <1>2, <2>1 DEF Gone
  <2>2. CASE j \notin Undone(st) /\ st[j] = NoJob
    BY <1>2, <2>2, UndoneMarks DEF Gone, OneShot
  <2>3. CASE st[j] # NoJob
    BY <1>2, <1>5, <2>3 DEF Gone, OneShot, Dropped
  <2> QED
    BY <2>1, <2>2, <2>3
<1> QED
    BY <1>2, <1>3, <1>6, <1>9, <1>10, <1>11, <1>12, SaveKeeps

LEMMA StartStep == ASSUME CronInv, StartService PROVE CronInv'
<1>1. CASE \E js \in Read(Busy(Others)) : Starts(js) /\ UNCHANGED copies
  <2>1. PICK st \in Read(Busy(Others)) : Starts(st) /\ UNCHANGED copies
    BY <1>1
  <2>2. Copied'
    BY <2>1, CopiesStay DEF Starts, CronInv
  <2> QED
    BY <2>1, <2>2, ReadStore, StartsKeeps
<1>2. CASE \E p \in Others : /\ copies[p] # NoStore
                            /\ Starts(copies[p])
                            /\ copies' = [copies EXCEPT ![p] = NoStore]
  <2>1. PICK p \in Others : /\ copies[p] # NoStore
                            /\ Starts(copies[p])
                            /\ copies' = [copies EXCEPT ![p] = NoStore]
    BY <1>2
  <2>2. copies[p] \in Store /\ WellKept(copies[p])
    BY <2>1 DEF CronInv, Copied
  <2>3. Copied'
    BY <2>1 DEF CronInv, Copied, Starts, WellKept, OneShot
  <2> QED
    BY <2>1, <2>2, <2>3, StartsKeeps
<1> QED
    BY <1>1, <1>2 DEF StartService

-----------------------------------------------------------------------------
\* Other processes.
LEMMA LoadStep == ASSUME CronInv, NEW p \in Others, OtherLoads(p) \/ OtherQuits(p) PROVE CronInv'
<1>1. UNCHANGED <<up, schedule, jobs, file, timer, execs, past, expired, closed, apart>>
    BY DEF OtherLoads, OtherQuits
<1>2. PICK st \in Store \cup {NoStore} : /\ copies' = [copies EXCEPT ![p] = st]
                                         /\ st # NoStore => WellKept(st)
  <2>1. CASE OtherLoads(p)
    BY <2>1, ReadStore DEF OtherLoads
  <2>2. CASE OtherQuits(p)
    BY <2>2 DEF OtherQuits
  <2> QED
    BY <2>1, <2>2
<1>3. Copied'
    BY <1>1, <1>2 DEF CronInv, Copied, WellKept, OneShot
<1>4. CronTypeOK' /\ TimerArmed' /\ Began(execs)'
    BY <1>1, <1>3 DEF CronInv, CronTypeOK, TimerArmed, Enabled, Began, OneShot, Copied
<1> QED
    BY <1>1, <1>3, <1>4 DEF CronInv, WellKept, Over, OverInFile, Missing, Gone, OneShot

\* A write of another process, whole or not, when what it wrote is well kept
\* and, of the job it changed, over where that is over.
LEMMA WriteKeeps ==
    ASSUME CronInv, NEW p \in Others, NEW j \in JobIds, NEW js \in Store,
           OtherWrites(p, j, js), copies[p] # NoStore,
           \A i \in JobIds \ {j} : js[i] = copies[p][i],
           schedule' \in [JobIds -> Kinds \cup {"none"}], schedule'[j] # "none",
           \A i \in JobIds : schedule[i] # "none" \/ i # j => schedule'[i] = schedule[i],
           closed' \subseteq JobIds,
           \A i \in JobIds \ {j} : i \in closed' <=> i \in closed,
           WellKept(js)',
           schedule[j] = "none" => js[j] # NoJob /\ j \notin closed',
           j \in closed' \ (apart \cup Undone(copies[p])) =>
               js[j] = NoJob \/ ~js[j].enabled \/ (OneShot(j)' /\ j \in past),
           js[j] = NoJob => j \in closed'
    PROVE  CronInv'
<1>1. /\ copies' = [copies EXCEPT ![p] = js] /\ file' \in {js, Torn}
      /\ apart' = apart \cup Undone(copies[p]) \cup IF up THEN {j} ELSE {}
      /\ UNCHANGED <<up, jobs, timer, execs, past, expired>>
    BY DEF OtherWrites
<1>2. CronTypeOK /\ Typed /\ Copied /\ Began(execs) /\ TimerArmed /\ WellKept(jobs)
      /\ Over(jobs) /\ (up => Missing(jobs))
    BY DEF CronInv, CronTypeOK, Typed
<1>3. apart' \subseteq JobIds /\ apart \subseteq apart' /\ Undone(copies[p]) \subseteq apart'
      /\ (up => j \in apart')
    BY <1>1, <1>2 DEF Typed, Undone
<1>c. copies[p] \in Store
    BY <1>2 DEF Copied
<1>4. Copied'
    BY <1>1, <1>2 DEF Copied, WellKept, OneShot
<1>5. CronTypeOK'
    BY <1>1, <1>2, <1>3, <1>4 DEF CronTypeOK, Copied
<1>6. TimerArmed' /\ Began(execs)'
  <2>1. TimerArmed'
    BY <1>1, <1>2 DEF TimerArmed, Enabled
  <2>2. ASSUME NEW i \in JobIds
        PROVE  /\ schedule'[i] = "none" => i \notin closed' /\ execs'[i] = {}
               /\ OneShot(i)' /\ ("timed" \in execs'[i] \/ "stale" \in execs'[i]) => i \in past'
    <3>1. CASE i = j
      BY <1>1, <1>2, <3>1 DEF Began, OneShot
    <3>2. CASE i # j
      BY <1>1, <1>2, <3>2 DEF Began, OneShot
    <3> QED
      BY <3>1, <3>2
  <2> QED
    BY <2>1, <2>2 DEF Began
<1>7. WellKept(jobs)'
    BY <1>1, <1>2 DEF WellKept, OneShot
<1>8. Over(jobs)'
  <2> SUFFICES ASSUME NEW i \in closed' \ apart'
               PROVE  jobs'[i] = NoJob \/ ~jobs'[i].enabled
                      \/ (OneShot(i)' /\ i \in past' /\ jobs'[i].next = "none")
    BY DEF Over
  <2>1. CASE i = j
    BY <1>1, <1>2, <1>3, <2>1 DEF CronTypeOK
  <2>2. CASE i # j
    BY <1>1, <1>2, <1>3, <2>2 DEF Over, OneShot
  <2> QED
    BY <2>1, <2>2
<1>9. (up => Missing(jobs))'
    BY <1>1, <1>2, <1>3 DEF Missing, Gone, OneShot
<1>10. ASSUME file' # Torn PROVE (WellKept(file) /\ OverInFile /\ Missing(file))'
  <2>1. file' = js
    BY <1>1, <1>10
  <2>2. WellKept(file)'
    BY <2>1 DEF WellKept, OneShot
  <2>3. OverInFile'
    <3> SUFFICES ASSUME NEW i \in closed' \ apart'
                 PROVE  js[i] = NoJob \/ ~js[i].enabled \/ (OneShot(i)' /\ i \in past')
      BY <2>1 DEF OverInFile
    <3>1. CASE i = j
      BY <1>1, <1>3, <3>1
    <3>2. CASE i # j
      <4>1. i \in JobIds /\ i \in closed \ apart /\ i \notin Undone(copies[p])
        BY <1>3, <3>2
      <4>2. \/ copies[p][i] = NoJob
            \/ ~copies[p][i].enabled
            \/ OneShot(i) /\ i \in past
        BY <4>1, <1>c, UndoneMarks
      <4> QED
        BY <1>1, <3>2, <4>1, <4>2 DEF OneShot
    <3> QED
      BY <3>1, <3>2
  <2>4. Missing(file)'
    <3> SUFFICES ASSUME NEW i \in JobIds, js[i] = NoJob PROVE Gone(i)'
      BY <2>1 DEF Missing
    <3>1. CASE i = j
      BY <3>1 DEF Gone
    <3>2. CASE i # j
      <4>1. copies[p][i] = NoJob /\ schedule'[i] = schedule[i] /\ (i \in closed <=> i \in closed')
        BY <3>2
      <4>2. CASE i \in Undone(copies[p])
        BY <1>3, <4>2 DEF Gone
      <4>3. CASE i \notin Undone(copies[p])
        <5>1. Gone(i)
          BY <4>1, <4>3, <1>c, UndoneMarks
        <5> QED
          BY <1>1, <1>3, <3>2, <4>1, <5>1 DEF Gone, OneShot
      <4> QED
        BY <4>2, <4>3
    <3> QED
      BY <3>1, <3>2
  <2> QED
    BY <2>2, <2>3, <2>4
<1> QED
    BY <1>4, <1>5, <1>6, <1>7, <1>8, <1>9, <1>10 DEF CronInv

\* What the other processes do to the file and their stores.
LEMMA OtherStep == ASSUME CronInv, NEW p \in Others, NEW j \in JobIds, CronOther(p, j) PROVE CronInv'
<1> DEFINE st == copies[p]
<1>1. /\ st \in Store /\ WellKept(st) /\ st # NoStore
      /\ Typed /\ Began(execs)
    BY DEF CronInv, Copied, CronTypeOK, Typed, CronOther, OtherAdds, OtherRemoves, OtherRan,
           OtherSwitches
<1>2. ASSUME NEW js, OtherWrites(p, j, js) PROVE past' = past
    BY <1>2 DEF OtherWrites
<1>3. ASSUME OtherAdds(p, j) PROVE CronInv'
  <2>1. NewJob \in CronJob /\ NewJob.enabled /\ NewJob.next = "later"
    BY DEF NewJob, CronJob
  <2>2. NewJob # NoJob
    BY <2>1, NoJobAssumption
  <2>3. PICK js : js = [st EXCEPT ![j] = NewJob]
    OBVIOUS
  <2>4. /\ OtherWrites(p, j, js) /\ schedule[j] = "none" /\ closed' = closed
        /\ \E k \in Kinds : schedule' = [schedule EXCEPT ![j] = k]
    BY <1>3, <2>3 DEF OtherAdds
  <2>5. js \in Store /\ js[j] = NewJob /\ \A i \in JobIds \ {j} : js[i] = st[i]
    BY <1>1, <2>1, <2>3 DEF Store
  <2>6. /\ schedule' \in [JobIds -> Kinds \cup {"none"}] /\ schedule'[j] # "none"
        /\ \A i \in JobIds : schedule[i] # "none" \/ i # j => schedule'[i] = schedule[i]
    BY <1>1, <2>4 DEF Typed, Kinds
  <2>7. WellKept(js)'
    BY <1>1, <1>2, <2>1, <2>4, <2>5, <2>6 DEF WellKept, OneShot
  <2>8. j \notin closed' /\ closed' \subseteq JobIds
    BY <1>1, <2>4 DEF Began, Typed
  <2> QED
    BY <1>1, <2>2, <2>4, <2>5, <2>6, <2>7, <2>8, WriteKeeps
<1>4. ASSUME NEW js \in Store, OtherWrites(p, j, js), st[j] # NoJob, UNCHANGED schedule,
             \A i \in JobIds \ {j} : js[i] = st[i],
             closed' \subseteq JobIds,
             \A i \in JobIds \ {j} : i \in closed' <=> i \in closed,
             js[j] # NoJob =>
                 /\ schedule[j] = "every" /\ js[j].enabled => js[j].next # "none"
                 /\ OneShot(j) => js[j].next # "due",
             j \in closed' \ (apart \cup Undone(st)) =>
                 js[j] = NoJob \/ ~js[j].enabled \/ (OneShot(j) /\ j \in past),
             js[j] = NoJob => j \in closed'
      PROVE  CronInv'
  <2>1. schedule[j] # "none" /\ past' = past
    BY <1>1, <1>2, <1>4 DEF WellKept
  <2>2. WellKept(js)'
    BY <1>1, <1>4, <2>1 DEF WellKept, OneShot
  <2>3. schedule' \in [JobIds -> Kinds \cup {"none"}] /\ schedule' = schedule
    BY <1>1, <1>4 DEF Typed
  <2>4. OneShot(j)' = OneShot(j)
    BY <2>3 DEF OneShot
  <2> QED
    BY <1>1, <1>4, <2>1, <2>2, <2>3, <2>4, WriteKeeps
<1>5. ASSUME OtherRemoves(p, j) PROVE CronInv'
  <2>1. PICK js : js = [st EXCEPT ![j] = NoJob]
    OBVIOUS
  <2>2. /\ OtherWrites(p, j, js) /\ st[j] # NoJob /\ UNCHANGED schedule
        /\ closed' = closed \cup {j}
    BY <1>5, <2>1 DEF OtherRemoves
  <2>3. js \in Store /\ js[j] = NoJob /\ \A i \in JobIds \ {j} : js[i] = st[i]
    BY <1>1, <2>1 DEF Store
  <2>4. closed' \subseteq JobIds
    BY <1>1, <2>2 DEF Typed
  <2> QED
    BY <1>4, <2>2, <2>3, <2>4
<1>6. ASSUME NEW e \in BOOLEAN, OtherSwitches(p, j, e) PROVE CronInv'
  <2> DEFINE n == IF e THEN NextRun(j) ELSE "none"
  <2> DEFINE r == [[st[j] EXCEPT !.enabled = e] EXCEPT !.next = n]
  <2>1. st[j] # NoJob /\ st[j] \in CronJob
    BY <1>1, <1>6 DEF OtherSwitches, Store
  <2>2. n \in {"none", "later"} /\ (e /\ ~OneShot(j) => n = "later")
    BY DEF NextRun
  <2> HIDE DEF n
  <2>3. r \in CronJob /\ (r.enabled <=> e) /\ r.next = n /\ r # NoJob
    BY <2>1, <2>2, NoJobAssumption DEF CronJob
  <2>4. PICK js : js = Switched(st, j, e)
    OBVIOUS
  <2>5. js = [st EXCEPT ![j] = r]
    BY <1>1, <2>4 DEF Store, Switched, n
  <2> HIDE DEF r
  <2>6. js \in Store /\ js[j] = r /\ \A i \in JobIds \ {j} : js[i] = st[i]
    BY <1>1, <2>3, <2>5 DEF Store
  <2>7. /\ OtherWrites(p, j, js) /\ UNCHANGED schedule
        /\ closed' = IF e THEN closed \ {j} ELSE closed
    BY <1>6, <2>4 DEF OtherSwitches
  <2>8. closed' \subseteq JobIds
    BY <1>1, <2>7 DEF Typed
  <2>9. schedule[j] = "every" => ~OneShot(j)
    BY DEF OneShot
  <2> QED
    BY <1>4, <2>1, <2>2, <2>3, <2>6, <2>7, <2>8, <2>9
<1>7. ASSUME OtherRan(p, j) PROVE CronInv'
  <2>1. PICK js \in Ended(st, j) : OtherWrites(p, j, js)
    BY <1>7 DEF OtherRan
  <2>2. st[j] # NoJob /\ UNCHANGED schedule
        /\ closed' = IF OneShot(j) THEN closed \cup {j} ELSE closed
    BY <1>7 DEF OtherRan, Close
  <2>3. /\ js \in Store
        /\ \A k \in JobIds \ {j} : js[k] = st[k]
        /\ schedule[j] = "once" => js[j] = NoJob
        /\ schedule[j] = "at" => js[j] # NoJob /\ ~js[j].enabled /\ js[j].next = "none"
        /\ ~OneShot(j) =>
               js[j] # NoJob /\ (js[j].enabled => st[j].enabled) /\ js[j].next # "none"
    BY <1>1, <2>1, <2>2, EndedStore
  <2>4. closed' \subseteq JobIds
    BY <1>1, <2>2 DEF Typed
  <2>5. ASSUME j \notin Undone(st), j \in closed' \ apart
        PROVE  js[j] = NoJob \/ ~js[j].enabled \/ (OneShot(j) /\ j \in past)
    <3>1. CASE OneShot(j)
      BY <2>3, <3>1 DEF OneShot
    <3>2. CASE ~OneShot(j)
      <4>1. st[j] = NoJob \/ ~st[j].enabled
        BY <1>1, <2>2, <2>5, <3>2, UndoneMarks
      <4> QED
        BY <2>2, <2>3, <3>2, <4>1
    <3> QED
      BY <3>1, <3>2
  <2>6. OneShot(j) <=> schedule[j] \in {"once", "at"}
    BY DEF OneShot
  <2> QED
    BY <1>4, <2>1, <2>2, <2>3, <2>4, <2>5, <2>6
<1> QED
  BY <1>3, <1>5, <1>6, <1>7 DEF CronOther

-----------------------------------------------------------------------------
LEMMA CronInitInv == CronInit => CronInv
<1> SUFFICES ASSUME CronInit PROVE CronInv
    OBVIOUS
<1>1. /\ jobs \in Store /\ file \in Store /\ execs \in Executions
      /\ \A j \in JobIds : jobs[j] = NoJob /\ file[j] = NoJob /\ execs[j] = {}
                           /\ schedule[j] = "none"
      /\ schedule \in [JobIds -> Kinds \cup {"none"}]
    BY DEF CronInit, Store, Executions
<1>2. Copied
    BY DEF CronInit, Copied
<1>3. CronTypeOK
    BY <1>1, <1>2 DEF CronInit, CronTypeOK, Executions, Copied
<1> QED
    BY <1>1, <1>2, <1>3 DEF CronInit, CronInv, TimerArmed, Began, WellKept, Over, OverInFile,
                      Missing, Gone, OneShot

LEMMA CronStep == CronInv /\ [CronNext]_cronVars => CronInv'
<1> SUFFICES ASSUME CronInv, [CronNext]_cronVars PROVE CronInv'
    OBVIOUS
<1>1. ASSUME NEW j \in JobIds, CronEdit(j) PROVE CronInv'
    BY <1>1, AddStep, RemoveStep, EnableStep, RunStep DEF CronEdit
<1>2. ASSUME NEW j \in JobIds, CronEnd(j) PROVE CronInv'
    BY <1>2, ManualStep, TimedStep, UnwindStep DEF CronEnd
<1>3. ASSUME NEW j \in JobIds, CronClock(j) PROVE CronInv'
    BY <1>3, DueStep, ClockStep DEF CronClock
<1>5. ASSUME NEW p \in Others, OtherLoads(p) \/ OtherQuits(p) PROVE CronInv'
    BY <1>5, LoadStep
<1>6. ASSUME NEW p \in Others, NEW j \in JobIds, CronOther(p, j) PROVE CronInv'
    BY <1>6, OtherStep
<1>4. CASE UNCHANGED cronVars
  <2>c. Copied'
    BY <1>4, CopiesStay DEF CronInv, cronVars
  <2>1. CronTypeOK' /\ TimerArmed' /\ Began(execs)'
    BY <1>4 DEF cronVars, CronInv, CronTypeOK, TimerArmed, Enabled, Began, OneShot
  <2> QED
    BY <1>4, <2>1, <2>c DEF cronVars, CronInv, WellKept, Over, OverInFile, Missing, Gone, OneShot
<1> QED
    BY <1>1, <1>2, <1>3, <1>4, <1>5, <1>6, SleepStep, FireStep, TickStep, CrashStep, StartStep DEF CronNext

THEOREM CronInvariant == CronSpec => []CronInv
BY CronInitInv, CronStep, PTL DEF CronSpec

\* The state of the scheduler keeps its types, and executions belong to a
\* running tick, for every set of jobs.
THEOREM CronTypes == CronSpec => []CronTypeOK
<1>1. CronInv => CronTypeOK
    BY DEF CronInv
<1> QED
    BY CronInvariant, <1>1, PTL

\* The scheduler never falls asleep for good, for every set of jobs
\* (_arm_timer).
THEOREM CronTimerArmed == CronSpec => []TimerArmed
<1>1. CronInv => TimerArmed
    BY DEF CronInv
<1> QED
    BY CronInvariant, <1>1, PTL

\* A save starts nothing.
LEMMA RearmStarts ==
    ASSUME NEW js, NEW ex, SaveAndRearm(js, ex)
    PROVE  \A j \in JobIds : "timed" \notin execs'[j]
BY DEF SaveAndRearm, TimerCancelled

\* Only Fire starts executions as the timer's.
LEMMA OnlyFireStarts ==
    ASSUME CronInv, CronNext, ~Fire
    PROVE  \A j \in JobIds : "timed" \in execs'[j] => "timed" \in execs[j]
<1> DEFINE Goal == \A j \in JobIds : "timed" \in execs'[j] => "timed" \in execs[j]
<1>1. execs \in Executions
    BY DEF CronInv, CronTypeOK, Executions
<1>2. ASSUME NEW j \in JobIds, AddJob(j) \/ RemoveJob(j) \/ (\E e \in BOOLEAN : EnableJob(j, e))
      PROVE  Goal
    BY <1>2, RearmStarts DEF AddJob, RemoveJob, EnableJob
<1>3. ASSUME NEW j \in JobIds, RunJob(j) PROVE Goal
    BY <1>1, <1>3 DEF RunJob, Executions
<1>4. ASSUME NEW j \in JobIds, ManualEnds(j) PROVE Goal
    BY <1>4, RearmStarts DEF ManualEnds
<1>5. ASSUME NEW j \in JobIds, TimedEnds(j) PROVE Goal
    BY <1>1, <1>5 DEF TimedEnds, Executions
<1>6. ASSUME NEW j \in JobIds, StaleUnwinds(j) \/ StaleCompletes(j) PROVE Goal
    BY <1>1, <1>6 DEF StaleUnwinds, StaleCompletes, Executions
<1>7. ASSUME NEW j \in JobIds, CronClock(j) PROVE Goal
    BY <1>7 DEF CronClock, NextRunComes, OneShotPasses, Expires
<1>8. CASE SleepEnds
    BY <1>8 DEF SleepEnds
<1>9. CASE TickEnds \/ StartService
    BY <1>9, RearmStarts DEF TickEnds, StartService, Starts
<1>10. CASE Crash
    BY <1>10 DEF Crash
<1>11. ASSUME NEW p \in Others, OtherLoads(p) \/ OtherQuits(p) PROVE Goal
    BY <1>11 DEF OtherLoads, OtherQuits
<1>12. ASSUME NEW p \in Others, NEW j \in JobIds, CronOther(p, j) PROVE Goal
    BY <1>12 DEF CronOther, OtherAdds, OtherRemoves, OtherRan, OtherSwitches, OtherWrites
<1> QED
    BY <1>2, <1>3, <1>4, <1>5, <1>6, <1>7, <1>8, <1>9, <1>10, <1>11, <1>12 DEF CronNext, CronEdit, CronEnd

\* A job that is over is never started by the timer again, for every set of
\* jobs (_on_timer, _recompute_next_runs).
THEOREM CronNeverAgain == CronSpec => NeverAgain
<1>1. ASSUME CronInv, [CronNext]_cronVars
      PROVE  [\A j \in closed \ apart : "timed" \in execs'[j] => "timed" \in execs[j]]_cronVars
  <2>1. CASE UNCHANGED cronVars
    BY <2>1
  <2>2. CASE Fire
    <3>1. \A j \in (closed \ apart) \cap DueJobs : FALSE
      BY <1>1 DEF CronInv, Over, DueJobs, Enabled
    <3>2. CASE DueJobs = {}
      BY <1>1, <2>2, <3>2, SavedState DEF Fire, CronInv, CronTypeOK, Executions
    <3>3. CASE DueJobs # {}
      BY <1>1, <2>2, <3>1, <3>3 DEF Fire, CronInv, CronTypeOK
    <3> QED
      BY <3>2, <3>3
  <2>3. CASE CronNext /\ ~Fire
    <3>1. \A j \in JobIds : "timed" \in execs'[j] => "timed" \in execs[j]
      BY <1>1, <2>3, OnlyFireStarts
    <3> QED
      BY <1>1, <3>1 DEF CronInv, CronTypeOK
  <2> QED
    BY <1>1, <2>1, <2>2, <2>3
<1> QED
    BY CronInvariant, <1>1, PTL DEF CronSpec, NeverAgain

\* A restart brings back every job that is not over nor excepted, for every
\* set of jobs (start).
THEOREM CronSurvivesRestart == CronSpec => SurvivesRestart
<1> DEFINE Kept == ~up /\ up' => \A j \in JobIds :
                                  \/ schedule[j] = "none"
                                  \/ j \in closed \cup expired \cup apart'
                                  \/ OneShot(j) /\ j \in past
                                  \/ jobs'[j] # NoJob
<1>1. ASSUME CronInv, CronInv', [CronNext]_cronVars, ~up, up' PROVE Kept
  <2>1. UNCHANGED up \/ ~up' \/ StartService
    BY <1>1 DEF CronNext, CronEdit, CronEnd, CronClock, AddJob, RemoveJob, EnableJob, RunJob,
                ManualEnds, TimedEnds, StaleUnwinds, StaleCompletes, NextRunComes,
                OneShotPasses, Expires, SleepEnds, Fire, TickEnds, Crash, cronVars, OtherLoads,
                OtherQuits, CronOther, OtherAdds, OtherRemoves, OtherRan, OtherSwitches, OtherWrites
  <2>2. UNCHANGED <<schedule, past, expired, closed>>
    BY <1>1, <2>1 DEF StartService, Starts
  <2>3. (up => Missing(jobs))'
    BY <1>1 DEF CronInv
  <2>4. up'
    BY <1>1
  <2>5. ASSUME NEW j \in JobIds, jobs'[j] = NoJob PROVE Gone(j)'
    BY <2>3, <2>4, <2>5 DEF Missing
  <2> QED
    BY <2>2, <2>5 DEF Gone, OneShot
<1>2. CronInv /\ CronInv' /\ [CronNext]_cronVars => [Kept]_cronVars
    BY <1>1
<1> QED
    BY CronInvariant, <1>2, PTL DEF CronSpec, SurvivesRestart
=============================================================================
