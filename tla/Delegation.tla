----------------------------- MODULE Delegation -----------------------------
(***************************************************************************)
(* SubagentExecutor: src/src/agent/delegation/executor.py, with the facade *)
(* src/src/agent/subagent.py and the tools that call them.                 *)
(*                                                                         *)
(* An agent is a root turn (named by its session) or a subagent task.      *)
(* Agents spawn tasks, wait for them and kill them; a session's /stop      *)
(* cancels all its tasks.  Every task is an asyncio task, and each action  *)
(* is the code between two of its awaits.                                  *)
(*                                                                         *)
(* What makes it hard is asyncio's cancel(): it only marks the task, the   *)
(* CancelledError is raised at the await the task is suspended in, and what*)
(* that await is decides what happens: the model turn ends, a gather passes*)
(* the cancel on to the tasks it gathers and raises when they are over,    *)
(* and SubagentExecutor.wait and kill swallow it.  A task cancelled before *)
(* it first ran never runs at all, not even its finally clauses.           *)
(***************************************************************************)
EXTENDS Naturals, Sequences, FiniteSets

CONSTANTS
    TaskIds,        \* ids of tasks, each used once
    Sessions,       \* root session keys; also the names of the root turns
    None,           \* no session is being stopped; a call without argument
    MaxConcurrent,  \* SubagentPolicyConfig.max_concurrent
    MaxChildren,    \* SubagentPolicyConfig.max_children_per_agent
    MaxDepth,       \* SubagentPolicyConfig.max_depth
    KeepCompleted,  \* SubagentPolicyConfig.keep_completed
    Isolation,      \* bound of the model: what spawn's isolation may be,
                    \*   among "no" and "wanted" (a worktree)
    Cascades,       \* bound of the model: what kill's cascade may be
    MaxStops        \* bound of the model: how often users say /stop

ASSUME NamesAssumption ==
    /\ TaskIds \cap Sessions = {}
    /\ None \notin TaskIds \cup Sessions
    /\ IsFiniteSet(TaskIds)
ASSUME PolicyAssumption ==
    /\ {MaxConcurrent, MaxChildren, MaxDepth, KeepCompleted, MaxStops} \subseteq Nat
    /\ "no" \in Isolation /\ Isolation \subseteq {"no", "wanted"}
    /\ Cascades \subseteq BOOLEAN

VARIABLES
    records,    \* keys of _records
    handles,    \* keys of _tasks
    consumed,   \* _consumed
    finishOrder,\* the tasks that have a finished_at, oldest first
    task,       \* the records and their asyncio tasks
    call,       \* what each agent's running tool call awaits
    cancel,     \* cancel() was called, the CancelledError is not yet delivered
    stopping,   \* the session whose lock cancel_by_session holds, or None
    draining,   \* the tasks cancel_by_session gathers
    stops       \* how often /stop was said

vars == <<records, handles, consumed, finishOrder, task, call, cancel, stopping,
          draining, stops>>

Agents   == TaskIds \cup Sessions
Terminal == {"completed", "timed_out", "cancelled"}             \* is_terminal

\* status: "completed" stands for FAILED too, which nothing distinguishes.
\* pc: "none" (id unused), "created" (asyncio task not yet run), "worktree" (in
\* _setup_worktree), "loop" (in _run_subagent_loop), "reaping" (finally: gather
\* of the children), "cleanup" (finally: _cleanup_worktree), "over" (task.done()).
\* wt: a worktree is wanted, or made.  fired: the subagent timeout fired.
\* hit: somebody cancelled the task while it was in its loop.
\* resumed: send_message spawned it.  detached: it finished without cascade.
TaskState ==
    [pc : {"none", "created", "worktree", "loop", "reaping", "cleanup", "over"},
     status : {"pending", "running"} \cup Terminal,
     parent : Agents \cup {None}, session : Sessions \cup {None}, depth : Nat,
     cascade : BOOLEAN, wt : {"no", "wanted", "made"},
     fired : BOOLEAN, hit : BOOLEAN, resumed : BOOLEAN, detached : BOOLEAN]

\* op: "none", "spawn" (for the session lock), "wait" (for task arg), "gather"
\* (of the tasks on: kill's children of arg, or _execute's own) and "killed"
\* (kill's two seconds for arg).
CallState ==
    [op : {"none", "spawn", "wait", "gather", "killed"}, on : SUBSET TaskIds,
     arg : Agents \cup {None}, depth : Nat, resume : BOOLEAN]

Idle == [op |-> "none", on |-> {}, arg |-> None, depth |-> 0, resume |-> FALSE]

TypeOK ==
    /\ records \subseteq TaskIds
    /\ handles \subseteq TaskIds
    /\ consumed \subseteq TaskIds
    /\ finishOrder \in Seq(TaskIds)
    /\ task \in [TaskIds -> TaskState]
    /\ call \in [Agents -> CallState]
    /\ cancel \in [Agents -> BOOLEAN]
    /\ stopping \in Sessions \cup {None}
    /\ draining \subseteq TaskIds
    /\ stops \in 0 .. MaxStops
    /\ \A t \in TaskIds : task[t].pc # "none" => task[t].parent # None /\ task[t].depth < MaxDepth

-----------------------------------------------------------------------------
(* The task tree *)

SessionOf(a) == IF a \in Sessions THEN a ELSE task[a].session
DepthOf(a)   == IF a \in Sessions THEN 0 ELSE task[a].depth

Live(t)     == task[t].pc \notin {"none", "over"}       \* not asyncio_task.done()
Finished(t) == task[t].status \in Terminal
\* Mutant: tasks that have not started yet are not counted.
StartedOnly == {t \in records : task[t].status = "running"}
Running     == {t \in records : ~Finished(t)}            \* get_running_count

\* Mutant: children that have not started yet are overlooked.
StartedChildren(a) == {t \in records : task[t].status = "running" /\ task[t].parent = a}
Children(a) == {t \in Running : task[t].parent = a}      \* _non_terminal_children

\* The smallest set of tasks that holds S and, with a task u, all of below[u].
Closure(S, below) ==
    LET all    == S \cup UNION {below[t] : t \in TaskIds}
        closed == {U \in SUBSET all : S \subseteq U /\ \A u \in U : below[u] \subseteq U}
    IN  {t \in all : \A U \in closed : t \in U}

\* _is_descendant walks parent_task_id as far as the records go.
Offspring(a)   == {t \in records : task[t].parent = a}
Descendants(a) == Closure(Offspring(a), [t \in TaskIds |-> Offspring(t)])

\* _can_access_task: a root turn reaches its session, a task itself and below.
CanAccess(a, x) ==
    /\ x \in records /\ SessionOf(x) = SessionOf(a)
    /\ a \in Sessions \/ x = a \/ x \in Descendants(a)

-----------------------------------------------------------------------------
(* asyncio: cancel() and gather *)

\* The live tasks whose gather the agent is suspended in: cancel() reaches them.
Gathered(a) == IF call[a].op = "gather" THEN {t \in call[a].on : Live(t)} ELSE {}

\* The tasks on which cancel() is called when it is called on those of S.
Reach(S) == Closure({t \in S : Live(t)}, [t \in TaskIds |-> Gathered(t)])

Marked(hits)   == [a \in Agents |-> cancel[a] \/ a \in hits]
Hit(tk, hits)  == [t \in TaskIds |-> IF t \in hits /\ tk[t].pc = "loop"
                                     THEN [tk[t] EXCEPT !.hit = TRUE] ELSE tk[t]]

-----------------------------------------------------------------------------
(* _execute: the end of a task *)

Older(order, u, v) ==
    \E i, j \in 1 .. Len(order) : i < j /\ order[i] = u /\ order[j] = v

\* Mutant: a result is evicted whether or not anybody has seen it.
EvictedUnseen(tk, seen, order) ==
    LET done == {u \in records : tk[u].status \in Terminal}
    IN  {u \in done : Cardinality(done) >
                        KeepCompleted + Cardinality({v \in done : Older(order, v, u)})}

\* _gc_results: of the finished tasks beyond keep_completed, the consumed ones
\* go, oldest first.
Evicted(tk, seen, order) ==
    LET done == {u \in records : tk[u].status \in Terminal}  may == done \cap seen
    IN  {u \in may : Cardinality(done) >
                        KeepCompleted + Cardinality({v \in may : Older(order, v, u)})}

\* The last lines of the finally: no await between them suspends.  A top-level
\* task (parent_task_id is None) is announced to its session and so consumed.
Retire(t, tk, order) ==
    LET seen == IF tk[t].parent \in Sessions THEN consumed \cup {t} ELSE consumed
        gone == Evicted(tk, seen, order)
    IN  /\ handles' = handles \ {t}
        /\ records' = records \ gone
        /\ consumed' = seen \ gone
        /\ task' = [tk EXCEPT ![t].pc = "over", ![t].wt = "no"]

\* After the children: clean up a worktree, or go straight to the end.
AfterReaping(t, tk, order) ==
    IF tk[t].wt = "made"
    THEN /\ task' = [tk EXCEPT ![t].pc = "cleanup"]
         /\ UNCHANGED <<records, handles, consumed>>
    ELSE Retire(t, tk, order)

\* _finish_record, and the finally up to its first suspension: with cascade the
\* running children are cancelled and gathered.
Finish(t, status) ==
    LET kids  == IF task[t].cascade THEN {c \in Children(t) : Live(c)} ELSE {}
        hits  == Reach(kids)
        order == Append(finishOrder, t)
        tk    == [task EXCEPT ![t].status = status, ![t].fired = FALSE, ![t].hit = FALSE,
                              ![t].detached = ~task[t].cascade]
    IN  /\ finishOrder' = order
        /\ cancel' = [Marked(hits) EXCEPT ![t] = FALSE]
        /\ IF kids # {}
           THEN /\ task' = [Hit(tk, hits) EXCEPT ![t].pc = "reaping"]
                /\ call' = [call EXCEPT ![t] = [Idle EXCEPT !.op = "gather", !.on = kids]]
                /\ UNCHANGED <<records, handles, consumed>>
           ELSE /\ AfterReaping(t, tk, order)
                /\ call' = [call EXCEPT ![t] = Idle]
        /\ UNCHANGED <<stopping, draining, stops>>

\* The asyncio task is over, and what the rest of _execute would do is not done.
Abort(t) ==
    /\ task' = [task EXCEPT ![t].pc = "over", ![t].wt = "no"]
    /\ call' = [call EXCEPT ![t] = Idle]
    /\ cancel' = [cancel EXCEPT ![t] = FALSE]
    /\ UNCHANGED <<records, handles, consumed, finishOrder, stopping, draining, stops>>

-----------------------------------------------------------------------------
Init ==
    /\ records = {} /\ handles = {} /\ consumed = {} /\ finishOrder = <<>>
    /\ task = [t \in TaskIds |->
                  [pc |-> "none", status |-> "pending", parent |-> None, session |-> None,
                   depth |-> 0, cascade |-> TRUE, wt |-> "no", fired |-> FALSE,
                   hit |-> FALSE, resumed |-> FALSE, detached |-> FALSE]]
    /\ call = [a \in Agents |-> Idle]
    /\ cancel = [a \in Agents |-> FALSE]
    /\ stopping = None /\ draining = {} /\ stops = 0

-----------------------------------------------------------------------------
(* SubagentExecutor.spawn *)

\* An agent is between tool calls: its model may ask for the next one.
CanCall(a) ==
    /\ call[a].op = "none" /\ ~cancel[a]
    /\ a \in TaskIds => task[a].pc = "loop"

\* Mutant: spawn does not take the session's lock.
LockIgnored(s) == TRUE
LockFree(s) == stopping # s

\* Mutant: off by one.
AllowedAtMaxDepth(p, depth) ==
    /\ depth <= MaxDepth
    /\ Cardinality(Running) < MaxConcurrent
    /\ p \in TaskIds => Cardinality(Children(p)) < MaxChildren

\* _spawn_policy_error.  _frozen_sessions is not asked about: it is filled and
\* emptied by cancel_by_session under the lock that spawn holds here.
Allowed(p, depth) ==
    /\ depth < MaxDepth
    /\ Cardinality(Running) < MaxConcurrent
    /\ p \in TaskIds => Cardinality(Children(p)) < MaxChildren

\* The body of spawn, under the lock: the record and its asyncio task, or nothing
\* but an error text.
Create(p, depth, resume) ==
    \/ /\ Allowed(p, depth)
       /\ \E t \in TaskIds, wt \in IF resume THEN {"no"} ELSE Isolation :
             /\ task[t].pc = "none"
             /\ task' = [task EXCEPT ![t] =
                    [@ EXCEPT !.pc = "created", !.parent = p, !.session = SessionOf(p),
                              !.depth = depth, !.wt = wt, !.resumed = resume]]
             /\ records' = records \cup {t}
             /\ handles' = handles \cup {t}
    \/ /\ ~Allowed(p, depth)
       /\ UNCHANGED <<task, records, handles>>

\* The session's lock is free, or the caller waits for it.
RequestSpawn(a, p, depth, resume) ==
    /\ \/ /\ LockFree(SessionOf(p))
          /\ Create(p, depth, resume)
          /\ UNCHANGED call
       \/ /\ ~LockFree(SessionOf(p))
          /\ call' = [call EXCEPT ![a] = [op |-> "spawn", on |-> {}, arg |-> p,
                                          depth |-> depth, resume |-> resume]]
          /\ UNCHANGED <<task, records, handles>>
    /\ UNCHANGED <<consumed, finishOrder, cancel, stopping, draining, stops>>

\* SpawnTool: a child of the caller, one level down.
Spawn(a) ==
    /\ CanCall(a)
    /\ RequestSpawn(a, a, DepthOf(a) + 1, FALSE)

\* Mutant: the continuation becomes a child of the caller, at the old depth.
SendMessageAdopts(a, x) ==
    /\ CanCall(a)
    /\ x \in records /\ Finished(x)
    /\ RequestSpawn(a, a, task[x].depth, TRUE)

\* SubagentManager.send_message: a finished task is continued by a new one with
\* the same parent and depth.  It asks nothing of the caller.
SendMessage(a, x) ==
    /\ CanCall(a)
    /\ x \in records /\ Finished(x)
    /\ RequestSpawn(a, task[x].parent, task[x].depth, TRUE)

\* cancel_by_session released the lock this call waits for.
SpawnResumes(a) ==
    /\ call[a].op = "spawn" /\ ~cancel[a] /\ LockFree(SessionOf(call[a].arg))
    /\ Create(call[a].arg, call[a].depth, call[a].resume)
    /\ call' = [call EXCEPT ![a] = Idle]
    /\ UNCHANGED <<consumed, finishOrder, cancel, stopping, draining, stops>>

-----------------------------------------------------------------------------
(* SubagentExecutor.wait *)

Wait(a, x) ==
    /\ CanCall(a) /\ CanAccess(a, x)
    /\ \/ /\ Finished(x)
          /\ consumed' = consumed \cup {x}
          /\ UNCHANGED call
       \/ /\ ~Finished(x) /\ x \in handles
          /\ call' = [call EXCEPT ![a] = [Idle EXCEPT !.op = "wait", !.arg = x]]
          /\ UNCHANGED consumed
    /\ UNCHANGED <<records, handles, finishOrder, task, cancel, stopping, draining, stops>>

\* Mutant: wait has no timeout.
WaitReturnsWhenOver(a) ==
    /\ call[a].op = "wait" /\ (cancel[a] \/ ~Live(call[a].arg))
    /\ consumed' = IF Finished(call[a].arg) THEN consumed \cup {call[a].arg} ELSE consumed
    /\ call' = [call EXCEPT ![a] = Idle]
    /\ cancel' = [cancel EXCEPT ![a] = FALSE]
    /\ UNCHANGED <<records, handles, finishOrder, task, stopping, draining, stops>>

\* The task is over, or the timeout passed, or the CancelledError came: wait
\* returns what there is in all three cases, and the caller goes on.
WaitReturns(a) ==
    /\ call[a].op = "wait"
    /\ consumed' = IF Finished(call[a].arg) THEN consumed \cup {call[a].arg} ELSE consumed
    /\ call' = [call EXCEPT ![a] = Idle]
    /\ cancel' = [cancel EXCEPT ![a] = FALSE]
    /\ UNCHANGED <<records, handles, finishOrder, task, stopping, draining, stops>>

-----------------------------------------------------------------------------
(* SubagentExecutor.kill *)

Killed(x) == [Idle EXCEPT !.op = "killed", !.arg = x]

Kill(a, x, cascade) ==
    LET kids == IF cascade THEN {c \in Children(x) : Live(c)} ELSE {}
        hits == Reach(IF kids # {} THEN kids ELSE {x})
    IN  /\ CanCall(a) /\ CanAccess(a, x) /\ x \in handles
        /\ task' = [Hit(task, hits) EXCEPT ![x].cascade = cascade]
        /\ cancel' = Marked(hits)
        /\ call' = [call EXCEPT ![a] =
              IF kids # {} THEN [Idle EXCEPT !.op = "gather", !.on = kids, !.arg = x]
                           ELSE Killed(x)]
        /\ UNCHANGED <<records, handles, consumed, finishOrder, stopping, draining, stops>>

\* The children are over: now the task itself.
KillGathered(a) ==
    LET x == call[a].arg  hits == Reach({x}) IN
    /\ call[a].op = "gather" /\ x # None /\ Gathered(a) = {} /\ ~cancel[a]
    /\ task' = Hit(task, hits)
    /\ cancel' = Marked(hits)
    /\ call' = [call EXCEPT ![a] = Killed(x)]
    /\ UNCHANGED <<records, handles, consumed, finishOrder, stopping, draining, stops>>

\* The task is over, two seconds passed, or the CancelledError came and is
\* suppressed.
KillReturns(a) ==
    /\ call[a].op = "killed"
    /\ call' = [call EXCEPT ![a] = Idle]
    /\ cancel' = [cancel EXCEPT ![a] = FALSE]
    /\ UNCHANGED <<records, handles, consumed, finishOrder, task, stopping, draining,
                   stops>>

\* A root turn gets its CancelledError where nothing swallows it.  Until the stop
\* returns no other turn of its session can run: that is cancel[s] without a call.
RootTurnEnds(s) ==
    /\ cancel[s]
    /\ call[s].op \in {"spawn", "gather"} /\ Gathered(s) = {}
    /\ call' = [call EXCEPT ![s] = Idle]
    /\ cancel' = [cancel EXCEPT ![s] = (stopping = s)]
    /\ UNCHANGED <<records, handles, consumed, finishOrder, task, stopping, draining,
                   stops>>

-----------------------------------------------------------------------------
(* _execute, step by step *)

Start(t) ==
    /\ task[t].pc = "created" /\ ~cancel[t]
    /\ task' = [task EXCEPT ![t].status = "running",
                            ![t].pc = IF task[t].wt = "wanted" THEN "worktree" ELSE "loop"]
    /\ UNCHANGED <<records, handles, consumed, finishOrder, call, cancel, stopping,
                   draining, stops>>

\* git worktree add succeeded, or failed and the shared workspace is used.
WorktreeReady(t) ==
    /\ task[t].pc = "worktree" /\ ~cancel[t]
    /\ \E wt \in {"made", "no"} :
          task' = [task EXCEPT ![t].pc = "loop", ![t].wt = wt]
    /\ UNCHANGED <<records, handles, consumed, finishOrder, call, cancel, stopping,
                   draining, stops>>

\* Cancelled before its first step, or before the try of _execute.
CancelledEarly(t) ==
    /\ task[t].pc \in {"created", "worktree"} /\ cancel[t]
    /\ Abort(t)

\* run_tool_loop returns, or raises.
LoopEnds(t) ==
    /\ task[t].pc = "loop" /\ call[t].op = "none" /\ ~cancel[t]
    /\ Finish(t, "completed")

\* asyncio.wait_for(timeout_s): the timer cancels its own task.
Timeout(t) ==
    /\ task[t].pc = "loop" /\ ~task[t].fired
    /\ LET below == Reach(Gathered(t)) IN
       /\ task' = [Hit(task, below) EXCEPT ![t].fired = TRUE]
       /\ cancel' = [Marked(below) EXCEPT ![t] = TRUE]
    /\ UNCHANGED <<records, handles, consumed, finishOrder, call, stopping, draining, stops>>

\* Mutant: the cascade of the finally is inside the try, so that a second cancel
\* records a second end.
LoopCancelledTwice(t) ==
    /\ task[t].pc \in {"loop", "reaping"} /\ cancel[t]
    /\ call[t].op \in {"none", "spawn", "gather"} /\ Gathered(t) = {}
    /\ Finish(t, IF task[t].fired /\ ~task[t].hit THEN "timed_out" ELSE "cancelled")

\* A CancelledError leaves the loop.  wait_for turns it into TimeoutError only if
\* nobody else had cancelled the task.
LoopCancelled(t) ==
    /\ task[t].pc = "loop" /\ cancel[t]
    /\ call[t].op \in {"none", "spawn", "gather"} /\ Gathered(t) = {}
    /\ Finish(t, IF task[t].fired /\ ~task[t].hit THEN "timed_out" ELSE "cancelled")

\* The gathered children are over.
Reaped(t) ==
    /\ task[t].pc = "reaping" /\ Gathered(t) = {}
    /\ IF cancel[t]
       THEN Abort(t)
       ELSE /\ AfterReaping(t, task, finishOrder)
            /\ call' = [call EXCEPT ![t] = Idle]
            /\ UNCHANGED <<finishOrder, cancel, stopping, draining, stops>>

CleanedUp(t) ==
    /\ task[t].pc = "cleanup"
    /\ IF cancel[t]
       THEN Abort(t)
       ELSE /\ Retire(t, task, finishOrder)
            /\ UNCHANGED <<finishOrder, call, cancel, stopping, draining, stops>>

-----------------------------------------------------------------------------
(* cancel_by_session, called by AgentLoop._handle_stop *)

\* /stop: cancel_group cancels the root turn, then the session's running tasks
\* are cancelled and gathered under its lock.  A lock that has waiters is theirs
\* first.  run handles one message at a time.
Stop(s) ==
    LET hit  == {t \in Running : task[t].session = s /\ Live(t)}
        hits == Reach(hit \cup Gathered(s))
    IN  /\ stopping = None /\ stops < MaxStops
        /\ \A a \in Agents : call[a].op = "spawn" => SessionOf(call[a].arg) # s
        /\ stops' = stops + 1
        /\ task' = Hit(task, hits)
        /\ cancel' = [Marked(hits) EXCEPT ![s] = (hit # {} \/ call[s].op # "none")]
        /\ stopping' = IF hit # {} THEN s ELSE None
        /\ draining' = hit
        /\ UNCHANGED <<records, handles, consumed, finishOrder, call>>

\* All of them are over.
StopReturns ==
    /\ stopping # None
    /\ \A t \in draining : ~Live(t)
    /\ stopping' = None
    /\ draining' = {}
    /\ cancel' = IF call[stopping].op = "none" THEN [cancel EXCEPT ![stopping] = FALSE]
                                               ELSE cancel
    /\ UNCHANGED <<records, handles, consumed, finishOrder, task, call, stops>>

-----------------------------------------------------------------------------
\* What an agent's model may ask for.
ToolCall(a) ==
    \/ Spawn(a)
    \/ \E x \in TaskIds :
          SendMessage(a, x) \/ Wait(a, x) \/ \E cascade \in Cascades : Kill(a, x, cascade)

CallReturns(a) == SpawnResumes(a) \/ WaitReturns(a) \/ KillGathered(a) \/ KillReturns(a)

TaskStep(t) ==
    \/ Start(t) \/ WorktreeReady(t) \/ CancelledEarly(t) \/ LoopEnds(t)
    \/ LoopCancelled(t) \/ Reaped(t) \/ CleanedUp(t)

Next ==
    \/ \E a \in Agents : ToolCall(a) \/ CallReturns(a)
    \/ \E t \in TaskIds : TaskStep(t) \/ Timeout(t)
    \/ \E s \in Sessions : Stop(s) \/ RootTurnEnds(s)
    \/ StopReturns

Spec == Init /\ [][Next]_vars

\* The event loop runs every ready task; wait and kill return by themselves; a
\* tool loop has a bounded number of iterations, so it ends if it is not cancelled,
\* and its timer fires.  Models and users owe nothing.
Fairness ==
    /\ \A a \in Agents : WF_vars(CallReturns(a))
    /\ \A t \in TaskIds : WF_vars(TaskStep(t)) /\ SF_vars(LoopEnds(t)) /\ WF_vars(Timeout(t))
    /\ \A s \in Sessions : WF_vars(RootTurnEnds(s))
    /\ WF_vars(StopReturns)

FairSpec == Spec /\ Fairness

-----------------------------------------------------------------------------
(* Properties *)

Executing(t) == task[t].pc \in {"created", "worktree", "loop"}

\* The policy limits bound what really executes, and not only the records that are
\* counted: whatever was killed, timed out, evicted or continued by send_message, no
\* more than max_concurrent tasks execute, nor more than max_children_per_agent below
\* one task (_spawn_policy_error).
WithinLimits ==
    /\ Cardinality({t \in TaskIds : Executing(t)}) <= MaxConcurrent
    /\ \A p \in TaskIds :
          Cardinality({t \in TaskIds : Executing(t) /\ task[t].parent = p}) <= MaxChildren

\* The tasks form a tree below the root turns, also when send_message continues a task
\* whose parent is long over: one level below its parent, in its parent's session.
\* Depth limit, access checks and /stop rely on it.
TreeShape ==
    \A t \in TaskIds : task[t].pc # "none" =>
        /\ task[t].session = SessionOf(task[t].parent)
        /\ task[t].depth = DepthOf(task[t].parent) + 1

\* A task that is over leaves no child executing, unless kill said cascade=False:
\* whether it returned, failed, timed out or was cancelled, and however often it was
\* cancelled meanwhile (the finally of _execute).  What send_message starts later in
\* its name is not covered: nothing in the code covers it.
NoLiveOrphans ==
    \A p, t \in TaskIds :
        task[p].pc = "over" /\ ~task[p].detached /\ task[t].parent = p /\ Executing(t)
            => task[t].resumed

\* A record is evicted only when its task is finished and its result was handed out (a
\* top-level result is announced by the step that evicts), never so that fewer than
\* keep_completed finished ones are left, and never before an older one that might as
\* well go (_gc_results).
UnseenKept ==
    [][LET seen == consumed' \cup consumed
                      \cup {t \in TaskIds : Live(t) /\ task'[t].pc = "over"
                                               /\ task[t].parent \in Sessions}
           kept == {u \in records' : task'[u].status \in Terminal}
       IN  \A t \in records \ records' :
              /\ task'[t].status \in Terminal /\ t \in seen
              /\ Cardinality(kept) >= KeepCompleted
              /\ \A u \in kept \cap seen : Older(finishOrder', t, u)]_vars

\* A terminal status is final: neither a late cancel, nor the timer, nor a kill that
\* races with the end changes how a task ended, or records a second end.
FinishedOnce ==
    [][\A t \in TaskIds : Finished(t) =>
          /\ task'[t].status = task[t].status
          /\ Cardinality({i \in DOMAIN finishOrder' : finishOrder'[i] = t}) = 1]_vars

\* When cancel_by_session returns, no task of the session executes: not one that was
\* spawned during the drain, nor one that had swallowed its CancelledError.
StopDrains ==
    [][stopping # None /\ stopping' = None =>
          \A t \in TaskIds : task[t].session = stopping => ~Executing(t)]_vars

\* A task, its end and the results that are kept, as TaskPool sees them.
StageOf(t)   == IF task[t].pc = "none" THEN "unused"
                ELSE IF Executing(t) THEN "executing" ELSE "over"
OutcomeOf(t) == IF Finished(t) THEN task[t].status ELSE None
Results      == {t \in records : Finished(t)}

\* The executor implements TaskPool: limits that bound what executes, one end with one
\* outcome for a task, and results that are kept, whatever asyncio does in between.
Pool == INSTANCE TaskPool WITH
    Tasks <- TaskIds, Roots <- Sessions, Nothing <- None, Outcomes <- Terminal,
    Most <- MaxConcurrent, MostBelow <- MaxChildren, Keep <- KeepCompleted,
    stage <- [t \in TaskIds |-> StageOf(t)], parent <- [t \in TaskIds |-> task[t].parent],
    outcome <- [t \in TaskIds |-> OutcomeOf(t)], results <- Results

ImplementsPool == Pool!PSpec

\* Every task comes to its end, whatever its model calls: no wait, kill or cascade
\* waits forever.
AllFinish == \A t \in TaskIds : Live(t) ~> task[t].pc = "over"

-----------------------------------------------------------------------------
(* What the repository says and the code does not do *)

\* "Cancel all tasks for a session": once cancel_by_session has returned, each task it
\* cancelled is terminal.
StoppedAreTerminal ==
    [][stopping # None /\ stopping' = None => \A t \in draining : Finished(t)]_vars

\* A subagent whose timeout fired is recorded as timed out, or as cancelled when
\* somebody cancelled it too.
TimeoutRecorded ==
    [][\A t \in TaskIds : task[t].fired /\ task'[t].status \in Terminal =>
          task'[t].status \in {"timed_out", "cancelled"}]_vars

\* Cancelling a session comes to its end.
StopEnds == stopping # None ~> stopping = None
=============================================================================
