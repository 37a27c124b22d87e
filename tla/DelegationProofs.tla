-------------------------- MODULE DelegationProofs --------------------------
(***************************************************************************)
(* Proofs about Delegation, for any finite set of tasks, any number of     *)
(* sessions and every policy.                                              *)
(*                                                                         *)
(* Almost every step creates no task: it may only take tasks out of what   *)
(* executes and records out of what is counted (NoNew).  What remains is   *)
(* the creation of a task, and who waits for whom when a parent ends.      *)
(***************************************************************************)
EXTENDS Delegation, FiniteSetTheorems, WellFoundedInduction, TLAPS

Used(t) == task[t].pc # "none"

\* What executes is recorded, so that the limits count it.
Kept ==
    \A t \in TaskIds :
        /\ Executing(t) => t \in records /\ ~Finished(t)
        /\ t \in records \/ Finished(t) => Used(t)

Parents ==
    \A t \in TaskIds : Used(t) /\ task[t].parent \in TaskIds => Used(task[t].parent)

\* A spawn that waits for the session's lock will create a task in its place in
\* the tree; and a task that left its loop has no call but the gather of its
\* children.
Calls ==
    \A a \in Agents :
        /\ call[a].op = "spawn" =>
              /\ call[a].arg \in Agents
              /\ call[a].arg \in TaskIds => Used(call[a].arg)
              /\ call[a].depth = DepthOf(call[a].arg) + 1
              /\ call[a].resume \/ call[a].arg = a
        /\ call[a].op = "wait" => call[a].arg \in TaskIds
        /\ a \in TaskIds /\ call[a].op # "none" => task[a].pc \in {"loop", "reaping"}
        /\ a \in TaskIds /\ task[a].pc = "reaping" => call[a].op = "gather" /\ call[a].arg = None

Limits ==
    /\ Cardinality(Running) <= MaxConcurrent
    /\ \A p \in TaskIds : Cardinality(Children(p)) <= MaxChildren

\* A task that executes has a parent in its loop, or one that gathers it, or one
\* that was told not to cascade; unless send_message made it.
Cascaded ==
    \A p, t \in TaskIds :
        Executing(t) /\ task[t].parent = p /\ ~task[t].resumed =>
            \/ task[p].pc = "loop"
            \/ task[p].pc = "reaping" /\ t \in call[p].on
            \/ task[p].pc \in {"cleanup", "over"} /\ task[p].detached

\* While a session is stopped, what executes in it is being drained.
Drains ==
    stopping # None =>
        \A t \in TaskIds : Executing(t) /\ task[t].session = stopping => t \in draining

\* The order of the ends has every task that ended, and each of them once.
NoTwice(order) == \A i, j \in 1 .. Len(order) : order[i] = order[j] => i = j
Ordered ==
    /\ NoTwice(finishOrder)
    /\ \A t \in TaskIds :
          Finished(t) <=> \E i \in 1 .. Len(finishOrder) : finishOrder[i] = t

DelegationInv ==
    TypeOK /\ Kept /\ TreeShape /\ Parents /\ Calls /\ Limits /\ Cascaded /\ Drains
-----------------------------------------------------------------------------
(* Records of tasks *)

\* The fields of a task.
LEMMA TaskFields ==
    ASSUME NEW r \in TaskState
    PROVE  /\ r.pc \in {"none", "created", "worktree", "loop", "reaping", "cleanup", "over"}
           /\ r.status \in {"pending", "running"} \cup Terminal
           /\ r.parent \in Agents \cup {None} /\ r.session \in Sessions \cup {None}
           /\ r.depth \in Nat /\ r.wt \in {"no", "wanted", "made"}
           /\ r.cascade \in BOOLEAN /\ r.fired \in BOOLEAN /\ r.hit \in BOOLEAN
           /\ r.resumed \in BOOLEAN /\ r.detached \in BOOLEAN
BY DEF TaskState

\* Two tasks that differ in nothing a step of others can change.
Alike(r, s) ==
    /\ r.pc = s.pc /\ r.status = s.status /\ r.parent = s.parent
    /\ r.session = s.session /\ r.depth = s.depth /\ r.resumed = s.resumed
    /\ r.detached = s.detached

\* Cancelling tasks marks those in their loop, and changes nothing else of them.
LEMMA HitFacts ==
    ASSUME NEW tk \in [TaskIds -> TaskState], NEW hits
    PROVE  /\ Hit(tk, hits) \in [TaskIds -> TaskState]
           /\ \A t \in TaskIds : Alike(Hit(tk, hits)[t], tk[t])
                                 /\ Hit(tk, hits)[t].wt = tk[t].wt
                                 /\ Hit(tk, hits)[t].cascade = tk[t].cascade
                                 /\ Hit(tk, hits)[t].fired = tk[t].fired
<1>1. ASSUME NEW t \in TaskIds
      PROVE  /\ [tk[t] EXCEPT !.hit = TRUE] \in TaskState
             /\ Alike([tk[t] EXCEPT !.hit = TRUE], tk[t])
             /\ [tk[t] EXCEPT !.hit = TRUE].wt = tk[t].wt
             /\ [tk[t] EXCEPT !.hit = TRUE].cascade = tk[t].cascade
             /\ [tk[t] EXCEPT !.hit = TRUE].fired = tk[t].fired
    BY DEF TaskState, Alike
<1>2. \A t \in TaskIds : tk[t] \in TaskState
    OBVIOUS
<1> QED
    BY <1>1, <1>2 DEF Hit, Alike

\* A cancel is a flag.
LEMMA MarkedFacts ==
    ASSUME TypeOK, NEW hits
    PROVE  Marked(hits) \in [Agents -> BOOLEAN]
BY DEF TypeOK, Marked
-----------------------------------------------------------------------------
(* The end of a task *)

\* What the end of a task does to the tasks: it does not execute any more, and
\* a record that goes is that of a finished task.
Ended(t) ==
    /\ task' \in [TaskIds -> TaskState]
    /\ task'[t].pc \in {"reaping", "cleanup", "over"}
    /\ task'[t].status \in {task[t].status} \cup Terminal
    /\ Finished(t) => task'[t].status \in Terminal
    /\ task'[t].parent = task[t].parent /\ task'[t].session = task[t].session
    /\ task'[t].depth = task[t].depth /\ task'[t].resumed = task[t].resumed
    /\ \A u \in TaskIds \ {t} : Alike(task'[u], task[u])
    /\ records' \subseteq records /\ handles' \subseteq handles /\ consumed' \subseteq TaskIds
    /\ \A u \in records : u \notin records' => task'[u].status \in Terminal

\* The last lines of the finally.
LEMMA RetireFacts ==
    ASSUME TypeOK, NEW t \in TaskIds, NEW tk \in [TaskIds -> TaskState], NEW order,
           Retire(t, tk, order)
    PROVE  /\ task' \in [TaskIds -> TaskState]
           /\ task' = [tk EXCEPT ![t].pc = "over", ![t].wt = "no"]
           /\ task'[t].pc = "over" /\ Alike([task'[t] EXCEPT !.pc = tk[t].pc], tk[t])
           /\ \A u \in TaskIds \ {t} : task'[u] = tk[u]
           /\ records' \subseteq records /\ handles' \subseteq handles
           /\ consumed' \subseteq TaskIds
           /\ \A u \in records : u \notin records' => task'[u].status \in Terminal
<1>1. /\ task' = [tk EXCEPT ![t].pc = "over", ![t].wt = "no"]
      /\ handles' = handles \ {t}
      /\ \E seen \in SUBSET (consumed \cup {t}) : \E gone \in SUBSET records :
            /\ \A u \in gone : tk[u].status \in Terminal
            /\ records' = records \ gone /\ consumed' = seen \ gone
  <2> DEFINE seen == IF tk[t].parent \in Sessions THEN consumed \cup {t} ELSE consumed
             gone == Evicted(tk, seen, order)
  <2>1. /\ handles' = handles \ {t} /\ records' = records \ gone
        /\ consumed' = seen \ gone
        /\ task' = [tk EXCEPT ![t].pc = "over", ![t].wt = "no"]
      BY DEF Retire
  <2>2. gone \subseteq records /\ \A u \in gone : tk[u].status \in Terminal
      BY DEF Evicted
  <2>3. seen \subseteq consumed \cup {t}
      OBVIOUS
  <2> HIDE DEF seen, gone
  <2> QED
      BY <2>1, <2>2, <2>3
<1>2. /\ [tk[t] EXCEPT !.pc = "over", !.wt = "no"] \in TaskState
      /\ task'[t] = [tk[t] EXCEPT !.pc = "over", !.wt = "no"]
      /\ \A u \in TaskIds \ {t} : task'[u] = tk[u]
  <2>1. tk[t] \in TaskState
      OBVIOUS
  <2>2. [tk[t] EXCEPT !.pc = "over", !.wt = "no"] \in TaskState
      BY <2>1 DEF TaskState
  <2> QED
      BY <1>1, <2>1, <2>2
<1>3. task' \in [TaskIds -> TaskState]
    BY <1>1, <1>2
<1>4. task'[t].pc = "over" /\ task'[t].status = tk[t].status
      /\ Alike([task'[t] EXCEPT !.pc = tk[t].pc], tk[t])
    BY <1>2 DEF Alike, TaskState
<1>5. \A u \in TaskIds : task'[u].status = tk[u].status
    BY <1>2, <1>4
<1>6. records \subseteq TaskIds /\ consumed \subseteq TaskIds
    BY DEF TypeOK
<1> QED
    BY <1>1, <1>2, <1>3, <1>4, <1>5, <1>6

\* After the children.
LEMMA AfterReapingFacts ==
    ASSUME TypeOK, NEW t \in TaskIds, NEW tk \in [TaskIds -> TaskState], NEW order,
           AfterReaping(t, tk, order)
    PROVE  /\ task' \in [TaskIds -> TaskState]
           /\ task'[t].pc \in {"cleanup", "over"}
           /\ Alike([task'[t] EXCEPT !.pc = tk[t].pc], tk[t])
           /\ \A u \in TaskIds \ {t} : task'[u] = tk[u]
           /\ records' \subseteq records /\ handles' \subseteq handles
           /\ consumed' \subseteq TaskIds
           /\ \A u \in records : u \notin records' => task'[u].status \in Terminal
<1>1. CASE Retire(t, tk, order)
    BY <1>1, RetireFacts
<1>2. CASE task' = [tk EXCEPT ![t].pc = "cleanup"] /\ UNCHANGED <<records, handles, consumed>>
    <2>1. /\ [tk[t] EXCEPT !.pc = "cleanup"] \in TaskState
          /\ task'[t] = [tk[t] EXCEPT !.pc = "cleanup"]
          /\ \A u \in TaskIds \ {t} : task'[u] = tk[u]
        BY <1>2 DEF TaskState
    <2>2. task' \in [TaskIds -> TaskState]
        BY <1>2, <2>1
    <2>3. task'[t].pc = "cleanup" /\ Alike([task'[t] EXCEPT !.pc = tk[t].pc], tk[t])
        BY <2>1 DEF Alike, TaskState
    <2> QED
        BY <1>2, <2>1, <2>2, <2>3 DEF TypeOK
<1> QED
    BY <1>1, <1>2 DEF AfterReaping

\* Alike, but for the pc.
LEMMA AlikeButPc ==
    ASSUME NEW r \in TaskState, NEW s \in TaskState, Alike([r EXCEPT !.pc = s.pc], s)
    PROVE  /\ r.status = s.status /\ r.parent = s.parent /\ r.session = s.session
           /\ r.depth = s.depth /\ r.resumed = s.resumed /\ r.detached = s.detached
BY DEF Alike, TaskState

\* A task that gives up without the rest of _execute.
LEMMA AbortFacts ==
    ASSUME TypeOK, NEW t \in TaskIds, Abort(t)
    PROVE  /\ Ended(t) /\ task'[t].pc = "over" /\ task'[t].detached = task[t].detached
           /\ call' = [call EXCEPT ![t] = Idle] /\ cancel' \in [Agents -> BOOLEAN]
           /\ UNCHANGED <<finishOrder, stopping, draining, stops>>
<1>1. /\ [task[t] EXCEPT !.pc = "over", !.wt = "no"] \in TaskState
      /\ task'[t] = [task[t] EXCEPT !.pc = "over", !.wt = "no"]
      /\ \A u \in TaskIds \ {t} : task'[u] = task[u]
  <2>1. task \in [TaskIds -> TaskState] /\ task[t] \in TaskState
      BY DEF TypeOK
  <2>2. [task[t] EXCEPT !.pc = "over", !.wt = "no"] \in TaskState
      BY <2>1 DEF TaskState
  <2>3. task' = [task EXCEPT ![t].pc = "over", ![t].wt = "no"]
      BY DEF Abort
  <2> QED
      BY <2>1, <2>2, <2>3
<1>2. task' \in [TaskIds -> TaskState]
    BY <1>1 DEF Abort, TypeOK
<1>3. /\ task'[t].pc = "over" /\ task'[t].status = task[t].status
      /\ task'[t].parent = task[t].parent /\ task'[t].session = task[t].session
      /\ task'[t].depth = task[t].depth /\ task'[t].resumed = task[t].resumed
      /\ task'[t].detached = task[t].detached
    BY <1>1 DEF TypeOK, TaskState
<1>4. cancel' \in [Agents -> BOOLEAN] /\ consumed' \subseteq TaskIds
    BY DEF Abort, TypeOK
<1> QED
    BY <1>1, <1>2, <1>3, <1>4 DEF Abort, Ended, Alike, Finished

\* The finally up to its first suspension: a task that cascades, and has children
\* that run, gathers them all.
LEMMA FinishFacts ==
    ASSUME TypeOK, NEW t \in TaskIds, NEW s \in Terminal, Finish(t, s)
    PROVE  /\ Ended(t) /\ cancel' \in [Agents -> BOOLEAN] /\ finishOrder' \in Seq(TaskIds)
           /\ UNCHANGED <<stopping, draining, stops>>
           /\ finishOrder' = Append(finishOrder, t) /\ task'[t].status = s
           /\ \/ /\ task'[t].pc = "reaping"
                 /\ call' = [call EXCEPT ![t] = [Idle EXCEPT !.op = "gather",
                                                   !.on = {c \in Children(t) : Live(c)}]]
              \/ /\ task'[t].pc \in {"cleanup", "over"} /\ call' = [call EXCEPT ![t] = Idle]
                 /\ task'[t].detached \/ {c \in Children(t) : Live(c)} = {}
<1> DEFINE kids  == IF task[t].cascade THEN {c \in Children(t) : Live(c)} ELSE {}
           hits  == Reach(kids)
           order == Append(finishOrder, t)
           tk    == [task EXCEPT ![t].status = s, ![t].fired = FALSE, ![t].hit = FALSE,
                                 ![t].detached = ~task[t].cascade]
<1>1. /\ finishOrder' = order
      /\ cancel' = [Marked(hits) EXCEPT ![t] = FALSE]
      /\ \/ /\ kids # {} /\ task' = [Hit(tk, hits) EXCEPT ![t].pc = "reaping"]
            /\ call' = [call EXCEPT ![t] = [Idle EXCEPT !.op = "gather", !.on = kids]]
            /\ UNCHANGED <<records, handles, consumed>>
         \/ /\ kids = {} /\ AfterReaping(t, tk, order) /\ call' = [call EXCEPT ![t] = Idle]
      /\ UNCHANGED <<stopping, draining, stops>>
    BY DEF Finish
<1>2. /\ tk \in [TaskIds -> TaskState]
      /\ tk[t].status = s /\ tk[t].detached = ~task[t].cascade
      /\ tk[t].parent = task[t].parent /\ tk[t].session = task[t].session
      /\ tk[t].depth = task[t].depth /\ tk[t].resumed = task[t].resumed
      /\ \A u \in TaskIds \ {t} : tk[u] = task[u]
  <2>1. task \in [TaskIds -> TaskState] /\ task[t] \in TaskState
      BY DEF TypeOK
  <2>2. task[t].cascade \in BOOLEAN
      BY <2>1, TaskFields
  <2>3. [task[t] EXCEPT !.status = s, !.fired = FALSE, !.hit = FALSE,
                        !.detached = ~task[t].cascade] \in TaskState
      BY <2>1, <2>2 DEF TaskState
  <2>4. tk[t] = [task[t] EXCEPT !.status = s, !.fired = FALSE, !.hit = FALSE,
                                !.detached = ~task[t].cascade]
        /\ \A u \in TaskIds \ {t} : tk[u] = task[u]
      BY <2>1 DEF TaskState
  <2>5. tk \in [TaskIds -> TaskState]
      BY <2>1, <2>3, <2>4
  <2> QED
      BY <2>1, <2>4, <2>5 DEF TaskState
<1>3. /\ finishOrder' \in Seq(TaskIds) /\ cancel' \in [Agents -> BOOLEAN]
      /\ finishOrder' = Append(finishOrder, t)
  <2>1. finishOrder' \in Seq(TaskIds) /\ finishOrder' = Append(finishOrder, t)
      BY <1>1 DEF TypeOK
  <2>2. \E m \in [Agents -> BOOLEAN] : cancel' = [m EXCEPT ![t] = FALSE]
      BY <1>1, MarkedFacts
  <2> QED
      BY <2>1, <2>2
<1> HIDE DEF kids, hits, order, tk
<1>4. CASE kids # {}
  <2>1. /\ task' = [Hit(tk, hits) EXCEPT ![t].pc = "reaping"]
        /\ call' = [call EXCEPT ![t] = [Idle EXCEPT !.op = "gather", !.on = kids]]
        /\ UNCHANGED <<records, handles, consumed>>
      BY <1>1, <1>4
  <2>2. kids = {c \in Children(t) : Live(c)}
      BY <1>4 DEF kids
  <2>3. /\ Hit(tk, hits) \in [TaskIds -> TaskState]
        /\ \A u \in TaskIds : Alike(Hit(tk, hits)[u], tk[u])
      BY <1>2, HitFacts
  <2>4. /\ [Hit(tk, hits)[t] EXCEPT !.pc = "reaping"] \in TaskState
        /\ task'[t] = [Hit(tk, hits)[t] EXCEPT !.pc = "reaping"]
        /\ \A u \in TaskIds \ {t} : task'[u] = Hit(tk, hits)[u]
      BY <2>1, <2>3 DEF TaskState
  <2>5. task' \in [TaskIds -> TaskState]
      BY <2>1, <2>3, <2>4
  <2>6. task'[t].pc = "reaping" /\ Alike([task'[t] EXCEPT !.pc = tk[t].pc], tk[t])
    <3>1. /\ Hit(tk, hits)[t] \in TaskState /\ Alike(Hit(tk, hits)[t], tk[t])
          /\ tk[t] \in TaskState
        BY <1>2, <2>3
    <3> QED
        BY <2>4, <3>1 DEF Alike, TaskState
  <2>7. /\ task'[t].status = s /\ task'[t].parent = task[t].parent
        /\ task'[t].session = task[t].session /\ task'[t].depth = task[t].depth
        /\ task'[t].resumed = task[t].resumed
    <3>1. task'[t] \in TaskState /\ tk[t] \in TaskState
        BY <1>2, <2>5
    <3> QED
        BY <1>2, <2>6, <3>1, AlikeButPc
  <2>8. \A u \in TaskIds \ {t} : Alike(task'[u], task[u])
      BY <1>2, <2>3, <2>4
  <2>9. consumed' \subseteq TaskIds
      BY <2>1 DEF TypeOK
  <2>10. Ended(t)
      BY <2>1, <2>5, <2>6, <2>7, <2>8, <2>9 DEF Ended
  <2> QED
      BY <1>1, <1>3, <2>1, <2>2, <2>6, <2>7, <2>10
<1>5. CASE kids = {}
  <2>1. AfterReaping(t, tk, order) /\ call' = [call EXCEPT ![t] = Idle]
      BY <1>1, <1>5
  <2>2. /\ task' \in [TaskIds -> TaskState] /\ task'[t].pc \in {"cleanup", "over"}
        /\ Alike([task'[t] EXCEPT !.pc = tk[t].pc], tk[t])
        /\ \A u \in TaskIds \ {t} : task'[u] = tk[u]
        /\ records' \subseteq records /\ handles' \subseteq handles /\ consumed' \subseteq TaskIds
        /\ \A u \in records : u \notin records' => task'[u].status \in Terminal
      BY <1>2, <2>1, AfterReapingFacts
  <2>3. /\ task'[t].status = s /\ task'[t].parent = task[t].parent
        /\ task'[t].session = task[t].session /\ task'[t].depth = task[t].depth
        /\ task'[t].resumed = task[t].resumed /\ task'[t].detached = ~task[t].cascade
    <3>1. task'[t] \in TaskState /\ tk[t] \in TaskState
        BY <1>2, <2>2
    <3> QED
        BY <1>2, <2>2, <3>1, AlikeButPc
  <2>4. \A u \in TaskIds \ {t} : Alike(task'[u], task[u])
      BY <1>2, <2>2 DEF Alike
  <2>5. Ended(t)
      BY <2>2, <2>3, <2>4 DEF Ended
  <2>6. task'[t].detached \/ {c \in Children(t) : Live(c)} = {}
      BY <1>5, <2>3 DEF kids
  <2> QED
      BY <1>1, <1>3, <2>1, <2>2, <2>3, <2>5, <2>6
<1> QED
    BY <1>4, <1>5
-----------------------------------------------------------------------------
(* Kinds of steps *)

\* Calls, cancels, timers and stops: no task moves.
TalkStep ==
    \/ \E a \in Agents, x \in TaskIds : Wait(a, x) \/ \E cascade \in Cascades : Kill(a, x, cascade)
    \/ \E a \in Agents : WaitReturns(a) \/ KillGathered(a) \/ KillReturns(a)
    \/ \E t \in TaskIds : Timeout(t)
    \/ \E s \in Sessions : Stop(s) \/ RootTurnEnds(s)
    \/ StopReturns
    \/ UNCHANGED vars

\* A task moves on towards its loop.
MoveStep == \E t \in TaskIds : Start(t) \/ WorktreeReady(t)

\* A task leaves its loop, or the finally behind it.
EndStep(t) ==
    CancelledEarly(t) \/ LoopEnds(t) \/ LoopCancelled(t) \/ Reaped(t) \/ CleanedUp(t)

SpawnStep ==
    \E a \in Agents :
        Spawn(a) \/ SpawnResumes(a) \/ \E x \in TaskIds : SendMessage(a, x)

\* There are no others.
LEMMA StepKinds ==
    ASSUME [Next]_vars
    PROVE  TalkStep \/ MoveStep \/ (\E t \in TaskIds : EndStep(t)) \/ SpawnStep
BY DEF Next, ToolCall, CallReturns, TaskStep, TalkStep, MoveStep, EndStep, SpawnStep

\* A step that moves no task leaves the tree and the limits alone.
LEMMA TalkFacts ==
    ASSUME TypeOK, Calls, TalkStep
    PROVE  /\ task' \in [TaskIds -> TaskState] /\ cancel' \in [Agents -> BOOLEAN]
           /\ \A u \in TaskIds : Alike(task'[u], task[u])
           /\ UNCHANGED <<records, handles, finishOrder>> /\ consumed' \subseteq TaskIds
<1>a. /\ task \in [TaskIds -> TaskState] /\ cancel \in [Agents -> BOOLEAN]
      /\ call \in [Agents -> CallState] /\ consumed \subseteq TaskIds
      /\ TaskIds \subseteq Agents /\ Sessions \subseteq Agents
    BY DEF TypeOK, Agents
<1>b. \A u \in TaskIds : Alike(task[u], task[u])
    BY DEF Alike
<1>c. \A hits : /\ Hit(task, hits) \in [TaskIds -> TaskState]
                /\ \A u \in TaskIds : Alike(Hit(task, hits)[u], task[u])
                /\ Marked(hits) \in [Agents -> BOOLEAN]
    BY <1>a, HitFacts, MarkedFacts
<1> DEFINE Goal == /\ task' \in [TaskIds -> TaskState] /\ cancel' \in [Agents -> BOOLEAN]
                   /\ \A u \in TaskIds : Alike(task'[u], task[u])
                   /\ UNCHANGED <<records, handles, finishOrder>> /\ consumed' \subseteq TaskIds
<1>1. ASSUME NEW a \in Agents, NEW x \in TaskIds, Wait(a, x)
      PROVE  Goal
    BY <1>1, <1>a, <1>b DEF Wait
<1>2. ASSUME NEW a \in Agents, WaitReturns(a)
      PROVE  Goal
  <2>1. call[a].arg \in TaskIds
      BY <1>2 DEF WaitReturns, Calls
  <2> QED
      BY <1>2, <2>1, <1>a, <1>b DEF WaitReturns
<1>3. ASSUME NEW a \in Agents, NEW x \in TaskIds, NEW cascade \in Cascades, Kill(a, x, cascade)
      PROVE  Goal
  <2>1. PICK hits : /\ task' = [Hit(task, hits) EXCEPT ![x].cascade = cascade]
                    /\ cancel' = Marked(hits)
                    /\ UNCHANGED <<records, handles, consumed, finishOrder>>
      BY <1>3 DEF Kill
  <2>2. cascade \in BOOLEAN
      BY PolicyAssumption
  <2>3. /\ Hit(task, hits)[x] \in TaskState
        /\ [Hit(task, hits)[x] EXCEPT !.cascade = cascade] \in TaskState
        /\ Alike([Hit(task, hits)[x] EXCEPT !.cascade = cascade], task[x])
    <3>1. Hit(task, hits)[x] \in TaskState /\ Alike(Hit(task, hits)[x], task[x])
        BY <1>c
    <3> QED
        BY <2>2, <3>1 DEF TaskState, Alike
  <2>4. task'[x] = [Hit(task, hits)[x] EXCEPT !.cascade = cascade]
        /\ \A u \in TaskIds \ {x} : task'[u] = Hit(task, hits)[u]
      BY <1>c, <2>1
  <2>5. task' \in [TaskIds -> TaskState]
      BY <1>c, <2>1, <2>3, <2>4
  <2> QED
      BY <1>a, <1>c, <2>1, <2>3, <2>4, <2>5
<1>4. ASSUME NEW a \in Agents, KillGathered(a)
      PROVE  Goal
    BY <1>4, <1>a, <1>c DEF KillGathered
<1>5. ASSUME NEW a \in Agents, KillReturns(a) \/ RootTurnEnds(a)
      PROVE  Goal
    BY <1>5, <1>a, <1>b DEF KillReturns, RootTurnEnds
<1>6. ASSUME NEW t \in TaskIds, Timeout(t)
      PROVE  Goal
  <2>1. PICK hits : /\ task' = [Hit(task, hits) EXCEPT ![t].fired = TRUE]
                    /\ cancel' = [Marked(hits) EXCEPT ![t] = TRUE]
                    /\ UNCHANGED <<records, handles, consumed, finishOrder>>
      BY <1>6 DEF Timeout
  <2>3. /\ Hit(task, hits)[t] \in TaskState
        /\ [Hit(task, hits)[t] EXCEPT !.fired = TRUE] \in TaskState
        /\ Alike([Hit(task, hits)[t] EXCEPT !.fired = TRUE], task[t])
    <3>1. Hit(task, hits)[t] \in TaskState /\ Alike(Hit(task, hits)[t], task[t])
        BY <1>c
    <3> QED
        BY <3>1 DEF TaskState, Alike
  <2>4. task'[t] = [Hit(task, hits)[t] EXCEPT !.fired = TRUE]
        /\ \A u \in TaskIds \ {t} : task'[u] = Hit(task, hits)[u]
      BY <1>c, <2>1
  <2>5. task' \in [TaskIds -> TaskState]
      BY <1>c, <2>1, <2>3, <2>4
  <2> QED
      BY <1>a, <1>c, <2>1, <2>3, <2>4, <2>5
<1>7. ASSUME NEW s \in Sessions, Stop(s)
      PROVE  Goal
  <2>1. PICK hits : /\ task' = Hit(task, hits)
                    /\ \E b \in BOOLEAN : cancel' = [Marked(hits) EXCEPT ![s] = b]
                    /\ UNCHANGED <<records, handles, consumed, finishOrder>>
      BY <1>7 DEF Stop
  <2> QED
      BY <1>a, <1>c, <2>1
<1>8. ASSUME StopReturns PROVE Goal
    BY <1>8, <1>a, <1>b DEF StopReturns
<1>9. ASSUME UNCHANGED vars PROVE Goal
    BY <1>9, <1>a, <1>b DEF vars
<1> HIDE DEF Goal
<1>d. \A s \in Sessions : s \in Agents
    BY <1>a
<1>10. Goal
  <2>1. CASE \E a \in Agents, x \in TaskIds :
                Wait(a, x) \/ \E cascade \in Cascades : Kill(a, x, cascade)
      BY <2>1, <1>1, <1>3
  <2>2. CASE \E a \in Agents : WaitReturns(a) \/ KillGathered(a) \/ KillReturns(a)
      BY <2>2, <1>2, <1>4, <1>5
  <2>3. CASE \E s \in Sessions : Stop(s) \/ RootTurnEnds(s)
      BY <2>3, <1>5, <1>7, <1>d
  <2> QED
      BY <2>1, <2>2, <2>3, <1>6, <1>8, <1>9 DEF TalkStep
<1> QED
    BY <1>10 DEF Goal

\* A call that begins is made from the loop, and one that ends leaves nothing.
LEMMA TalkCalls ==
    ASSUME TypeOK, Calls, TalkStep
    PROVE  /\ call' \in [Agents -> CallState]
           /\ \A b \in Agents :
                 \/ call'[b] = call[b]
                 \/ /\ b \in TaskIds => task[b].pc # "reaping"
                    /\ call'[b] = Idle
                 \/ /\ b \in TaskIds => task[b].pc = "loop"
                    /\ call'[b].op \in {"wait", "gather", "killed"}
                    /\ call'[b].op = "wait" => call'[b].arg \in TaskIds
<1>a. /\ call \in [Agents -> CallState] /\ TaskIds \subseteq Agents /\ Sessions \subseteq Agents
      /\ records \subseteq TaskIds /\ Sessions \cap TaskIds = {}
    BY NamesAssumption DEF TypeOK, Agents
<1>b. Idle \in CallState /\ Idle.op = "none"
    BY DEF Idle, CallState
<1>c. \A x \in Agents : Killed(x) \in CallState /\ Killed(x).op = "killed"
    BY DEF Killed, Idle, CallState
<1> DEFINE Goal == /\ call' \in [Agents -> CallState]
           /\ \A b \in Agents :
                 \/ call'[b] = call[b]
                 \/ /\ b \in TaskIds => task[b].pc # "reaping"
                    /\ call'[b] = Idle
                 \/ /\ b \in TaskIds => task[b].pc = "loop"
                    /\ call'[b].op \in {"wait", "gather", "killed"}
                    /\ call'[b].op = "wait" => call'[b].arg \in TaskIds
<1>1. ASSUME NEW a \in Agents, NEW x \in TaskIds, Wait(a, x)
      PROVE  Goal
  <2>1. [Idle EXCEPT !.op = "wait", !.arg = x] \in CallState
        /\ [Idle EXCEPT !.op = "wait", !.arg = x].op = "wait"
        /\ [Idle EXCEPT !.op = "wait", !.arg = x].arg = x
      BY <1>a DEF Idle, CallState
  <2>2. a \in TaskIds => task[a].pc = "loop"
      BY <1>1 DEF Wait, CanCall
  <2>3. call' = call \/ call' = [call EXCEPT ![a] = [Idle EXCEPT !.op = "wait", !.arg = x]]
      BY <1>1 DEF Wait
  <2> HIDE DEF Idle
  <2> QED
      BY <1>a, <2>1, <2>2, <2>3
<1>2. ASSUME NEW a \in Agents, WaitReturns(a) \/ KillReturns(a)
      PROVE  Goal
  <2>1. call[a].op \in {"wait", "killed"} /\ call' = [call EXCEPT ![a] = Idle]
      BY <1>2 DEF WaitReturns, KillReturns
  <2>2. a \in TaskIds => task[a].pc # "reaping"
      BY <2>1 DEF Calls
  <2> QED
      BY <1>a, <1>b, <2>1, <2>2
<1>3. ASSUME NEW a \in Agents, NEW x \in TaskIds, NEW cascade \in Cascades, Kill(a, x, cascade)
      PROVE  Goal
  <2> DEFINE kids == IF cascade THEN {c \in Children(x) : Live(c)} ELSE {}
  <2>1. [Idle EXCEPT !.op = "gather", !.on = kids, !.arg = x] \in CallState
        /\ [Idle EXCEPT !.op = "gather", !.on = kids, !.arg = x].op = "gather"
    <3>1. kids \subseteq TaskIds
        BY <1>a DEF Children, Running
    <3> HIDE DEF kids
    <3> QED
        BY <1>a, <3>1 DEF Idle, CallState
  <2>2. a \in TaskIds => task[a].pc = "loop"
      BY <1>3 DEF Kill, CanCall
  <2>3. \/ call' = [call EXCEPT ![a] = [Idle EXCEPT !.op = "gather", !.on = kids, !.arg = x]]
        \/ call' = [call EXCEPT ![a] = Killed(x)]
      BY <1>3 DEF Kill
  <2> HIDE DEF kids
  <2> QED
      BY <1>a, <1>c, <2>1, <2>2, <2>3
<1>4. ASSUME NEW a \in Agents, KillGathered(a)
      PROVE  Goal
  <2>1. /\ call[a].op = "gather" /\ call[a].arg # None
        /\ call' = [call EXCEPT ![a] = Killed(call[a].arg)]
      BY <1>4 DEF KillGathered
  <2>2. a \in TaskIds => task[a].pc = "loop"
      BY <2>1 DEF Calls
  <2>3. call[a] \in CallState
      BY <1>a
  <2>4. call[a].arg \in Agents
      BY <2>1, <2>3 DEF CallState
  <2> QED
      BY <1>a, <1>c, <2>1, <2>2, <2>4
<1>5. ASSUME NEW s \in Sessions, RootTurnEnds(s)
      PROVE  Goal
    BY <1>5, <1>a, <1>b DEF RootTurnEnds
<1>6. ASSUME UNCHANGED call
      PROVE  Goal
    BY <1>6, <1>a
<1> HIDE DEF Goal
<1>7. Goal
    BY <1>1, <1>2, <1>3, <1>4, <1>5, <1>6
    DEF TalkStep, Timeout, Stop, StopReturns, vars
<1> QED
    BY <1>7 DEF Goal

\* The end of a task, in each of its phases.
LEMMA EndFacts ==
    ASSUME TypeOK, Calls, NEW t \in TaskIds, EndStep(t)
    PROVE  /\ Ended(t) /\ Used(t) /\ cancel' \in [Agents -> BOOLEAN]
           /\ call' \in [Agents -> CallState]
           /\ finishOrder' \in Seq(TaskIds) /\ UNCHANGED <<stopping, draining, stops>>
           /\ \A b \in Agents \ {t} : call'[b] = call[b]
           /\ \/ /\ task'[t].pc = "reaping" /\ task[t].pc = "loop"
                 /\ call'[t].op = "gather" /\ call'[t].arg = None
                 /\ call'[t].on = {c \in Children(t) : Live(c)}
              \/ /\ task'[t].pc \in {"cleanup", "over"} /\ call'[t].op = "none"
                 /\ \/ task[t].pc \in {"created", "worktree"}
                    \/ /\ task[t].pc = "loop"
                       /\ task'[t].detached \/ {c \in Children(t) : Live(c)} = {}
                    \/ /\ task[t].pc = "reaping" /\ Gathered(t) = {}
                    \/ /\ task[t].pc = "cleanup" /\ task'[t].detached = task[t].detached
<1>a. /\ task \in [TaskIds -> TaskState] /\ cancel \in [Agents -> BOOLEAN]
      /\ call \in [Agents -> CallState] /\ finishOrder \in Seq(TaskIds)
      /\ t \in Agents /\ task[t] \in TaskState
    BY DEF TypeOK, Agents
<1>b. Idle \in CallState /\ Idle.op = "none"
    BY DEF Idle, CallState
<1> DEFINE kids == {c \in Children(t) : Live(c)}
           gather == [Idle EXCEPT !.op = "gather", !.on = kids]
<1>c. gather \in CallState /\ gather.op = "gather" /\ gather.arg = None /\ gather.on = kids
  <2>1. kids \subseteq TaskIds
      BY DEF TypeOK, Children, Running
  <2> HIDE DEF kids
  <2> QED
      BY <2>1 DEF Idle, CallState
<1> HIDE DEF gather, kids
<1>1. CASE CancelledEarly(t)
  <2>1. task[t].pc \in {"created", "worktree"} /\ Abort(t)
      BY <1>1 DEF CancelledEarly
  <2> QED
      BY <2>1, <1>a, <1>b, AbortFacts DEF Used
<1>2. CASE LoopEnds(t) \/ LoopCancelled(t)
  <2>1. task[t].pc = "loop" /\ \E s \in Terminal : Finish(t, s)
      BY <1>2 DEF LoopEnds, LoopCancelled, Terminal
  <2>2. /\ Ended(t) /\ cancel' \in [Agents -> BOOLEAN] /\ finishOrder' \in Seq(TaskIds)
        /\ UNCHANGED <<stopping, draining, stops>>
        /\ \/ task'[t].pc = "reaping" /\ call' = [call EXCEPT ![t] = gather]
           \/ /\ task'[t].pc \in {"cleanup", "over"} /\ call' = [call EXCEPT ![t] = Idle]
              /\ task'[t].detached \/ kids = {}
      BY <2>1, FinishFacts DEF gather, kids
  <2>3. CASE task'[t].pc = "reaping" /\ call' = [call EXCEPT ![t] = gather]
      BY <2>1, <2>2, <2>3, <1>a, <1>c DEF Used, kids
  <2>4. CASE /\ task'[t].pc \in {"cleanup", "over"} /\ call' = [call EXCEPT ![t] = Idle]
             /\ task'[t].detached \/ kids = {}
      BY <2>1, <2>2, <2>4, <1>a, <1>b DEF Used, kids
  <2> QED
      BY <2>2, <2>3, <2>4
<1>3. CASE Reaped(t)
  <2>1. task[t].pc = "reaping" /\ Gathered(t) = {}
      BY <1>3 DEF Reaped
  <2>2. CASE Abort(t)
      BY <2>1, <2>2, <1>a, <1>b, AbortFacts DEF Used
  <2>3. CASE /\ AfterReaping(t, task, finishOrder) /\ call' = [call EXCEPT ![t] = Idle]
             /\ UNCHANGED <<finishOrder, cancel, stopping, draining, stops>>
    <3>1. /\ task' \in [TaskIds -> TaskState]
          /\ task'[t].pc \in {"cleanup", "over"}
          /\ Alike([task'[t] EXCEPT !.pc = task[t].pc], task[t])
          /\ \A u \in TaskIds \ {t} : task'[u] = task[u]
          /\ records' \subseteq records /\ handles' \subseteq handles
          /\ consumed' \subseteq TaskIds
          /\ \A u \in records : u \notin records' => task'[u].status \in Terminal
        BY <2>3, <1>a, AfterReapingFacts
    <3>2. /\ task'[t].status = task[t].status /\ task'[t].parent = task[t].parent
          /\ task'[t].session = task[t].session /\ task'[t].depth = task[t].depth
          /\ task'[t].resumed = task[t].resumed
        BY <1>a, <3>1, AlikeButPc
    <3>3. Ended(t)
        BY <3>1, <3>2 DEF Ended, Alike, Finished
    <3> QED
        BY <2>1, <2>3, <3>1, <3>3, <1>a, <1>b DEF Used
  <2> QED
      BY <1>3, <2>2, <2>3 DEF Reaped
<1>4. CASE CleanedUp(t)
  <2>1. task[t].pc = "cleanup" /\ call[t].op = "none"
      BY <1>4, <1>a DEF CleanedUp, Calls
  <2>2. CASE Abort(t)
      BY <2>1, <2>2, <1>a, <1>b, AbortFacts DEF Used
  <2>3. CASE /\ Retire(t, task, finishOrder)
             /\ UNCHANGED <<finishOrder, call, cancel, stopping, draining, stops>>
    <3>1. /\ task' \in [TaskIds -> TaskState]
          /\ task'[t].pc = "over"
          /\ Alike([task'[t] EXCEPT !.pc = task[t].pc], task[t])
          /\ \A u \in TaskIds \ {t} : task'[u] = task[u]
          /\ records' \subseteq records /\ handles' \subseteq handles
          /\ consumed' \subseteq TaskIds
          /\ \A u \in records : u \notin records' => task'[u].status \in Terminal
        BY <2>3, <1>a, RetireFacts
    <3>2. /\ task'[t].status = task[t].status /\ task'[t].parent = task[t].parent
          /\ task'[t].session = task[t].session /\ task'[t].depth = task[t].depth
          /\ task'[t].resumed = task[t].resumed /\ task'[t].detached = task[t].detached
        BY <1>a, <3>1, AlikeButPc
    <3>3. Ended(t)
        BY <3>1, <3>2 DEF Ended, Alike, Finished
    <3> QED
        BY <2>1, <2>3, <3>1, <3>2, <3>3, <1>a DEF Used
  <2> QED
      BY <1>4, <2>2, <2>3 DEF CleanedUp
<1> QED
    BY <1>1, <1>2, <1>3, <1>4 DEF EndStep

\* A task that starts: one of those that execute still does.
LEMMA MoveFacts ==
    ASSUME TypeOK, NEW t \in TaskIds, Start(t) \/ WorktreeReady(t)
    PROVE  /\ task' \in [TaskIds -> TaskState]
           /\ task[t].pc \in {"created", "worktree"} /\ task'[t].pc \in {"worktree", "loop"}
           /\ task'[t].status \in {"running", task[t].status}
           /\ Start(t) => task'[t].status = "running"
           /\ WorktreeReady(t) => task'[t].status = task[t].status
           /\ task'[t].parent = task[t].parent /\ task'[t].session = task[t].session
           /\ task'[t].depth = task[t].depth /\ task'[t].resumed = task[t].resumed
           /\ \A u \in TaskIds \ {t} : task'[u] = task[u]
           /\ UNCHANGED <<records, handles, consumed, finishOrder, call, cancel, stopping,
                          draining, stops>>
<1>a. task \in [TaskIds -> TaskState] /\ task[t] \in TaskState
    BY DEF TypeOK
<1>1. CASE Start(t)
  <2>1. PICK pc \in {"worktree", "loop"} :
            task' = [task EXCEPT ![t].status = "running", ![t].pc = pc]
      BY <1>1 DEF Start
  <2>2. [task[t] EXCEPT !.status = "running", !.pc = pc] \in TaskState
      BY <1>a DEF TaskState
  <2>3. /\ task'[t] = [task[t] EXCEPT !.status = "running", !.pc = pc]
        /\ \A u \in TaskIds \ {t} : task'[u] = task[u]
      BY <1>a, <2>1
  <2>4. task' \in [TaskIds -> TaskState]
      BY <1>a, <2>1, <2>2, <2>3
  <2>5. /\ task'[t].pc = pc /\ task'[t].status = "running"
        /\ task'[t].parent = task[t].parent /\ task'[t].session = task[t].session
        /\ task'[t].depth = task[t].depth /\ task'[t].resumed = task[t].resumed
      BY <1>a, <2>3 DEF TaskState
  <2> QED
      BY <1>1, <2>3, <2>4, <2>5 DEF Start, WorktreeReady
<1>2. CASE WorktreeReady(t)
  <2>1. PICK wt \in {"made", "no"} : task' = [task EXCEPT ![t].pc = "loop", ![t].wt = wt]
      BY <1>2 DEF WorktreeReady
  <2>2. [task[t] EXCEPT !.pc = "loop", !.wt = wt] \in TaskState
      BY <1>a DEF TaskState
  <2>3. /\ task'[t] = [task[t] EXCEPT !.pc = "loop", !.wt = wt]
        /\ \A u \in TaskIds \ {t} : task'[u] = task[u]
      BY <1>a, <2>1
  <2>4. task' \in [TaskIds -> TaskState]
      BY <1>a, <2>1, <2>2, <2>3
  <2>5. /\ task'[t].pc = "loop" /\ task'[t].status = task[t].status
        /\ task'[t].parent = task[t].parent /\ task'[t].session = task[t].session
        /\ task'[t].depth = task[t].depth /\ task'[t].resumed = task[t].resumed
      BY <1>a, <2>3 DEF TaskState
  <2> QED
      BY <1>2, <2>3, <2>4, <2>5 DEF Start, WorktreeReady
<1> QED
    BY <1>1, <1>2
-----------------------------------------------------------------------------
(* The creation of a task *)

\* A new task takes its place in the tree, below a task in its loop unless
\* send_message asked for it.
Made(t, p, depth, resume) ==
    /\ ~Used(t) /\ Allowed(p, depth) /\ LockFree(SessionOf(p))
    /\ depth = DepthOf(p) + 1 /\ depth \in Nat
    /\ p \in TaskIds => Used(p) /\ (resume \/ task[p].pc = "loop")
    /\ task' \in [TaskIds -> TaskState]
    /\ task'[t].pc = "created" /\ task'[t].status = task[t].status
    /\ task'[t].parent = p /\ task'[t].session = SessionOf(p)
    /\ task'[t].depth = depth /\ task'[t].resumed = resume
    /\ \A u \in TaskIds \ {t} : task'[u] = task[u]
    /\ records' = records \cup {t} /\ handles' = handles \cup {t}

\* What Create does for a call that knows its place.
LEMMA CreateFacts ==
    ASSUME TypeOK, NEW p \in Agents, NEW depth \in Nat, NEW resume \in BOOLEAN,
           Create(p, depth, resume), depth = DepthOf(p) + 1, LockFree(SessionOf(p)),
           p \in TaskIds => Used(p) /\ (resume \/ task[p].pc = "loop")
    PROVE  \/ UNCHANGED <<task, records, handles>>
           \/ \E t \in TaskIds : Made(t, p, depth, resume)
<1>1. CASE ~Allowed(p, depth)
    BY <1>1 DEF Create
<1>2. CASE Allowed(p, depth)
  <2>1. PICK t \in TaskIds, wt \in IF resume THEN {"no"} ELSE Isolation :
            /\ task[t].pc = "none"
            /\ task' = [task EXCEPT ![t] =
                   [@ EXCEPT !.pc = "created", !.parent = p, !.session = SessionOf(p),
                             !.depth = depth, !.wt = wt, !.resumed = resume]]
            /\ records' = records \cup {t} /\ handles' = handles \cup {t}
      BY <1>2 DEF Create
  <2> DEFINE new == [task[t] EXCEPT !.pc = "created", !.parent = p, !.session = SessionOf(p),
                                    !.depth = depth, !.wt = wt, !.resumed = resume]
  <2>2. task \in [TaskIds -> TaskState] /\ task[t] \in TaskState
      BY DEF TypeOK
  <2>3. wt \in {"no", "wanted", "made"}
      BY PolicyAssumption
  <2>4. SessionOf(p) \in Sessions \cup {None}
      BY <2>2, TaskFields DEF SessionOf, Agents
  <2>5. new \in TaskState
      BY <2>2, <2>3, <2>4 DEF TaskState
  <2>6. task'[t] = new /\ \A u \in TaskIds \ {t} : task'[u] = task[u]
      BY <2>1, <2>2
  <2>7. task' \in [TaskIds -> TaskState]
    <3> HIDE DEF new
    <3>1. task' = [task EXCEPT ![t] = new]
        BY <2>1 DEF new
    <3> QED
        BY <2>2, <2>5, <3>1
  <2>8. /\ new.pc = "created" /\ new.status = task[t].status /\ new.parent = p
        /\ new.session = SessionOf(p) /\ new.depth = depth /\ new.resumed = resume
      BY <2>2 DEF TaskState
  <2> HIDE DEF new
  <2>9. Made(t, p, depth, resume)
      BY <1>2, <2>1, <2>6, <2>7, <2>8 DEF Made, Used
  <2> QED
      BY <2>9
<1> QED
    BY <1>1, <1>2

\* A spawn call, made or resumed: nothing happens, or the caller waits, or a task is made.
LEMMA SpawnFacts ==
    ASSUME TypeOK, Kept, TreeShape, Parents, Calls, SpawnStep
    PROVE  /\ UNCHANGED <<consumed, finishOrder, cancel, stopping, draining, stops>>
           /\ call' \in [Agents -> CallState]
           /\ \E a \in Agents :
                 /\ \A b \in Agents \ {a} : call'[b] = call[b]
                 /\ a \in TaskIds => task[a].pc = "loop"
                 /\ call'[a].op # "none" =>
                       /\ call'[a].op = "spawn" /\ call'[a].arg \in Agents
                       /\ call'[a].arg \in TaskIds => Used(call'[a].arg)
                       /\ call'[a].depth = DepthOf(call'[a].arg) + 1
                       /\ call'[a].resume \/ call'[a].arg = a
                       /\ UNCHANGED <<task, records, handles>>
           /\ \/ UNCHANGED <<task, records, handles>>
              \/ \E t \in TaskIds, p \in Agents, depth \in Nat, resume \in BOOLEAN :
                    Made(t, p, depth, resume)
<1> DEFINE Goal(a) ==
           /\ UNCHANGED <<consumed, finishOrder, cancel, stopping, draining, stops>>
           /\ call' \in [Agents -> CallState]
           /\ \A b \in Agents \ {a} : call'[b] = call[b]
           /\ a \in TaskIds => task[a].pc = "loop"
           /\ call'[a].op # "none" =>
                 /\ call'[a].op = "spawn" /\ call'[a].arg \in Agents
                 /\ call'[a].arg \in TaskIds => Used(call'[a].arg)
                 /\ call'[a].depth = DepthOf(call'[a].arg) + 1
                 /\ call'[a].resume \/ call'[a].arg = a
                 /\ UNCHANGED <<task, records, handles>>
           /\ \/ UNCHANGED <<task, records, handles>>
              \/ \E t \in TaskIds, p \in Agents, depth \in Nat, resume \in BOOLEAN :
                    Made(t, p, depth, resume)
<1>a. /\ task \in [TaskIds -> TaskState] /\ call \in [Agents -> CallState]
      /\ TaskIds \subseteq Agents /\ records \subseteq TaskIds
    BY DEF TypeOK, Agents
<1>b. \A a \in Agents : DepthOf(a) \in Nat
    BY <1>a, TaskFields DEF DepthOf, Agents
<1>c. Idle \in CallState /\ Idle.op = "none"
    BY DEF Idle, CallState
\* A call in a known place.
<1>1. ASSUME NEW a \in Agents, NEW p \in Agents, NEW resume \in BOOLEAN, CanCall(a),
             p \in TaskIds => Used(p), resume \/ p = a,
             RequestSpawn(a, p, DepthOf(p) + 1, resume)
      PROVE  Goal(a)
  <2>1. a \in TaskIds => task[a].pc = "loop"
      BY <1>1 DEF CanCall
  <2>2. call[a].op = "none"
      BY <1>1 DEF CanCall
  <2>3. DepthOf(p) + 1 \in Nat
      BY <1>b
  <2>4. CASE LockFree(SessionOf(p)) /\ Create(p, DepthOf(p) + 1, resume) /\ UNCHANGED call
    <3>1. \/ UNCHANGED <<task, records, handles>>
          \/ \E t \in TaskIds : Made(t, p, DepthOf(p) + 1, resume)
        BY <1>1, <2>1, <2>3, <2>4, CreateFacts
    <3> QED
        BY <1>1, <1>a, <2>1, <2>2, <2>3, <2>4, <3>1 DEF RequestSpawn
  <2>5. CASE /\ call' = [call EXCEPT ![a] = [op |-> "spawn", on |-> {}, arg |-> p,
                                             depth |-> DepthOf(p) + 1, resume |-> resume]]
             /\ UNCHANGED <<task, records, handles>>
    <3>1. [op |-> "spawn", on |-> {}, arg |-> p, depth |-> DepthOf(p) + 1,
           resume |-> resume] \in CallState
        BY <2>3 DEF CallState
    <3>2. /\ call' \in [Agents -> CallState]
          /\ call'[a].op = "spawn" /\ call'[a].arg = p
          /\ call'[a].depth = DepthOf(p) + 1 /\ call'[a].resume = resume
          /\ \A b \in Agents \ {a} : call'[b] = call[b]
        BY <1>a, <2>5, <3>1
    <3> QED
        BY <1>1, <2>1, <2>5, <3>2 DEF RequestSpawn
  <2> QED
      BY <1>1, <2>4, <2>5 DEF RequestSpawn
<1>2. ASSUME NEW a \in Agents, Spawn(a) PROVE Goal(a)
  <2>1. CanCall(a) /\ RequestSpawn(a, a, DepthOf(a) + 1, FALSE)
      BY <1>2 DEF Spawn
  <2>2. a \in TaskIds => Used(a)
      BY <2>1 DEF CanCall, Used
  <2> HIDE DEF Goal
  <2> QED
      BY <1>1, <2>1, <2>2
<1>3. ASSUME NEW a \in Agents, NEW x \in TaskIds, SendMessage(a, x) PROVE Goal(a)
  <2>1. CanCall(a) /\ x \in records /\ RequestSpawn(a, task[x].parent, task[x].depth, TRUE)
      BY <1>3 DEF SendMessage
  <2>2. Used(x) /\ task[x].pc # "none"
      BY <2>1 DEF Kept, Used
  <2>3. task[x].parent \in Agents /\ task[x].depth = DepthOf(task[x].parent) + 1
    <3>1. task[x].parent \in Agents \cup {None}
        BY <1>a, TaskFields
    <3>2. task[x].parent # None
        BY <2>2 DEF TypeOK
    <3> QED
        BY <2>2, <3>1, <3>2 DEF TreeShape
  <2>4. task[x].parent \in TaskIds => Used(task[x].parent)
      BY <2>2 DEF Parents
  <2> HIDE DEF Goal
  <2> QED
      BY <1>1, <2>1, <2>3, <2>4
<1>4. ASSUME NEW a \in Agents, SpawnResumes(a) PROVE Goal(a)
  <2> DEFINE p == call[a].arg
             depth == call[a].depth
             resume == call[a].resume
  <2>1. /\ call[a].op = "spawn" /\ LockFree(SessionOf(p)) /\ Create(p, depth, resume)
        /\ call' = [call EXCEPT ![a] = Idle]
        /\ UNCHANGED <<consumed, finishOrder, cancel, stopping, draining, stops>>
      BY <1>4 DEF SpawnResumes
  <2>2. /\ p \in Agents /\ depth = DepthOf(p) + 1 /\ (resume \/ p = a)
        /\ p \in TaskIds => Used(p)
        /\ a \in TaskIds => task[a].pc = "loop"
      BY <2>1 DEF Calls
  <2>3. depth \in Nat /\ resume \in BOOLEAN
      BY <1>a DEF CallState
  <2>4. p \in TaskIds => Used(p) /\ (resume \/ task[p].pc = "loop")
      BY <2>2
  <2> HIDE DEF p, depth, resume
  <2>5. \/ UNCHANGED <<task, records, handles>>
        \/ \E t \in TaskIds : Made(t, p, depth, resume)
      BY <2>1, <2>2, <2>3, <2>4, CreateFacts
  <2>6. call' \in [Agents -> CallState] /\ call'[a].op = "none"
        /\ \A b \in Agents \ {a} : call'[b] = call[b]
      BY <1>a, <1>c, <2>1
  <2> QED
      BY <2>1, <2>2, <2>3, <2>5, <2>6
<1>5. PICK a \in Agents : Goal(a)
  <2> HIDE DEF Goal
  <2> QED
      BY <1>2, <1>3, <1>4 DEF SpawnStep
<1> QED
    BY <1>5
-----------------------------------------------------------------------------
(* Steps that create no task *)

NoNew ==
    /\ \A u \in TaskIds :
          /\ task'[u].parent = task[u].parent /\ task'[u].session = task[u].session
          /\ task'[u].depth = task[u].depth /\ task'[u].resumed = task[u].resumed
          /\ Executing(u)' => Executing(u) /\ ~Finished(u)'
          /\ Finished(u) => Finished(u)'
          /\ Finished(u)' => Finished(u) \/ Used(u)
          /\ Used(u)' <=> Used(u)
    /\ records' \subseteq records
    /\ \A u \in records : Executing(u)' => u \in records'

\* Every step creates no task, or one.
LEMMA NoNewOrMade ==
    ASSUME DelegationInv, [Next]_vars
    PROVE  \/ NoNew
           \/ \E t \in TaskIds, p \in Agents, depth \in Nat, resume \in BOOLEAN :
                 Made(t, p, depth, resume)
<1> USE DEF DelegationInv
<1>a. /\ task \in [TaskIds -> TaskState]
      /\ \A u \in TaskIds : Executing(u) => ~Finished(u)
    BY DEF TypeOK, Kept
<1>1. ASSUME \A u \in TaskIds : Alike(task'[u], task[u]), records' = records
      PROVE  NoNew
    BY <1>1, <1>a DEF NoNew, Alike, Executing, Finished, Used
<1>2. CASE TalkStep
    BY <1>1, <1>2, TalkFacts
<1>3. ASSUME NEW t \in TaskIds, Start(t) \/ WorktreeReady(t)
      PROVE  NoNew
  <2>1. /\ task[t].pc \in {"created", "worktree"} /\ task'[t].pc \in {"worktree", "loop"}
        /\ task'[t].status \in {"running", task[t].status}
        /\ task'[t].parent = task[t].parent /\ task'[t].session = task[t].session
        /\ task'[t].depth = task[t].depth /\ task'[t].resumed = task[t].resumed
        /\ \A u \in TaskIds \ {t} : task'[u] = task[u]
        /\ records' = records
      BY <1>3, MoveFacts
  <2>2. Executing(t) /\ ~Finished(t) /\ "running" \notin Terminal
      BY <1>a, <2>1 DEF Executing, Terminal
  <2> QED
      BY <1>a, <2>1, <2>2 DEF NoNew, Executing, Finished, Used
<1>4. ASSUME NEW t \in TaskIds, EndStep(t)
      PROVE  NoNew
  <2>1. Ended(t) /\ Used(t)
      BY <1>4, EndFacts
  <2>2. \A u \in TaskIds \ {t} : Alike(task'[u], task[u])
      BY <2>1 DEF Ended
  <2>3. \A u \in TaskIds \ {t} :
            /\ task'[u].parent = task[u].parent /\ task'[u].session = task[u].session
            /\ task'[u].depth = task[u].depth /\ task'[u].resumed = task[u].resumed
            /\ Executing(u)' => Executing(u) /\ ~Finished(u)'
            /\ Finished(u) => Finished(u)'
            /\ Finished(u)' => Finished(u) \/ Used(u)
            /\ Used(u)' <=> Used(u)
      BY <1>a, <2>2 DEF Alike, Executing, Finished, Used
  <2>4. /\ task'[t].parent = task[t].parent /\ task'[t].session = task[t].session
        /\ task'[t].depth = task[t].depth /\ task'[t].resumed = task[t].resumed
        /\ ~Executing(t)' /\ (Finished(t) => Finished(t)') /\ (Used(t)' <=> Used(t))
      BY <2>1 DEF Ended, Executing, Finished, Used
  <2>5. /\ records' \subseteq records
        /\ \A u \in records : u \notin records' => task'[u].status \in Terminal
      BY <2>1 DEF Ended
  <2>6. \A u \in records : Executing(u)' => u \in records'
      BY <2>3, <2>4, <2>5 DEF Finished, TypeOK
  <2> QED
      BY <2>1, <2>3, <2>4, <2>5, <2>6 DEF NoNew
<1>5. CASE SpawnStep
  <2>1. CASE UNCHANGED <<task, records, handles>>
      BY <1>1, <2>1 DEF Alike
  <2> QED
      BY <1>5, <2>1, SpawnFacts
<1> QED
    BY <1>2, <1>3, <1>4, <1>5, StepKinds DEF MoveStep

\* The new task has its place; the others keep theirs.
LEMMA TreeStep ==
    ASSUME DelegationInv, [Next]_vars
    PROVE  Kept' /\ TreeShape' /\ Parents'
<1> USE DEF DelegationInv
<1>a. TaskIds \cap Sessions = {} /\ Agents = TaskIds \cup Sessions /\ records \subseteq TaskIds
    BY NamesAssumption DEF Agents, TypeOK
<1>b. \A u \in TaskIds : Used(u) => task[u].parent \in Agents
    BY TaskFields DEF TypeOK, Used
<1>1. CASE NoNew
  <2>1. Kept'
      BY <1>1, <1>a DEF Kept, NoNew
  <2>3. TreeShape'
    <3> SUFFICES ASSUME NEW u \in TaskIds, Used(u)'
                 PROVE  /\ task'[u].session = SessionOf(task[u].parent)'
                        /\ task'[u].depth = DepthOf(task[u].parent)' + 1
        BY DEF TreeShape, Used
    <3>1. Used(u) /\ task'[u].parent = task[u].parent /\ task'[u].session = task[u].session
          /\ task'[u].depth = task[u].depth
        BY <1>1 DEF NoNew
    <3>2. task[u].parent \in Agents
        BY <1>b, <3>1
    <3>3. task[u].session = SessionOf(task[u].parent) /\ task[u].depth = DepthOf(task[u].parent) + 1
        BY <3>1 DEF TreeShape, Used
    <3>4. SessionOf(task[u].parent)' = SessionOf(task[u].parent)
          /\ DepthOf(task[u].parent)' = DepthOf(task[u].parent)
        BY <1>1, <1>a, <3>1, <3>2 DEF NoNew, SessionOf, DepthOf
    <3> QED
        BY <3>1, <3>3, <3>4
  <2>4. Parents'
      BY <1>1 DEF Parents, NoNew
  <2> QED
      BY <2>1, <2>3, <2>4
<1>2. ASSUME NEW t \in TaskIds, NEW p \in Agents, NEW depth \in Nat, NEW resume \in BOOLEAN,
             Made(t, p, depth, resume)
      PROVE  Kept' /\ TreeShape' /\ Parents'
  <2>1. /\ ~Used(t) /\ depth = DepthOf(p) + 1
        /\ p \in TaskIds => Used(p)
        /\ task'[t].pc = "created" /\ task'[t].status = task[t].status
        /\ task'[t].parent = p /\ task'[t].session = SessionOf(p)
        /\ task'[t].depth = depth
        /\ \A u \in TaskIds \ {t} : task'[u] = task[u]
        /\ records' = records \cup {t}
      BY <1>2 DEF Made
  <2>2. p # t
      BY <2>1
  <2>3. task[t].status \notin Terminal
      BY <2>1 DEF Kept, Finished
  <2>4. Kept'
      BY <2>1, <2>3, <1>a DEF Kept, Used, Executing, Finished
  <2>5. Parents'
      BY <2>1, <2>2 DEF Parents, Used
  <2>6. TreeShape'
    <3> SUFFICES ASSUME NEW u \in TaskIds, Used(u)'
                 PROVE  /\ task'[u].session = SessionOf(task[u].parent)'
                        /\ task'[u].depth = DepthOf(task[u].parent)' + 1
        BY DEF TreeShape, Used
    <3>1. CASE u = t
        BY <2>1, <2>2, <3>1, <1>a DEF SessionOf, DepthOf
    <3>2. CASE u # t
      <4>1. Used(u) /\ task'[u] = task[u]
          BY <2>1, <3>2 DEF Used
      <4>2. /\ task[u].parent \in Agents
            /\ task[u].parent # t
          BY <1>b, <2>1, <4>1 DEF Parents
      <4>3. /\ task[u].session = SessionOf(task[u].parent)
            /\ task[u].depth = DepthOf(task[u].parent) + 1
          BY <4>1 DEF TreeShape, Used
      <4> QED
          BY <1>a, <2>1, <4>1, <4>2, <4>3 DEF SessionOf, DepthOf
    <3> QED
        BY <3>1, <3>2
  <2> QED
      BY <2>4, <2>5, <2>6
<1> QED
    BY <1>1, <1>2, NoNewOrMade

-----------------------------------------------------------------------------
(* The limits *)

\* What is counted is finite.
LEMMA RunningFinite ==
    ASSUME TypeOK
    PROVE  /\ IsFiniteSet(Running) /\ Cardinality(Running) \in Nat
           /\ \A p : /\ Children(p) \subseteq Running
                     /\ IsFiniteSet(Children(p)) /\ Cardinality(Children(p)) \in Nat
<1>1. Running \subseteq TaskIds
    BY DEF TypeOK, Running
<1>2. IsFiniteSet(Running)
    BY <1>1, NamesAssumption, FS_Subset
<1>3. \A p : Children(p) \subseteq Running
    BY DEF Children
<1>4. \A p : IsFiniteSet(Children(p))
    BY <1>2, <1>3, FS_Subset
<1> QED
    BY <1>2, <1>3, <1>4, FS_CardinalityType

\* A task is made only below the limits, and nothing else raises the counts.
LEMMA LimitsStep ==
    ASSUME DelegationInv, [Next]_vars
    PROVE  Limits'
<1> USE DEF DelegationInv
<1>a. MaxConcurrent \in Nat /\ MaxChildren \in Nat
    BY PolicyAssumption
<1>1. CASE NoNew
  <2>1. Running' \subseteq Running
      BY <1>1 DEF NoNew, Running, TypeOK
  <2>2. \A p \in TaskIds : Children(p)' \subseteq Children(p)
      BY <1>1, <2>1 DEF NoNew, Children, Running, TypeOK
  <2>3. Cardinality(Running') <= Cardinality(Running) /\ Cardinality(Running') \in Nat
      BY <2>1, RunningFinite, FS_Subset, FS_CardinalityType
  <2>4. \A p \in TaskIds : Cardinality(Children(p)') <= Cardinality(Children(p))
                           /\ Cardinality(Children(p)') \in Nat
      BY <2>2, RunningFinite, FS_Subset, FS_CardinalityType
  <2> QED
      BY <1>a, <2>3, <2>4, RunningFinite DEF Limits
<1>2. ASSUME NEW t \in TaskIds, NEW p \in Agents, NEW depth \in Nat, NEW resume \in BOOLEAN,
             Made(t, p, depth, resume)
      PROVE  Limits'
  <2>1. /\ ~Used(t) /\ task'[t].parent = p /\ records' = records \cup {t}
        /\ \A u \in TaskIds \ {t} : task'[u] = task[u]
        /\ Cardinality(Running) < MaxConcurrent
        /\ p \in TaskIds => Cardinality(Children(p)) < MaxChildren
      BY <1>2 DEF Made, Allowed
  <2>2. t \notin records /\ records \subseteq TaskIds
      BY <2>1 DEF Kept, TypeOK
  <2>3. Running' \subseteq Running \cup {t} /\ t \notin Running
      BY <2>1, <2>2 DEF Running, Finished
  <2>4. Children(p)' \subseteq Children(p) \cup {t} /\ t \notin Children(p)
      BY <2>1, <2>2 DEF Children, Running, Finished
  <2>5. \A q \in TaskIds : q # p => Children(q)' \subseteq Children(q)
      BY <2>1, <2>2 DEF Children, Running, Finished
  <2>6. Cardinality(Running') <= MaxConcurrent
    <3>1. /\ IsFiniteSet(Running \cup {t})
          /\ Cardinality(Running \cup {t}) = Cardinality(Running) + 1
        BY <2>3, RunningFinite, FS_AddElement
    <3>2. /\ Cardinality(Running') <= Cardinality(Running \cup {t})
          /\ Cardinality(Running') \in Nat
        BY <2>3, <3>1, FS_Subset, FS_CardinalityType
    <3> QED
        BY <1>a, <2>1, <3>1, <3>2, RunningFinite
  <2>7. p \in TaskIds => Cardinality(Children(p)') <= MaxChildren
    <3>1. /\ IsFiniteSet(Children(p) \cup {t})
          /\ Cardinality(Children(p) \cup {t}) = Cardinality(Children(p)) + 1
        BY <2>4, RunningFinite, FS_AddElement
    <3>2. /\ Cardinality(Children(p)') <= Cardinality(Children(p) \cup {t})
          /\ Cardinality(Children(p)') \in Nat
        BY <2>4, <3>1, FS_Subset, FS_CardinalityType
    <3> QED
        BY <1>a, <2>1, <3>1, <3>2, RunningFinite
  <2>8. \A q \in TaskIds : q # p => Cardinality(Children(q)') <= MaxChildren
    <3>1. \A q \in TaskIds : q # p => Cardinality(Children(q)') <= Cardinality(Children(q))
                                      /\ Cardinality(Children(q)') \in Nat
        BY <2>5, RunningFinite, FS_Subset, FS_CardinalityType
    <3>2. \A q \in TaskIds : Cardinality(Children(q)) <= MaxChildren
                             /\ Cardinality(Children(q)) \in Nat
        BY RunningFinite DEF Limits
    <3> QED
        BY <1>a, <3>1, <3>2
  <2> QED
      BY <2>6, <2>7, <2>8 DEF Limits
<1> QED
    BY <1>1, <1>2, NoNewOrMade

-----------------------------------------------------------------------------
(* Who calls, and who waits for whom *)

\* Calls stay where they are made.
LEMMA CallsStep ==
    ASSUME DelegationInv, [Next]_vars
    PROVE  Calls'
<1> USE DEF DelegationInv
<1>a. /\ TaskIds \cap Sessions = {} /\ Agents = TaskIds \cup Sessions
      /\ \A u \in TaskIds : Used(u) => ~(task[u].pc = "none")
    BY NamesAssumption DEF Agents, Used
\* The depths and the tasks a waiting call speaks of stay.
<1>b. \A x \in Agents : (x \in TaskIds => Used(x)) =>
          DepthOf(x)' = DepthOf(x) /\ (x \in TaskIds => Used(x)')
  <2>1. CASE NoNew
      BY <2>1, <1>a DEF NoNew, DepthOf
  <2>2. ASSUME NEW t \in TaskIds, NEW p \in Agents, NEW depth \in Nat, NEW resume \in BOOLEAN,
               Made(t, p, depth, resume)
        PROVE  \A x \in Agents : (x \in TaskIds => Used(x)) =>
                   DepthOf(x)' = DepthOf(x) /\ (x \in TaskIds => Used(x)')
      BY <2>2, <1>a DEF Made, DepthOf, Used
  <2> QED
      BY <2>1, <2>2, NoNewOrMade
\* A waiting call goes on waiting, or was placed by this step.
<1>c. ASSUME NEW b \in Agents
      PROVE  /\ call'[b].op = "spawn" =>
                   /\ call'[b].arg \in Agents
                   /\ call'[b].arg \in TaskIds => Used(call'[b].arg)
                   /\ call'[b].depth = DepthOf(call'[b].arg) + 1
                   /\ call'[b].resume \/ call'[b].arg = b
             /\ call'[b].op = "wait" => call'[b].arg \in TaskIds
  <2>1. CASE call'[b] = call[b]
      BY <2>1 DEF Calls
  <2>2. CASE call'[b].op = "none"
      BY <2>2
  <2>3. CASE TalkStep
      BY <2>1, <2>3, TalkCalls DEF Idle
  <2>4. CASE MoveStep
      BY <2>1, <2>4, MoveFacts DEF MoveStep
  <2>5. ASSUME NEW t \in TaskIds, EndStep(t), call'[b] # call[b]
        PROVE  call'[b].op \in {"none", "gather"}
      BY <2>5, EndFacts
  <2>6. CASE SpawnStep
      BY <2>1, <2>2, <2>6, SpawnFacts
  <2> QED
      BY <2>1, <2>2, <2>3, <2>4, <2>5, <2>6, StepKinds
\* Who calls is in the loop.
<1>d. ASSUME NEW b \in TaskIds
      PROVE  /\ call'[b].op # "none" => task'[b].pc \in {"loop", "reaping"}
             /\ task'[b].pc = "reaping" => call'[b].op = "gather" /\ call'[b].arg = None
  <2>a. /\ b \in Agents
        /\ call[b].op # "none" => task[b].pc \in {"loop", "reaping"}
        /\ task[b].pc = "reaping" => call[b].op = "gather" /\ call[b].arg = None
      BY <1>a DEF Calls
  <2>1. CASE TalkStep
    <3>1. task'[b].pc = task[b].pc
        BY <2>1, TalkFacts DEF Alike
    <3>2. \/ call'[b] = call[b]
          \/ task[b].pc # "reaping" /\ call'[b].op = "none"
          \/ task[b].pc = "loop"
        BY <2>1, <2>a, TalkCalls DEF Idle
    <3> QED
        BY <2>a, <3>1, <3>2
  <2>2. CASE MoveStep
    <3>1. PICK t \in TaskIds : Start(t) \/ WorktreeReady(t)
        BY <2>2 DEF MoveStep
    <3>2. /\ task[t].pc \in {"created", "worktree"} /\ task'[t].pc \in {"worktree", "loop"}
          /\ call' = call /\ \A u \in TaskIds \ {t} : task'[u] = task[u]
        BY <3>1, MoveFacts
    <3> QED
        BY <2>a, <3>2
  <2>3. ASSUME NEW t \in TaskIds, EndStep(t)
        PROVE  /\ call'[b].op # "none" => task'[b].pc \in {"loop", "reaping"}
               /\ task'[b].pc = "reaping" => call'[b].op = "gather" /\ call'[b].arg = None
    <3>1. CASE b = t
        BY <2>3, <3>1, EndFacts
    <3>2. CASE b # t
      <4>1. call'[b] = call[b] /\ task'[b].pc = task[b].pc
          BY <2>3, <2>a, <3>2, EndFacts DEF Ended, Alike
      <4> QED
          BY <2>a, <4>1
    <3> QED
        BY <3>1, <3>2
  <2>4. CASE SpawnStep
    <3>1. \/ call'[b] = call[b]
          \/ task[b].pc = "loop"
        BY <2>4, <2>a, SpawnFacts
    <3>2. \/ task'[b].pc = task[b].pc
          \/ task'[b].pc = "created" /\ ~Used(b) /\ call'[b] = call[b]
      <4>1. CASE UNCHANGED task
          BY <4>1
      <4>2. ASSUME NEW t \in TaskIds, NEW p \in Agents, NEW depth \in Nat,
                   NEW resume \in BOOLEAN, Made(t, p, depth, resume)
            PROVE  task'[b].pc = task[b].pc \/ (task'[b].pc = "created" /\ ~Used(b))
          BY <4>2 DEF Made
      <4> QED
          BY <2>4, <3>1, <4>1, <4>2, SpawnFacts DEF Used
    <3> QED
        BY <2>a, <3>1, <3>2 DEF Used
  <2> QED
      BY <2>1, <2>2, <2>3, <2>4, StepKinds
<1> QED
    BY <1>a, <1>b, <1>c, <1>d DEF Calls

\* A parent that leaves its loop takes the children that execute with it, or was told not to.
LEMMA CascadedStep ==
    ASSUME DelegationInv, [Next]_vars
    PROVE  Cascaded'
<1> USE DEF DelegationInv
<1> SUFFICES ASSUME NEW p \in TaskIds, NEW t \in TaskIds, Executing(t)',
                    task'[t].parent = p, ~task'[t].resumed
             PROVE  \/ task'[p].pc = "loop"
                    \/ task'[p].pc = "reaping" /\ t \in call'[p].on
                    \/ task'[p].pc \in {"cleanup", "over"} /\ task'[p].detached
    BY DEF Cascaded
<1>a. p \in Agents
    BY DEF Agents
<1>b. ASSUME Executing(t), task[t].parent = p, ~task[t].resumed
      PROVE  /\ \/ task[p].pc = "loop"
                \/ task[p].pc = "reaping" /\ t \in call[p].on
                \/ task[p].pc \in {"cleanup", "over"} /\ task[p].detached
             /\ Used(t) /\ Used(p) /\ t \in Children(p) /\ Live(t)
    BY <1>b DEF Cascaded, Kept, Parents, Executing, Used, Live, Children, Running
<1>1. CASE TalkStep
  <2>1. Executing(t) /\ task[t].parent = p /\ ~task[t].resumed
      BY <1>1, TalkFacts DEF Alike, Executing
  <2>2. task'[p].pc = task[p].pc /\ task'[p].detached = task[p].detached
      BY <1>1, TalkFacts DEF Alike
  <2>3. task[p].pc = "reaping" => call'[p] = call[p]
      BY <1>1, <1>a, TalkCalls
  <2> QED
      BY <1>b, <2>1, <2>2, <2>3
<1>2. ASSUME NEW u \in TaskIds, Start(u) \/ WorktreeReady(u)
      PROVE  \/ task'[p].pc = "loop"
             \/ task'[p].pc = "reaping" /\ t \in call'[p].on
             \/ task'[p].pc \in {"cleanup", "over"} /\ task'[p].detached
  <2>1. /\ task[u].pc \in {"created", "worktree"} /\ task'[u].pc \in {"worktree", "loop"}
        /\ task'[u].parent = task[u].parent /\ task'[u].resumed = task[u].resumed
        /\ call' = call /\ \A v \in TaskIds \ {u} : task'[v] = task[v]
      BY <1>2, MoveFacts
  <2>2. Executing(t) /\ task[t].parent = p /\ ~task[t].resumed
      BY <2>1 DEF Executing
  <2> QED
      BY <1>b, <2>1, <2>2
<1>3. ASSUME NEW u \in TaskIds, EndStep(u)
      PROVE  \/ task'[p].pc = "loop"
             \/ task'[p].pc = "reaping" /\ t \in call'[p].on
             \/ task'[p].pc \in {"cleanup", "over"} /\ task'[p].detached
  <2>1. Ended(u)
      BY <1>3, EndFacts
  <2>2. t # u
      BY <2>1 DEF Ended, Executing
  <2>3. Executing(t) /\ task[t].parent = p /\ ~task[t].resumed
      BY <2>1, <2>2 DEF Ended, Alike, Executing
  <2>4. CASE p # u
    <3>1. /\ task'[p].pc = task[p].pc /\ task'[p].detached = task[p].detached
        BY <2>1, <2>4 DEF Ended, Alike
    <3>2. call'[p] = call[p]
        BY <1>3, <1>a, <2>4, EndFacts
    <3> QED
        BY <1>b, <2>3, <3>1, <3>2
  <2>5. CASE p = u
    <3>1. t \in {c \in Children(p) : Live(c)}
        BY <1>b, <2>3
    <3>2. task[p].pc = "reaping" => t \in Gathered(p)
        BY <1>a, <1>b, <2>3 DEF Gathered, Calls
    <3> QED
        BY <1>3, <1>b, <2>3, <2>5, <3>1, <3>2, EndFacts
  <2> QED
      BY <2>4, <2>5
<1>4. CASE SpawnStep
  <2>1. task[p].pc = "reaping" => call'[p] = call[p]
      BY <1>4, <1>a, SpawnFacts
  <2>2. CASE UNCHANGED task
      BY <1>b, <2>1, <2>2 DEF Executing
  <2>3. ASSUME NEW n \in TaskIds, NEW q \in Agents, NEW depth \in Nat, NEW resume \in BOOLEAN,
               Made(n, q, depth, resume)
        PROVE  \/ task'[p].pc = "loop"
               \/ task'[p].pc = "reaping" /\ t \in call'[p].on
               \/ task'[p].pc \in {"cleanup", "over"} /\ task'[p].detached
    <3>1. /\ ~Used(n) /\ task'[n].parent = q /\ task'[n].resumed = resume
          /\ q \in TaskIds => Used(q) /\ (resume \/ task[q].pc = "loop")
          /\ \A u \in TaskIds \ {n} : task'[u] = task[u]
        BY <2>3 DEF Made
    <3>2. CASE t = n
        BY <3>1, <3>2
    <3>3. CASE t # n
      <4>1. Executing(t) /\ task[t].parent = p /\ ~task[t].resumed
          BY <3>1, <3>3 DEF Executing
      <4>2. p # n
          BY <1>b, <3>1, <4>1
      <4> QED
          BY <1>b, <2>1, <3>1, <4>1, <4>2
    <3> QED
        BY <3>2, <3>3
  <2> QED
      BY <1>4, <2>2, <2>3, SpawnFacts
<1> QED
    BY <1>1, <1>2, <1>3, <1>4, StepKinds DEF MoveStep

\* A session that is being stopped gets no new task.
LEMMA DrainsStep ==
    ASSUME DelegationInv, [Next]_vars
    PROVE  Drains'
<1> USE DEF DelegationInv
<1>1. CASE NoNew /\ UNCHANGED <<stopping, draining>>
    BY <1>1 DEF NoNew, Drains
<1>2. ASSUME NEW s \in Sessions, Stop(s)
      PROVE  Drains'
  <2>1. /\ draining' = {t \in Running : task[t].session = s /\ Live(t)}
        /\ stopping' \in {s, None}
      BY <1>2 DEF Stop
  <2>2. \A t \in TaskIds : Executing(t)' /\ task'[t].session = s =>
            Executing(t) /\ task[t].session = s
    <3>1. TalkStep
        BY <1>2 DEF TalkStep
    <3> QED
        BY <3>1, TalkFacts DEF Alike, Executing
  <2>3. \A t \in TaskIds : Executing(t) => t \in Running /\ Live(t)
      BY DEF Kept, Running, Executing, Live
  <2> QED
      BY <2>1, <2>2, <2>3 DEF Drains
<1>3. CASE StopReturns
    BY <1>3 DEF StopReturns, Drains
<1>4. ASSUME NEW t \in TaskIds, NEW p \in Agents, NEW depth \in Nat, NEW resume \in BOOLEAN,
             Made(t, p, depth, resume), UNCHANGED <<stopping, draining>>
      PROVE  Drains'
    BY <1>4 DEF Made, LockFree, Drains, Executing
<1>5. CASE TalkStep
  <2>1. CASE UNCHANGED <<stopping, draining>>
    <3>1. \A t \in TaskIds : Executing(t)' => Executing(t) /\ task'[t].session = task[t].session
        BY <1>5, TalkFacts DEF Alike, Executing
    <3> QED
        BY <2>1, <3>1 DEF Drains
  <2> QED
      BY <1>2, <1>3, <1>5, <2>1
      DEF TalkStep, Wait, Kill, WaitReturns, KillGathered, KillReturns, Timeout, RootTurnEnds, vars
<1>6. CASE ~TalkStep
  <2>1. UNCHANGED <<stopping, draining>>
      BY <1>6, StepKinds, MoveFacts, EndFacts, SpawnFacts DEF MoveStep
  <2> QED
      BY <1>1, <1>4, <2>1, NoNewOrMade
<1> QED
    BY <1>5, <1>6

-----------------------------------------------------------------------------
(* Types *)

\* Every step keeps the types.
LEMMA TypeStep ==
    ASSUME DelegationInv, [Next]_vars
    PROVE  TypeOK'
<1> USE DEF DelegationInv
\* A task that is used has a parent, and its depth is within the limit.
<1>1. \A t \in TaskIds : task'[t].pc # "none" => task'[t].parent # None /\ task'[t].depth < MaxDepth
  <2>1. CASE NoNew
      BY <2>1 DEF NoNew, Used, TypeOK
  <2>2. ASSUME NEW t \in TaskIds, NEW p \in Agents, NEW depth \in Nat, NEW resume \in BOOLEAN,
               Made(t, p, depth, resume)
        PROVE  \A u \in TaskIds :
                   task'[u].pc # "none" => task'[u].parent # None /\ task'[u].depth < MaxDepth
    <3>1. p # None
        BY NamesAssumption DEF Agents
    <3> QED
        BY <2>2, <3>1 DEF Made, Allowed, TypeOK
  <2> QED
      BY <2>1, <2>2, NoNewOrMade
<1>2. CASE TalkStep
  <2>1. /\ task' \in [TaskIds -> TaskState] /\ cancel' \in [Agents -> BOOLEAN]
        /\ UNCHANGED <<records, handles, finishOrder>> /\ consumed' \subseteq TaskIds
        /\ call' \in [Agents -> CallState]
      BY <1>2, TalkFacts, TalkCalls
  <2>2. stopping' \in Sessions \cup {None} /\ draining' \subseteq TaskIds /\ stops' \in 0 .. MaxStops
    <3>1. CASE UNCHANGED <<stopping, draining, stops>>
        BY <3>1 DEF TypeOK
    <3>2. ASSUME NEW s \in Sessions, Stop(s)
          PROVE  /\ stopping' \in Sessions \cup {None} /\ draining' \subseteq TaskIds
                 /\ stops' \in 0 .. MaxStops
      <4>1. stops < MaxStops /\ stops' = stops + 1 /\ stopping' \in {s, None}
            /\ draining' \subseteq Running
          BY <3>2 DEF Stop
      <4>2. Running \subseteq TaskIds /\ MaxStops \in Nat /\ stops \in 0 .. MaxStops
          BY PolicyAssumption DEF TypeOK, Running
      <4> QED
          BY <4>1, <4>2
    <3>3. CASE StopReturns
        BY <3>3 DEF StopReturns, TypeOK
    <3> QED
        BY <1>2, <3>1, <3>2, <3>3
        DEF TalkStep, Wait, Kill, WaitReturns, KillGathered, KillReturns, Timeout, RootTurnEnds,
            vars
  <2> QED
      BY <1>1, <2>1, <2>2 DEF TypeOK
<1>3. CASE MoveStep
  <2>1. /\ task' \in [TaskIds -> TaskState]
        /\ UNCHANGED <<records, handles, consumed, finishOrder, call, cancel, stopping,
                       draining, stops>>
      BY <1>3, MoveFacts DEF MoveStep
  <2> QED
      BY <1>1, <2>1 DEF TypeOK
<1>4. ASSUME NEW t \in TaskIds, EndStep(t)
      PROVE  TypeOK'
  <2>1. /\ Ended(t) /\ cancel' \in [Agents -> BOOLEAN] /\ call' \in [Agents -> CallState]
        /\ finishOrder' \in Seq(TaskIds) /\ UNCHANGED <<stopping, draining, stops>>
      BY <1>4, EndFacts
  <2> QED
      BY <1>1, <2>1 DEF TypeOK, Ended
<1>5. CASE SpawnStep
  <2>1. /\ UNCHANGED <<consumed, finishOrder, cancel, stopping, draining, stops>>
        /\ call' \in [Agents -> CallState]
      BY <1>5, SpawnFacts
  <2>2. /\ task' \in [TaskIds -> TaskState] /\ records' \subseteq TaskIds
        /\ handles' \subseteq TaskIds
      BY <1>5, SpawnFacts DEF Made, TypeOK
  <2> QED
      BY <1>1, <2>1, <2>2 DEF TypeOK
<1> QED
    BY <1>2, <1>3, <1>4, <1>5, StepKinds

-----------------------------------------------------------------------------
(* Theorems *)

\* Before the first spawn there is nothing to count or to wait for.
LEMMA DelegationInit == Init => DelegationInv
<1> SUFFICES ASSUME Init PROVE DelegationInv
    OBVIOUS
<1>1. \A t \in TaskIds : task[t].pc = "none" /\ task[t].status = "pending"
    BY DEF Init
<1>2. /\ \A t \in TaskIds : ~Executing(t) /\ ~Used(t) /\ ~Finished(t)
      /\ records = {}
    BY <1>1 DEF Init, Executing, Used, Finished, Terminal
<1>3. \A a \in Agents : call[a] = Idle
    BY DEF Init
<1>4. TypeOK
  <2>1. task \in [TaskIds -> TaskState]
    <3>1. [pc |-> "none", status |-> "pending", parent |-> None, session |-> None,
           depth |-> 0, cascade |-> TRUE, wt |-> "no", fired |-> FALSE,
           hit |-> FALSE, resumed |-> FALSE, detached |-> FALSE] \in TaskState
        BY DEF TaskState
    <3> QED
        BY <3>1 DEF Init
  <2>2. call \in [Agents -> CallState]
    <3>1. Idle \in CallState
        BY DEF Idle, CallState
    <3> QED
        BY <3>1 DEF Init
  <2>3. finishOrder \in Seq(TaskIds) /\ cancel \in [Agents -> BOOLEAN] /\ stops \in 0 .. MaxStops
      BY PolicyAssumption DEF Init
  <2> QED
      BY <1>1, <2>1, <2>2, <2>3 DEF TypeOK, Init
<1>5. Kept /\ TreeShape /\ Parents /\ Cascaded
    BY <1>1, <1>2 DEF Kept, TreeShape, Parents, Cascaded
<1>6. Calls
  <2>1. \A a \in Agents : call[a].op = "none"
      BY <1>3 DEF Idle
  <2> QED
      BY <1>1, <2>1 DEF Calls
<1>7. Limits
  <2>1. Running = {} /\ \A p : Children(p) = {}
      BY <1>2 DEF Running, Children
  <2>2. Cardinality({}) = 0 /\ MaxConcurrent \in Nat /\ MaxChildren \in Nat
      BY FS_EmptySet, PolicyAssumption
  <2> QED
      BY <2>1, <2>2 DEF Limits
<1>8. Drains
    BY DEF Init, Drains
<1> QED
    BY <1>4, <1>5, <1>6, <1>7, <1>8 DEF DelegationInv

\* Every step keeps every part.
LEMMA DelegationStep == DelegationInv /\ [Next]_vars => DelegationInv'
<1> SUFFICES ASSUME DelegationInv, [Next]_vars PROVE DelegationInv'
    OBVIOUS
<1>1. TypeOK' /\ Kept' /\ TreeShape' /\ Parents' /\ Calls' /\ Limits' /\ Cascaded' /\ Drains'
    BY TypeStep, TreeStep, CallsStep, LimitsStep, CascadedStep, DrainsStep
<1> QED
    BY <1>1 DEF DelegationInv

\* The inductive invariant of the executor.
THEOREM DelegationInvariant == Spec => []DelegationInv
BY DelegationInit, DelegationStep, PTL DEF Spec

\* Records, asyncio tasks and calls have their types, and no task is deeper than
\* max_depth (SubagentExecutor).
THEOREM DelegationTypes == Spec => []TypeOK
<1>1. DelegationInv => TypeOK
    BY DEF DelegationInv
<1> QED
    BY <1>1, DelegationInvariant, PTL

\* The tasks form a tree below the root turns, with spawns that waited for a lock
\* and with continued tasks (spawn, send_message).
THEOREM DelegationTree == Spec => []TreeShape
<1>1. DelegationInv => TreeShape
    BY DEF DelegationInv
<1> QED
    BY <1>1, DelegationInvariant, PTL

\* What executes stays within max_concurrent and max_children_per_agent
\* (_spawn_policy_error).
THEOREM DelegationLimits == Spec => []WithinLimits
<1>1. DelegationInv => WithinLimits
  <2> SUFFICES ASSUME DelegationInv PROVE WithinLimits
      OBVIOUS
  <2> USE DEF DelegationInv
  <2> DEFINE below(p) == {t \in TaskIds : Executing(t) /\ task[t].parent = p}
             all      == {t \in TaskIds : Executing(t)}
  <2>1. all \subseteq Running /\ \A p \in TaskIds : below(p) \subseteq Children(p)
      BY DEF Kept, Running, Children
  <2>2. /\ Cardinality(all) <= Cardinality(Running) /\ Cardinality(all) \in Nat
        /\ \A p \in TaskIds : /\ Cardinality(below(p)) <= Cardinality(Children(p))
                              /\ Cardinality(below(p)) \in Nat
    <3> HIDE DEF all, below
    <3> QED
        BY <2>1, RunningFinite, FS_Subset, FS_CardinalityType
  <2>3. /\ Cardinality(Running) <= MaxConcurrent
        /\ \A p \in TaskIds : Cardinality(Children(p)) <= MaxChildren
      BY DEF Limits
  <2>4. MaxConcurrent \in Nat /\ MaxChildren \in Nat
      BY PolicyAssumption
  <2>5. Cardinality(all) <= MaxConcurrent
        /\ \A p \in TaskIds : Cardinality(below(p)) <= MaxChildren
    <3> HIDE DEF all, below
    <3> QED
        BY <2>2, <2>3, <2>4, RunningFinite
  <2> QED
      BY <2>5 DEF WithinLimits
<1> QED
    BY <1>1, DelegationInvariant, PTL

\* A task that is over leaves no child executing, unless it was told not to cascade or
\* send_message made the child (the finally of _execute).
THEOREM DelegationNoOrphans == Spec => []NoLiveOrphans
<1>1. DelegationInv => NoLiveOrphans
    BY DEF DelegationInv, Cascaded, NoLiveOrphans
<1> QED
    BY <1>1, DelegationInvariant, PTL

\* When cancel_by_session returns, no task of its session executes.
THEOREM DelegationStopDrains == Spec => StopDrains
<1>1. DelegationInv /\ [Next]_vars =>
        [stopping # None /\ stopping' = None =>
            \A t \in TaskIds : task[t].session = stopping => ~Executing(t)]_vars
  <2> SUFFICES ASSUME DelegationInv, Next, stopping # None, stopping' = None,
                      NEW t \in TaskIds, task[t].session = stopping
               PROVE  ~Executing(t)
      OBVIOUS
  <2> USE DEF DelegationInv
  <2>1. \A u \in draining : ~Live(u)
    <3>1. \A s \in Sessions : ~Stop(s)
        BY DEF Stop
    <3>2. TalkStep
        BY StepKinds, MoveFacts, EndFacts, SpawnFacts DEF MoveStep
    <3> QED
        BY <3>1, <3>2
        DEF TalkStep, Wait, Kill, WaitReturns, KillGathered, KillReturns, Timeout, RootTurnEnds,
            StopReturns, vars
  <2>2. Executing(t) => t \in draining /\ Live(t)
      BY DEF Drains, Executing, Live
  <2> QED
      BY <2>1, <2>2
<1> QED
    BY <1>1, DelegationInvariant, PTL DEF Spec, StopDrains
-----------------------------------------------------------------------------
(* The order of the ends, and what is evicted *)

\* A step of a task's end either records that end, or changes no status; and what it
\* evicts, it evicts as _gc_results does.
EndsAs(t) ==
    /\ \/ /\ task[t].pc = "loop" /\ task'[t].status \in Terminal
          /\ finishOrder' = Append(finishOrder, t)
       \/ /\ task[t].pc \in {"created", "worktree", "reaping", "cleanup"}
          /\ task'[t].status = task[t].status /\ finishOrder' = finishOrder
    /\ \/ UNCHANGED records
       \/ /\ Live(t) /\ task'[t].pc = "over"
          /\ \E tk \in [TaskIds -> TaskState] :
                /\ Retire(t, tk, finishOrder') /\ tk[t].parent = task[t].parent
                /\ \A u \in TaskIds : tk[u].status = task'[u].status

LEMMA EndOrder ==
    ASSUME TypeOK, Calls, NEW t \in TaskIds, EndStep(t)
    PROVE  EndsAs(t)
<1>a. task \in [TaskIds -> TaskState] /\ task[t] \in TaskState /\ records \subseteq TaskIds
    BY DEF TypeOK
<1>b. ASSUME NEW tk \in [TaskIds -> TaskState], NEW order, Retire(t, tk, order)
      PROVE  task'[t].pc = "over" /\ \A u \in TaskIds : tk[u].status = task'[u].status
  <2>1. /\ task' \in [TaskIds -> TaskState] /\ task'[t].pc = "over"
        /\ Alike([task'[t] EXCEPT !.pc = tk[t].pc], tk[t])
        /\ \A u \in TaskIds \ {t} : task'[u] = tk[u]
      BY <1>b, RetireFacts
  <2>2. task'[t].status = tk[t].status
      BY <2>1, AlikeButPc
  <2> QED
      BY <2>1, <2>2
<1>c. ASSUME NEW tk \in [TaskIds -> TaskState], AfterReaping(t, tk, finishOrder'), Live(t),
             tk[t].parent = task[t].parent
      PROVE  /\ task'[t].status = tk[t].status
             /\ \/ UNCHANGED records
                \/ /\ Live(t) /\ task'[t].pc = "over"
                   /\ \E u \in [TaskIds -> TaskState] :
                         /\ Retire(t, u, finishOrder') /\ u[t].parent = task[t].parent
                         /\ \A v \in TaskIds : u[v].status = task'[v].status
  <2>1. task'[t].status = tk[t].status
    <3>1. /\ task' \in [TaskIds -> TaskState]
          /\ Alike([task'[t] EXCEPT !.pc = tk[t].pc], tk[t])
        BY <1>c, AfterReapingFacts
    <3> QED
        BY <3>1, AlikeButPc
  <2>2. CASE Retire(t, tk, finishOrder')
      BY <2>1, <2>2, <1>b, <1>c
  <2>3. CASE UNCHANGED <<records, handles, consumed>>
      BY <2>1, <2>3
  <2> QED
      BY <2>2, <2>3, <1>c DEF AfterReaping
<1>d. ASSUME Abort(t) PROVE task'[t].status = task[t].status /\ UNCHANGED <<records, finishOrder>>
  <2>1. task'[t] = [task[t] EXCEPT !.pc = "over", !.wt = "no"]
      BY <1>a, <1>d DEF Abort
  <2> QED
      BY <1>a, <1>d, <2>1 DEF Abort, TaskState
<1>1. ASSUME NEW s \in Terminal, Finish(t, s), task[t].pc = "loop"
      PROVE  EndsAs(t)
  <2> DEFINE kids == IF task[t].cascade THEN {c \in Children(t) : Live(c)} ELSE {}
             tk   == [task EXCEPT ![t].status = s, ![t].fired = FALSE, ![t].hit = FALSE,
                                  ![t].detached = ~task[t].cascade]
  <2>1. /\ finishOrder' = Append(finishOrder, t) /\ task'[t].status \in Terminal
        /\ Live(t)
      BY <1>1, FinishFacts DEF Live
  <2>2. UNCHANGED records \/ AfterReaping(t, tk, finishOrder')
      BY <1>1 DEF Finish
  <2>3. tk \in [TaskIds -> TaskState] /\ tk[t].parent = task[t].parent
    <3>1. task[t].cascade \in BOOLEAN
        BY <1>a, TaskFields
    <3>2. [task[t] EXCEPT !.status = s, !.fired = FALSE, !.hit = FALSE,
                          !.detached = ~task[t].cascade] \in TaskState
        BY <1>a, <3>1 DEF TaskState
    <3>3. tk = [task EXCEPT ![t] =
                  [task[t] EXCEPT !.status = s, !.fired = FALSE, !.hit = FALSE,
                                  !.detached = ~task[t].cascade]]
        BY <1>a DEF TaskState
    <3> QED
        BY <1>a, <3>2, <3>3 DEF TaskState
  <2> HIDE DEF tk
  <2> QED
      BY <2>1, <2>2, <2>3, <1>1, <1>c DEF EndsAs
<1>2. CASE CancelledEarly(t)
    BY <1>2, <1>d DEF CancelledEarly, EndsAs
<1>3. CASE LoopEnds(t)
    BY <1>1, <1>3 DEF LoopEnds, Terminal
<1>4. CASE LoopCancelled(t)
  <2>1. /\ task[t].pc = "loop"
        /\ \E s \in {"timed_out", "cancelled"} : Finish(t, s)
      BY <1>4 DEF LoopCancelled
  <2> QED
      BY <1>1, <2>1 DEF Terminal
<1>5. CASE Reaped(t)
  <2>1. CASE AfterReaping(t, task, finishOrder) /\ UNCHANGED finishOrder
    <3>1. Live(t)
        BY <1>5 DEF Reaped, Live
    <3> QED
        BY <2>1, <3>1, <1>5, <1>a, <1>c DEF Reaped, EndsAs
  <2> QED
      BY <2>1, <1>d, <1>5 DEF Reaped, EndsAs
<1>6. CASE CleanedUp(t)
  <2>1. CASE Retire(t, task, finishOrder) /\ UNCHANGED finishOrder
    <3>1. Live(t)
        BY <1>6 DEF CleanedUp, Live
    <3> QED
        BY <2>1, <3>1, <1>6, <1>a, <1>b DEF CleanedUp, EndsAs
  <2> QED
      BY <2>1, <1>d, <1>6 DEF CleanedUp, EndsAs
<1> QED
    BY <1>2, <1>3, <1>4, <1>5, <1>6 DEF EndStep

\* The order of the ends stays without repetition and holds just what ended.
LEMMA OrderedStep ==
    ASSUME DelegationInv, Ordered, [Next]_vars
    PROVE  Ordered'
<1> USE DEF DelegationInv
<1>a. /\ finishOrder \in Seq(TaskIds) /\ task \in [TaskIds -> TaskState]
      /\ \A u \in TaskIds : Executing(u) => ~Finished(u)
    BY DEF TypeOK, Kept
<1>1. ASSUME finishOrder' = finishOrder, \A u \in TaskIds : Finished(u)' <=> Finished(u)
      PROVE  Ordered'
    BY <1>1 DEF Ordered, NoTwice
<1>2. CASE TalkStep
    BY <1>1, <1>2, TalkFacts DEF Alike, Finished
<1>3. ASSUME NEW t \in TaskIds, Start(t) \/ WorktreeReady(t)
      PROVE  Ordered'
  <2>1. /\ task[t].pc \in {"created", "worktree"}
        /\ task'[t].status \in {"running", task[t].status}
        /\ \A u \in TaskIds \ {t} : task'[u] = task[u]
        /\ finishOrder' = finishOrder
      BY <1>3, MoveFacts
  <2>2. ~Finished(t) /\ ~Finished(t)'
      BY <2>1, <1>a DEF Executing, Finished, Terminal
  <2> QED
      BY <1>1, <2>1, <2>2 DEF Finished
<1>4. ASSUME NEW t \in TaskIds, EndStep(t)
      PROVE  Ordered'
  <2>1. EndsAs(t) /\ \A u \in TaskIds \ {t} : Finished(u)' <=> Finished(u)
    <3>1. Ended(t)
        BY <1>4, EndFacts
    <3> QED
        BY <1>4, <3>1, EndOrder DEF Ended, Alike, Finished
  <2>2. CASE task'[t].status = task[t].status /\ finishOrder' = finishOrder
      BY <1>1, <2>1, <2>2 DEF Finished
  <2>3. CASE /\ task[t].pc = "loop" /\ task'[t].status \in Terminal
             /\ finishOrder' = Append(finishOrder, t)
    <3>1. ~Finished(t) /\ Finished(t)'
        BY <1>a, <2>3 DEF Executing, Finished
    <3>2. \A i \in 1 .. Len(finishOrder) : finishOrder[i] \in TaskIds /\ finishOrder[i] # t
        BY <1>a, <3>1 DEF Ordered
    <3>3. /\ Len(finishOrder') = Len(finishOrder) + 1 /\ Len(finishOrder) \in Nat
          /\ finishOrder'[Len(finishOrder) + 1] = t
          /\ \A i \in 1 .. Len(finishOrder) : finishOrder'[i] = finishOrder[i]
        BY <1>a, <2>3
    <3>4. NoTwice(finishOrder')
        BY <3>2, <3>3 DEF Ordered, NoTwice
    <3>5. ASSUME NEW u \in TaskIds
          PROVE  Finished(u)' <=> \E i \in 1 .. Len(finishOrder') : finishOrder'[i] = u
      <4>1. CASE u = t
          BY <3>1, <3>3, <4>1
      <4>2. CASE u # t
        <5>1. Finished(u)' <=> \E i \in 1 .. Len(finishOrder) : finishOrder[i] = u
            BY <2>1, <4>2 DEF Ordered
        <5> QED
            BY <5>1, <3>3, <4>2
      <4> QED
          BY <4>1, <4>2
    <3> QED
        BY <3>4, <3>5 DEF Ordered
  <2> QED
      BY <2>1, <2>2, <2>3 DEF EndsAs
<1>5. CASE SpawnStep
  <2>1. /\ finishOrder' = finishOrder
        /\ \/ UNCHANGED <<task, records, handles>>
           \/ \E t \in TaskIds, p \in Agents, depth \in Nat, resume \in BOOLEAN :
                  Made(t, p, depth, resume)
      BY <1>5, SpawnFacts
  <2>2. ASSUME NEW t \in TaskIds, NEW p \in Agents, NEW depth \in Nat, NEW resume \in BOOLEAN,
               Made(t, p, depth, resume)
        PROVE  \A u \in TaskIds : Finished(u)' <=> Finished(u)
      BY <2>2 DEF Made, Finished, Kept, Used
  <2> QED
      BY <1>1, <2>1, <2>2 DEF Finished
<1> QED
    BY <1>2, <1>3, <1>4, <1>5, StepKinds DEF MoveStep

\* How a task ended stays.
LEMMA FinalStep ==
    ASSUME DelegationInv, [Next]_vars, NEW t \in TaskIds, Finished(t)
    PROVE  task'[t].status = task[t].status
<1> USE DEF DelegationInv
<1>a. \A u \in TaskIds : Executing(u) => u # t
    BY DEF Kept
<1>1. CASE TalkStep
    BY <1>1, TalkFacts DEF Alike
<1>2. CASE MoveStep
    BY <1>2, <1>a, MoveFacts DEF MoveStep, Executing
<1>3. ASSUME NEW u \in TaskIds, EndStep(u)
      PROVE  task'[t].status = task[t].status
  <2>1. u # t => task'[t].status = task[t].status
      BY <1>3, EndFacts DEF Ended, Alike
  <2>2. task[u].pc = "loop" => u # t
      BY <1>a DEF Executing
  <2> QED
      BY <1>3, <2>1, <2>2, EndOrder DEF EndsAs
<1>4. CASE SpawnStep
    BY <1>4, SpawnFacts DEF Made, Kept, Used
<1> QED
    BY <1>1, <1>2, <1>3, <1>4, StepKinds

\* The tasks that ended, in the order of their ends (_finish_record).
THEOREM DelegationOrder == Spec => []Ordered
<1>1. Init => Ordered
    BY DEF Init, Ordered, NoTwice, Finished, Terminal
<1>2. DelegationInv /\ Ordered /\ [Next]_vars => Ordered'
    BY OrderedStep
<1> QED
    BY <1>1, <1>2, DelegationInvariant, PTL DEF Spec

\* A nonempty set of tasks in the order has a latest one.
LEMMA Latest ==
    ASSUME NEW order \in Seq(TaskIds), NoTwice(order), NEW S \in SUBSET TaskIds, S # {},
           \A u \in S : \E i \in 1 .. Len(order) : order[i] = u
    PROVE  \E t \in S : \A u \in S \ {t} : Older(order, u, t)
<1> DEFINE n == Len(order)
           away == {k \in Nat : k < n /\ order[n - k] \in S}
<1>1. n \in Nat
    OBVIOUS
<1>2. \A u \in S : \E k \in away : order[n - k] = u
  <2> SUFFICES ASSUME NEW u \in S PROVE \E k \in away : order[n - k] = u
      OBVIOUS
  <2>1. PICK i \in 1 .. n : order[i] = u
      OBVIOUS
  <2>2. n - i \in Nat /\ n - i < n /\ n - (n - i) = i
      BY <1>1
  <2> QED
      BY <2>1, <2>2
<1>3. away # {} /\ away \subseteq Nat
    BY <1>2
<1>4. PICK k \in away : \A l \in away : ~(l < k)
  <2> HIDE DEF away
  <2>1. \E k \in away : \A l \in away : ~(<<l, k>> \in OpToRel(<, Nat))
      BY <1>3, NatLessThanWellFounded, WFMin
  <2>2. \A k, l \in Nat : l < k => <<l, k>> \in OpToRel(<, Nat)
      BY DEF OpToRel
  <2> QED
      BY <1>3, <2>1, <2>2
<1>5. ASSUME NEW u \in S \ {order[n - k]}
      PROVE  Older(order, u, order[n - k])
  <2>1. PICK l \in away : order[n - l] = u
      BY <1>2
  <2>2. l # k /\ k < l
      BY <1>4, <2>1
  <2>3. n - l \in 1 .. n /\ n - k \in 1 .. n /\ n - l < n - k
      BY <1>1, <1>4, <2>2
  <2> QED
      BY <2>1, <2>3 DEF Older
<1> QED
    BY <1>4, <1>5

\* What _gc_results drops, for an order that has every finished record just once.
Done(tk) == {u \in records : tk[u].status \in Terminal}

EvictsWell(done, gone, seen, order) ==
    /\ gone \subseteq done \cap seen
    /\ gone # {} => Cardinality(done \ gone) >= KeepCompleted
    /\ \A t \in gone : \A u \in (done \cap seen) \ gone : Older(order, t, u)

LEMMA EvictedFacts ==
    ASSUME NEW order \in Seq(TaskIds), NoTwice(order), records \subseteq TaskIds,
           NEW tk, NEW seen,
           \A u \in records : tk[u].status \in Terminal =>
               \E i \in 1 .. Len(order) : order[i] = u
    PROVE  EvictsWell(Done(tk), Evicted(tk, seen, order), seen, order)
<1> DEFINE done == Done(tk)
           gone == Evicted(tk, seen, order)
           may     == done \cap seen
           rank(u) == Cardinality({v \in may : Older(order, v, u)})
<1>1. gone = {u \in may : Cardinality(done) > KeepCompleted + rank(u)}
    BY DEF Evicted, Done
<1>b. done \subseteq TaskIds /\ \A u \in done : \E i \in 1 .. Len(order) : order[i] = u
    BY DEF Done
<1> HIDE DEF done, gone
<1>2. IsFiniteSet(done) /\ IsFiniteSet(may) /\ done \subseteq TaskIds /\ gone \subseteq may
  <2>1. done \subseteq TaskIds
      BY <1>b
  <2>2. IsFiniteSet(done)
      BY <2>1, NamesAssumption, FS_Subset
  <2>3. IsFiniteSet(may)
      BY <2>2, FS_Subset
  <2> QED
      BY <2>1, <2>2, <2>3, <1>1
<1>3. \A u : IsFiniteSet({v \in may : Older(order, v, u)}) /\ rank(u) \in Nat
  <2> SUFFICES ASSUME NEW u
               PROVE  IsFiniteSet({v \in may : Older(order, v, u)}) /\ rank(u) \in Nat
      OBVIOUS
  <2>1. {v \in may : Older(order, v, u)} \in SUBSET may
      OBVIOUS
  <2>2. IsFiniteSet({v \in may : Older(order, v, u)})
      BY <1>2, <2>1, FS_Subset
  <2> QED
      BY <2>2, FS_CardinalityType
<1>4. Cardinality(done) \in Nat /\ KeepCompleted \in Nat
    BY <1>2, FS_CardinalityType, PolicyAssumption
<1>5. \A u \in may : \E i \in 1 .. Len(order) : order[i] = u
    BY <1>b
<1>6. ASSUME gone # {}
      PROVE  Cardinality(done \ gone) >= KeepCompleted
  <2>1. PICK t \in gone : \A u \in gone \ {t} : Older(order, u, t)
    <3>1. gone \in SUBSET TaskIds /\ \A u \in gone : \E i \in 1 .. Len(order) : order[i] = u
        BY <1>2, <1>5
    <3> HIDE DEF may
    <3> QED
        BY <1>6, <3>1, Latest
  <2>2. gone \ {t} \in SUBSET {v \in may : Older(order, v, t)}
      BY <1>2, <2>1
  <2>3. IsFiniteSet(gone) /\ Cardinality(gone) \in Nat
    <3>1. gone \in SUBSET may
        BY <1>2
    <3> QED
        BY <1>2, <3>1, FS_Subset, FS_CardinalityType
  <2>4. Cardinality(gone \ {t}) = Cardinality(gone) - 1
      BY <2>1, <2>3, FS_RemoveElement
  <2>5. Cardinality(gone \ {t}) <= rank(t)
      BY <1>3, <2>2, FS_Subset
  <2>6. Cardinality(done) > KeepCompleted + rank(t)
      BY <1>1, <2>1
  <2>7. Cardinality(done \ gone) = Cardinality(done) - Cardinality(gone)
    <3>1. done \cap gone = gone
        BY <1>2
    <3>2. Cardinality(done \ gone) = Cardinality(done) - Cardinality(done \cap gone)
        BY <1>2, FS_Difference
    <3> QED
        BY <3>1, <3>2
  <2>8. rank(t) \in Nat
      BY <1>3
  <2> HIDE DEF rank, may
  <2> QED
      BY <1>4, <2>3, <2>4, <2>5, <2>6, <2>7, <2>8
<1>7. ASSUME NEW t \in gone, NEW u \in may \ gone
      PROVE  Older(order, t, u)
  <2>1. Cardinality(done) > KeepCompleted + rank(t) /\ ~(Cardinality(done) > KeepCompleted + rank(u))
      BY <1>1, <1>7
  <2>2. rank(t) \in Nat /\ rank(u) \in Nat
      BY <1>3
  <2>3. ~(rank(u) <= rank(t))
    <3> HIDE DEF rank, may
    <3> QED
        BY <1>4, <2>1, <2>2
  <2>4. PICK i \in 1 .. Len(order), j \in 1 .. Len(order) : order[i] = t /\ order[j] = u
      BY <1>2, <1>5, <1>7
  <2>5. CASE i < j
      BY <2>4, <2>5 DEF Older
  <2>6. CASE j <= i
    <3>1. {v \in may : Older(order, v, u)} \in SUBSET {v \in may : Older(order, v, t)}
      <4> SUFFICES ASSUME NEW v \in may, Older(order, v, u)
                   PROVE  Older(order, v, t)
          OBVIOUS
      <4>1. PICK k \in 1 .. Len(order), l \in 1 .. Len(order) :
                k < l /\ order[k] = v /\ order[l] = u
          BY DEF Older
      <4>2. l = j
          BY <2>4, <4>1 DEF NoTwice
      <4>3. k < i
          BY <2>6, <4>1, <4>2
      <4> QED
          BY <2>4, <4>1, <4>3 DEF Older
    <3>2. rank(u) <= rank(t)
        BY <1>3, <3>1, FS_Subset
    <3> QED
        BY <3>2, <2>3
  <2> QED
      BY <2>4, <2>5, <2>6
<1> QED
    BY <1>2, <1>6, <1>7 DEF EvictsWell, done, gone

\* A record is evicted only when its task is finished and its result was handed out,
\* never below keep_completed, and the oldest first (_gc_results).
LEMMA UnseenKeptStep ==
    ASSUME DelegationInv, Ordered, Ordered', [Next]_vars
    PROVE  LET seen == consumed' \cup consumed
                          \cup {t \in TaskIds : Live(t) /\ task'[t].pc = "over"
                                                   /\ task[t].parent \in Sessions}
               kept == {u \in records' : task'[u].status \in Terminal}
           IN  \A t \in records \ records' :
                  /\ task'[t].status \in Terminal /\ t \in seen
                  /\ Cardinality(kept) >= KeepCompleted
                  /\ \A u \in kept \cap seen : Older(finishOrder', t, u)
<1> USE DEF DelegationInv
<1> DEFINE seen == consumed' \cup consumed
                      \cup {t \in TaskIds : Live(t) /\ task'[t].pc = "over"
                                               /\ task[t].parent \in Sessions}
           kept == {u \in records' : task'[u].status \in Terminal}
           Goal == \A t \in records \ records' :
                      /\ task'[t].status \in Terminal /\ t \in seen
                      /\ Cardinality(kept) >= KeepCompleted
                      /\ \A u \in kept \cap seen : Older(finishOrder', t, u)
<1>a. records \subseteq TaskIds /\ task \in [TaskIds -> TaskState]
    BY DEF TypeOK
<1>1. CASE records \subseteq records'
    BY <1>1
<1>2. ASSUME NEW t \in TaskIds, EndStep(t), ~(records \subseteq records')
      PROVE  Goal
  <2>1. /\ Live(t) /\ task'[t].pc = "over"
        /\ \E tk \in [TaskIds -> TaskState] :
              /\ Retire(t, tk, finishOrder') /\ tk[t].parent = task[t].parent
              /\ \A u \in TaskIds : tk[u].status = task'[u].status
      BY <1>2, EndOrder DEF EndsAs
  <2>2. PICK tk \in [TaskIds -> TaskState] :
              /\ Retire(t, tk, finishOrder') /\ tk[t].parent = task[t].parent
              /\ \A u \in TaskIds : tk[u].status = task'[u].status
      BY <2>1
  <2> DEFINE had  == IF tk[t].parent \in Sessions THEN consumed \cup {t} ELSE consumed
             done == Done(tk)
             gone == Evicted(tk, had, finishOrder')
  <2>3. records' = records \ gone /\ consumed' = had \ gone
      BY <2>2 DEF Retire
  <2>4. \A u \in TaskIds \ {t} : task'[u].pc = task[u].pc
      BY <1>2, EndFacts DEF Ended, Alike
  <2>5. seen = had
    <3>1. {u \in TaskIds : Live(u) /\ task'[u].pc = "over" /\ task[u].parent \in Sessions}
              = IF tk[t].parent \in Sessions THEN {t} ELSE {}
        BY <2>1, <2>2, <2>4 DEF Live
    <3> HIDE DEF gone
    <3> QED
        BY <3>1, <2>3
  <2>6. kept = done \ gone
    <3> HIDE DEF gone
    <3> QED
        BY <1>a, <2>2, <2>3 DEF Done
  <2>7. /\ gone \subseteq done \cap had
        /\ gone # {} => Cardinality(done \ gone) >= KeepCompleted
        /\ \A v \in gone : \A u \in (done \cap had) \ gone : Older(finishOrder', v, u)
    <3>1. /\ finishOrder' \in Seq(TaskIds) /\ NoTwice(finishOrder')
          /\ \A u \in records : tk[u].status \in Terminal =>
                \E i \in 1 .. Len(finishOrder') : finishOrder'[i] = u
      <4>1. finishOrder' \in Seq(TaskIds)
          BY <1>2, EndFacts
      <4>2. \A u \in TaskIds : task'[u].status \in Terminal =>
                \E i \in 1 .. Len(finishOrder') : finishOrder'[i] = u
          BY DEF Ordered, Finished
      <4>3. NoTwice(finishOrder')
          BY DEF Ordered, NoTwice
      <4> QED
          BY <1>a, <2>2, <4>1, <4>2, <4>3
    <3> HIDE DEF had, done, gone
    <3>2. EvictsWell(done, gone, had, finishOrder')
        BY <1>a, <3>1, EvictedFacts DEF done, gone
    <3> QED
        BY <3>2 DEF EvictsWell
  <2>8. \A u \in done : u \in TaskIds /\ tk[u].status = task'[u].status
      BY <1>a, <2>2 DEF Done
  <2> HIDE DEF had, done, gone, seen, kept
  <2>9. \A u \in done : task'[u].status \in Terminal
      BY <2>8 DEF done, Done
  <2> QED
      BY <2>3, <2>5, <2>6, <2>7, <2>9
<1>3. CASE TalkStep
    BY <1>1, <1>3, TalkFacts
<1>4. CASE MoveStep
    BY <1>1, <1>4, MoveFacts DEF MoveStep
<1>5. CASE SpawnStep
    BY <1>1, <1>5, SpawnFacts DEF Made
<1> QED
    BY <1>1, <1>2, <1>3, <1>4, <1>5, StepKinds

\* No result is evicted before it was handed out, and never below keep_completed, with
\* the evictions of nested ends in between (_gc_results).
THEOREM DelegationUnseenKept == Spec => UnseenKept
<1>1. DelegationInv /\ Ordered /\ DelegationInv' /\ Ordered' /\ [Next]_vars =>
        [LET seen == consumed' \cup consumed
                      \cup {t \in TaskIds : Live(t) /\ task'[t].pc = "over"
                                               /\ task[t].parent \in Sessions}
             kept == {u \in records' : task'[u].status \in Terminal}
         IN  \A t \in records \ records' :
                /\ task'[t].status \in Terminal /\ t \in seen
                /\ Cardinality(kept) >= KeepCompleted
                /\ \A u \in kept \cap seen : Older(finishOrder', t, u)]_vars
    BY UnseenKeptStep
<1> QED
    BY <1>1, DelegationInvariant, DelegationOrder, PTL DEF Spec, UnseenKept

\* A terminal status is final, and the end of a task is recorded once (_finish_record).
THEOREM DelegationFinishedOnce == Spec => FinishedOnce
<1>1. DelegationInv /\ Ordered' /\ [Next]_vars =>
        [\A t \in TaskIds : Finished(t) =>
          /\ task'[t].status = task[t].status
          /\ Cardinality({i \in DOMAIN finishOrder' : finishOrder'[i] = t}) = 1]_vars
  <2> SUFFICES ASSUME DelegationInv, Ordered', [Next]_vars, NEW t \in TaskIds, Finished(t)
               PROVE  /\ task'[t].status = task[t].status
                      /\ Cardinality({i \in DOMAIN finishOrder' : finishOrder'[i] = t}) = 1
      OBVIOUS
  <2>1. task'[t].status = task[t].status
      BY FinalStep
  <2>2. DOMAIN finishOrder' = 1 .. Len(finishOrder')
      BY TypeStep DEF TypeOK
  <2>3. \E i : {j \in DOMAIN finishOrder' : finishOrder'[j] = t} = {i}
    <3>1. PICK i \in 1 .. Len(finishOrder') : finishOrder'[i] = t
        BY <2>1 DEF Ordered, Finished
    <3>2. \A j \in 1 .. Len(finishOrder') : finishOrder'[j] = t => j = i
        BY <3>1 DEF Ordered, NoTwice
    <3> QED
        BY <2>2, <3>1, <3>2
  <2> QED
      BY <2>1, <2>3, FS_Singleton
<1> QED
    BY <1>1, DelegationInvariant, DelegationOrder, PTL DEF Spec, FinishedOnce

-----------------------------------------------------------------------------
(* The executor implements TaskPool *)

\* The two modules mean the same by the size of a set.
LEMMA PoolCardinality == \A S : Pool!Cardinality(S) = Cardinality(S)
BY DEF Pool!Cardinality, Cardinality

\* A step of a task's end leaves the other tasks alone, and drops results only if
\* keep_completed of them are left.
LEMMA EndResults ==
    ASSUME DelegationInv, Ordered, Ordered', [Next]_vars, NEW t \in TaskIds, EndStep(t)
    PROVE  /\ \A u \in TaskIds \ {t} : StageOf(u)' = StageOf(u) /\ OutcomeOf(u)' = OutcomeOf(u)
           /\ \A u \in TaskIds : task'[u].parent = task[u].parent
           /\ Results' \subseteq {u \in records : Finished(u)'}
           /\ Results' # {u \in records : Finished(u)'} => Cardinality(Results') >= KeepCompleted
<1> USE DEF DelegationInv
<1>1. Ended(t) /\ records \subseteq TaskIds
    BY EndFacts DEF TypeOK
<1>2. \A u \in TaskIds \ {t} : Alike(task'[u], task[u])
    BY <1>1 DEF Ended
<1>3. \A u \in TaskIds \ {t} : StageOf(u)' = StageOf(u) /\ OutcomeOf(u)' = OutcomeOf(u)
    BY <1>2 DEF Alike, StageOf, OutcomeOf, Executing, Finished
<1>4. \A u \in TaskIds : task'[u].parent = task[u].parent
    BY <1>1, <1>2 DEF Ended, Alike
<1>5. Results' = {u \in records' : task'[u].status \in Terminal} /\ records' \subseteq records
    BY <1>1 DEF Results, Finished, Ended
<1>6. ASSUME Results' # {u \in records : Finished(u)'}
      PROVE  Cardinality(Results') >= KeepCompleted
  <2>1. PICK v \in records \ records' : TRUE
      BY <1>5, <1>6 DEF Finished
  <2> QED
      BY <2>1, <1>5, UnseenKeptStep
<1> QED
    BY <1>3, <1>4, <1>5, <1>6 DEF Finished

LEMMA PoolInit == Init => Pool!PInit
BY DEF Init, Pool!PInit, Finished, Terminal, Executing, StageOf, OutcomeOf, Results

LEMMA PoolStep ==
    ASSUME DelegationInv, Ordered, Ordered', [Next]_vars
    PROVE  [Pool!PNext]_(Pool!pvars)
<1> USE DEF DelegationInv
<1> DEFINE stage   == [t \in TaskIds |-> StageOf(t)]
           parent  == [t \in TaskIds |-> task[t].parent]
           outcome == [t \in TaskIds |-> OutcomeOf(t)]
<1>a. /\ task \in [TaskIds -> TaskState] /\ records \subseteq TaskIds
      /\ TaskIds \cap Sessions = {} /\ Agents = TaskIds \cup Sessions
      /\ \A u \in TaskIds : Executing(u) => u \in records /\ ~Finished(u)
    BY NamesAssumption DEF TypeOK, Kept, Agents
<1>b. ASSUME \A u \in TaskIds : /\ StageOf(u)' = StageOf(u) /\ OutcomeOf(u)' = OutcomeOf(u)
                                /\ task'[u].parent = task[u].parent,
             Results' = Results
      PROVE  UNCHANGED Pool!pvars
    BY <1>b DEF Pool!pvars
<1>c. ASSUME \A u \in TaskIds : Alike(task'[u], task[u]), records' = records
      PROVE  UNCHANGED Pool!pvars
  <2>1. \A u \in TaskIds : /\ StageOf(u)' = StageOf(u) /\ OutcomeOf(u)' = OutcomeOf(u)
                           /\ task'[u].parent = task[u].parent
                           /\ Finished(u)' = Finished(u)
      BY <1>c DEF Alike, StageOf, OutcomeOf, Executing, Finished
  <2>2. Results' = Results
      BY <2>1, <1>a, <1>c DEF Results
  <2> QED
      BY <2>1, <2>2, <1>b
<1>1. CASE TalkStep
    BY <1>1, <1>c, TalkFacts
<1>2. ASSUME NEW t \in TaskIds, Start(t) \/ WorktreeReady(t)
      PROVE  UNCHANGED Pool!pvars
  <2>1. /\ task[t].pc \in {"created", "worktree"} /\ task'[t].pc \in {"worktree", "loop"}
        /\ task'[t].status \in {"running", task[t].status}
        /\ task'[t].parent = task[t].parent
        /\ \A u \in TaskIds \ {t} : task'[u] = task[u]
        /\ records' = records
      BY <1>2, MoveFacts
  <2>2. ~Finished(t) /\ ~Finished(t)'
      BY <1>a, <2>1 DEF Executing, Finished, Terminal
  <2>3. StageOf(t)' = StageOf(t) /\ OutcomeOf(t)' = OutcomeOf(t)
      BY <2>1, <2>2 DEF StageOf, OutcomeOf, Executing
  <2>4. \A u \in TaskIds : /\ StageOf(u)' = StageOf(u) /\ OutcomeOf(u)' = OutcomeOf(u)
                           /\ task'[u].parent = task[u].parent
                           /\ Finished(u)' = Finished(u)
      BY <2>1, <2>2, <2>3 DEF StageOf, OutcomeOf, Executing, Finished
  <2>5. Results' = Results
      BY <1>a, <2>1, <2>4 DEF Results
  <2> QED
      BY <2>4, <2>5, <1>b
<1>3. ASSUME NEW t \in TaskIds, NEW p \in Agents, NEW depth \in Nat, NEW resume \in BOOLEAN,
             Made(t, p, depth, resume)
      PROVE  Pool!Begin(t, p)
  <2>1. /\ ~Used(t) /\ Allowed(p, depth) /\ (p \in TaskIds => Used(p))
        /\ task'[t].pc = "created" /\ task'[t].status = task[t].status /\ task'[t].parent = p
        /\ \A u \in TaskIds \ {t} : task'[u] = task[u]
        /\ records' = records \cup {t}
      BY <1>3 DEF Made
  <2>2. ~Finished(t) /\ ~Finished(t)' /\ ~Executing(t)
      BY <2>1 DEF Kept, Finished, Used, Executing
  <2>3. stage[t] = "unused" /\ (p \in TaskIds => stage[p] # "unused")
      BY <2>1 DEF Used, StageOf
  <2>4. stage' = [stage EXCEPT ![t] = "executing"]
    <3>1. StageOf(t)' = "executing" /\ \A u \in TaskIds \ {t} : StageOf(u)' = StageOf(u)
        BY <2>1 DEF StageOf, Executing
    <3> QED
        BY <3>1
  <2>5. parent' = [parent EXCEPT ![t] = p]
      BY <2>1
  <2>6. outcome' = outcome
    <3>1. \A u \in TaskIds : OutcomeOf(u)' = OutcomeOf(u)
        BY <2>1, <2>2 DEF OutcomeOf, Finished
    <3> QED
        BY <3>1
  <2>7. Results' = Results
      BY <1>a, <2>1, <2>2 DEF Results, Finished
  <2>8. /\ Pool!Executes = {u \in TaskIds : Executing(u)}
        /\ {u \in Pool!Executes : parent[u] = p} = {u \in TaskIds : Executing(u) /\ task[u].parent = p}
      BY DEF Pool!Executes, StageOf, Executing
  <2>9. /\ Cardinality({u \in TaskIds : Executing(u)}) < MaxConcurrent
        /\ p \in TaskIds =>
              Cardinality({u \in TaskIds : Executing(u) /\ task[u].parent = p}) < MaxChildren
    <3>1. /\ {u \in TaskIds : Executing(u)} \subseteq Running
          /\ {u \in TaskIds : Executing(u) /\ task[u].parent = p} \subseteq Children(p)
        BY <1>a DEF Running, Children
    <3>2. /\ Cardinality({u \in TaskIds : Executing(u)}) <= Cardinality(Running)
          /\ Cardinality({u \in TaskIds : Executing(u) /\ task[u].parent = p})
                 <= Cardinality(Children(p))
        BY <3>1, RunningFinite, FS_Subset
    <3> QED
      <4>1. /\ Cardinality({u \in TaskIds : Executing(u)}) \in Nat
            /\ Cardinality({u \in TaskIds : Executing(u) /\ task[u].parent = p}) \in Nat
          BY <3>1, RunningFinite, FS_Subset, FS_CardinalityType
      <4>2. /\ Cardinality(Running) < MaxConcurrent
            /\ p \in TaskIds => Cardinality(Children(p)) < MaxChildren
          BY <2>1 DEF Allowed
      <4> HIDE DEF Running, Children
      <4> QED
          BY <3>2, <4>1, <4>2, RunningFinite, PolicyAssumption
  <2> QED
      BY <2>3, <2>4, <2>5, <2>6, <2>7, <2>8, <2>9, PoolCardinality
      DEF Pool!Begin
<1>4. ASSUME NEW t \in TaskIds, EndStep(t)
      PROVE  [Pool!PNext]_(Pool!pvars)
  <2> DEFINE all == {u \in records : Finished(u)'}
  <2>1. /\ \A u \in TaskIds \ {t} : StageOf(u)' = StageOf(u) /\ OutcomeOf(u)' = OutcomeOf(u)
        /\ \A u \in TaskIds : task'[u].parent = task[u].parent
        /\ Results' \subseteq all
        /\ Results' # all => Cardinality(Results') >= KeepCompleted
      BY <1>4, EndResults
  <2>2. /\ EndsAs(t) /\ StageOf(t)' = "over"
        /\ \A u \in TaskIds \ {t} : Finished(u)' = Finished(u)
      BY <1>4, EndOrder, EndFacts DEF Ended, Alike, StageOf, Executing, Finished
  <2>3. parent' = parent
      BY <2>1
  <2>4. stage' = [stage EXCEPT ![t] = "over"]
      BY <2>1, <2>2
  <2>5. CASE task[t].pc = "loop" /\ task'[t].status \in Terminal
    <3>1. /\ stage[t] = "executing" /\ t \in records /\ Finished(t)'
          /\ OutcomeOf(t)' = task'[t].status
        BY <1>a, <2>5 DEF StageOf, Executing, Finished, OutcomeOf
    <3>2. outcome' = [outcome EXCEPT ![t] = task'[t].status]
        BY <2>1, <3>1
    <3>3. all = Results \cup {t}
        BY <1>a, <2>2, <3>1 DEF Results
    <3>4. ASSUME NEW o \in Terminal, o = task'[t].status PROVE Pool!End(t, o)
        BY <3>4, <2>1, <2>3, <2>4, <3>1, <3>2, <3>3, PoolCardinality
        DEF Pool!End, Pool!Forget
    <3> QED
        BY <2>5, <3>4 DEF Pool!PNext
  <2>6. CASE /\ task[t].pc \in {"created", "worktree", "reaping", "cleanup"}
             /\ task'[t].status = task[t].status
    <3>1. Finished(t)' = Finished(t) /\ OutcomeOf(t)' = OutcomeOf(t)
        BY <2>6 DEF Finished, OutcomeOf
    <3>2. outcome' = outcome
        BY <2>1, <3>1
    <3>3. all = Results
        BY <1>a, <2>2, <3>1 DEF Results
    <3>4. CASE task[t].pc \in {"reaping", "cleanup"}
      <4>1. StageOf(t) = "over"
          BY <3>4 DEF StageOf, Executing
      <4>2. stage' = stage
          BY <2>4, <4>1
      <4>3. Pool!ForgetSome
          BY <2>1, <2>3, <3>2, <3>3, <4>2, PoolCardinality
          DEF Pool!ForgetSome, Pool!Forget
      <4> QED
          BY <4>3 DEF Pool!PNext
    <3>5. CASE task[t].pc \in {"created", "worktree"}
      <4>1. stage[t] = "executing"
          BY <3>5 DEF StageOf, Executing
      <4>2. Results' = Results
        <5>1. UNCHANGED records
            BY <1>4, <3>5 DEF EndStep, CancelledEarly, Abort, LoopEnds, LoopCancelled, Reaped, CleanedUp
        <5> QED
            BY <5>1, <1>a, <2>2, <3>1 DEF Results
      <4>3. Pool!EndWithout(t)
          BY <2>3, <2>4, <3>2, <4>1, <4>2 DEF Pool!EndWithout
      <4> QED
          BY <4>3 DEF Pool!PNext
    <3> QED
        BY <2>6, <3>4, <3>5
  <2> QED
      BY <2>2, <2>5, <2>6 DEF EndsAs
<1>5. CASE SpawnStep
  <2>1. \/ UNCHANGED <<task, records, handles>>
        \/ \E t \in TaskIds, p \in Agents, depth \in Nat, resume \in BOOLEAN :
               Made(t, p, depth, resume)
      BY <1>5, SpawnFacts
  <2>2. CASE UNCHANGED <<task, records, handles>>
      BY <2>2, <1>c DEF Alike
  <2> QED
      BY <2>1, <2>2, <1>3, <1>a DEF Pool!PNext
<1> QED
    BY <1>1, <1>2, <1>4, <1>5, StepKinds DEF MoveStep

\* The executor implements TaskPool: tasks are begun within the limits, end once, with
\* an outcome that stays, and keep_completed results stay (SubagentExecutor).
THEOREM DelegationPool == Spec => ImplementsPool
<1>1. DelegationInv /\ Ordered /\ Ordered' /\ [Next]_vars => [Pool!PNext]_(Pool!pvars)
    BY PoolStep
<1> QED
    BY <1>1, PoolInit, DelegationInvariant, DelegationOrder, PTL DEF Spec, ImplementsPool, Pool!PSpec

-----------------------------------------------------------------------------
(* Who waits for whom *)

\* A gather, of kill or of a task that ends, waits for tasks below the agent only: no
\* agents can wait for each other in a ring.
GathersDescend ==
    \A a \in Agents : call[a].op = "gather" =>
        \A t \in call[a].on : Used(t) /\ DepthOf(a) < task[t].depth

\* A task that an agent may kill is not above it (_can_access_task).
LEMMA AccessDepth ==
    ASSUME DelegationInv, NEW a \in Agents, NEW x \in TaskIds, CanAccess(a, x),
           a \in TaskIds => Used(a)
    PROVE  DepthOf(a) <= task[x].depth
<1> USE DEF DelegationInv
<1>a. /\ records \subseteq TaskIds /\ task \in [TaskIds -> TaskState]
      /\ \A u \in records : Used(u)
      /\ \A u \in TaskIds : Used(u) => task[u].depth = DepthOf(task[u].parent) + 1
      /\ \A u \in TaskIds : task[u].depth \in Nat
      /\ TaskIds \cap Sessions = {}
    BY NamesAssumption, TaskFields DEF TypeOK, Kept, TreeShape, Used
<1>1. CASE a \in Sessions
    BY <1>1, <1>a DEF DepthOf
<1>2. CASE x = a
    BY <1>2, <1>a DEF DepthOf
<1>3. CASE a \in TaskIds /\ x \in Descendants(a)
  <2> DEFINE below == [u \in TaskIds |-> Offspring(u)]
             all   == Offspring(a) \cup UNION {below[u] : u \in TaskIds}
             U     == {u \in all : DepthOf(a) < task[u].depth}
  <2>1. \A U1 \in {V \in SUBSET all : Offspring(a) \subseteq V /\ \A u \in V : below[u] \subseteq V} :
            x \in U1
      BY <1>3 DEF Descendants, Closure
  <2>2. all \subseteq records /\ \A u \in TaskIds : below[u] \subseteq all
      BY DEF Offspring
  <2>3. Offspring(a) \subseteq U
    <3>1. \A u \in Offspring(a) : u \in TaskIds /\ Used(u) /\ task[u].parent = a
        BY <1>a DEF Offspring
    <3>2. DepthOf(a) \in Nat
        BY <1>3, <1>a DEF DepthOf
    <3> QED
        BY <3>1, <3>2, <1>a
  <2>4. ASSUME NEW u \in U PROVE below[u] \subseteq U
    <3>1. u \in TaskIds /\ DepthOf(a) < task[u].depth /\ DepthOf(u) = task[u].depth
        BY <2>2, <1>a DEF DepthOf
    <3>2. DepthOf(a) \in Nat
        BY <1>3, <1>a DEF DepthOf
    <3>3. \A v \in below[u] : /\ v \in TaskIds /\ v \in all
                              /\ task[v].depth = task[u].depth + 1
      <4>1. \A v \in below[u] : v \in records /\ task[v].parent = u
          BY <3>1 DEF Offspring
      <4>2. \A v \in below[u] : v \in TaskIds /\ task[v].depth = DepthOf(u) + 1
          BY <4>1, <1>a
      <4> QED
          BY <4>2, <3>1, <2>2
    <3> HIDE DEF below, all
    <3> QED
        BY <3>1, <3>2, <3>3, <1>a
  <2>5. x \in U
    <3> HIDE DEF below, all
    <3>1. U \in SUBSET all
        OBVIOUS
    <3> HIDE DEF U
    <3> QED
        BY <2>1, <2>3, <2>4, <3>1
  <2>6. DepthOf(a) \in Nat /\ x \in TaskIds
      BY <1>3, <1>a DEF DepthOf
  <2> QED
      BY <2>5, <2>6, <1>a
<1> QED
    BY <1>1, <1>2, <1>3 DEF CanAccess, Agents

\* Among the calls, only kill gathers.
LEMMA GatherIsKill ==
    ASSUME DelegationInv, TalkStep, NEW b \in Agents, call'[b] # call[b], call'[b].op = "gather"
    PROVE  \E x \in TaskIds : /\ CanCall(b) /\ CanAccess(b, x)
                              /\ \A t \in call'[b].on : t \in Children(x)
<1> USE DEF DelegationInv
<1>a. call \in [Agents -> CallState] /\ Sessions \subseteq Agents
    BY DEF TypeOK, Agents
<1>1. ASSUME NEW a \in Agents, NEW x \in TaskIds, NEW cascade \in Cascades, Kill(a, x, cascade)
      PROVE  \E y \in TaskIds : /\ CanCall(b) /\ CanAccess(b, y)
                                /\ \A t \in call'[b].on : t \in Children(y)
  <2> DEFINE kids == IF cascade THEN {c \in Children(x) : Live(c)} ELSE {}
  <2>1. /\ CanCall(a) /\ CanAccess(a, x)
        /\ call' = [call EXCEPT ![a] =
              IF kids # {} THEN [Idle EXCEPT !.op = "gather", !.on = kids, !.arg = x]
                           ELSE Killed(x)]
      BY <1>1 DEF Kill
  <2>2. kids \subseteq Children(x)
      OBVIOUS
  <2> HIDE DEF kids
  <2>3. b = a
      BY <2>1, <1>a
  <2>4. /\ Killed(x).op = "killed"
        /\ [Idle EXCEPT !.op = "gather", !.on = kids, !.arg = x].on = kids
      BY DEF Killed, Idle
  <2>5. call'[b] = [Idle EXCEPT !.op = "gather", !.on = kids, !.arg = x]
      BY <2>1, <2>3, <2>4, <1>a
  <2> QED
      BY <2>1, <2>2, <2>3, <2>4, <2>5
<1>2. ASSUME NEW a \in Agents, NEW x \in TaskIds, Wait(a, x)
      PROVE  FALSE
  <2>1. call' = call \/ call' = [call EXCEPT ![a] = [Idle EXCEPT !.op = "wait", !.arg = x]]
      BY <1>2 DEF Wait
  <2>2. [Idle EXCEPT !.op = "wait", !.arg = x].op = "wait"
      BY DEF Idle
  <2> QED
      BY <2>1, <2>2, <1>a
<1>3. ASSUME NEW a \in Agents, NEW r, call' = [call EXCEPT ![a] = r], r.op # "gather"
      PROVE  FALSE
    BY <1>3, <1>a
<1>4. Idle.op = "none" /\ \A x : Killed(x).op = "killed"
    BY DEF Idle, Killed
<1>5. ASSUME NEW a \in Agents, WaitReturns(a) \/ KillGathered(a) \/ KillReturns(a)
      PROVE  FALSE
    BY <1>5, <1>3, <1>4 DEF WaitReturns, KillGathered, KillReturns
<1>6. ASSUME NEW s \in Sessions, Stop(s) \/ RootTurnEnds(s) PROVE FALSE
    BY <1>6, <1>3, <1>4, <1>a DEF Stop, RootTurnEnds
<1>7. ~StopReturns /\ ~(\E t \in TaskIds : Timeout(t)) /\ ~(UNCHANGED vars)
    BY DEF StopReturns, Timeout, vars
<1> QED
    BY <1>1, <1>2, <1>5, <1>6, <1>7 DEF TalkStep

\* Depths stay, and what a call speaks of stays used.
LEMMA DepthsStay ==
    ASSUME DelegationInv, [Next]_vars, NEW x \in Agents, x \in TaskIds => Used(x)
    PROVE  DepthOf(x)' = DepthOf(x) /\ (x \in TaskIds => Used(x)')
<1>a. TaskIds \cap Sessions = {} /\ Agents = TaskIds \cup Sessions
    BY NamesAssumption DEF Agents
<1>1. CASE NoNew
    BY <1>1, <1>a DEF NoNew, DepthOf
<1>2. ASSUME NEW t \in TaskIds, NEW p \in Agents, NEW depth \in Nat, NEW resume \in BOOLEAN,
             Made(t, p, depth, resume)
      PROVE  DepthOf(x)' = DepthOf(x) /\ (x \in TaskIds => Used(x)')
    BY <1>2, <1>a DEF Made, DepthOf, Used
<1> QED
    BY <1>1, <1>2, NoNewOrMade

LEMMA DescendStep ==
    ASSUME DelegationInv, GathersDescend, [Next]_vars
    PROVE  GathersDescend'
<1> USE DEF DelegationInv
<1> SUFFICES ASSUME NEW b \in Agents, call'[b].op = "gather", NEW t \in call'[b].on
             PROVE  t \in TaskIds /\ Used(t)' /\ DepthOf(b)' < task'[t].depth
    BY DEF GathersDescend
<1>a. /\ TaskIds \cap Sessions = {} /\ Agents = TaskIds \cup Sessions
      /\ call \in [Agents -> CallState] /\ \A c \in Agents : call[c].on \subseteq TaskIds
      /\ task \in [TaskIds -> TaskState] /\ records \subseteq TaskIds
    BY NamesAssumption DEF Agents, TypeOK, CallState
<1>b. ASSUME NEW u \in TaskIds, Used(u), DepthOf(b) < task[u].depth,
             b \in TaskIds => Used(b)
      PROVE  Used(u)' /\ DepthOf(b)' < task'[u].depth
    BY <1>a, <1>b, DepthsStay DEF DepthOf
\* A child of a task is one level below it.
<1>c. ASSUME NEW x \in TaskIds, NEW u \in Children(x)
      PROVE  u \in TaskIds /\ Used(u) /\ task[u].depth = task[x].depth + 1
    BY <1>a DEF Children, Running, Kept, TreeShape, Used, DepthOf
<1>d. \A x \in TaskIds : task[x].depth \in Nat
    BY <1>a, TaskFields
<1>1. CASE call'[b] = call[b]
  <2>1. b \in TaskIds => Used(b)
      BY <1>1, <1>a DEF Calls, Used
  <2> QED
      BY <1>1, <2>1, <1>a, <1>b DEF GathersDescend
<1>2. CASE TalkStep /\ call'[b] # call[b]
  <2>1. PICK x \in TaskIds : /\ CanCall(b) /\ CanAccess(b, x)
                             /\ \A u \in call'[b].on : u \in Children(x)
      BY <1>2, GatherIsKill
  <2>2. b \in TaskIds => Used(b)
      BY <2>1 DEF CanCall, Used
  <2>3. DepthOf(b) <= task[x].depth /\ DepthOf(b) \in Nat
      BY <2>1, <2>2, <1>a, <1>d, AccessDepth DEF DepthOf
  <2>4. t \in TaskIds /\ Used(t) /\ task[t].depth = task[x].depth + 1
      BY <2>1, <1>c
  <2> QED
      BY <2>2, <2>3, <2>4, <1>b, <1>d
<1>3. CASE MoveStep
    BY <1>1, <1>3, MoveFacts DEF MoveStep
<1>4. ASSUME NEW u \in TaskIds, EndStep(u), call'[b] # call[b]
      PROVE  t \in TaskIds /\ Used(t)' /\ DepthOf(b)' < task'[t].depth
  <2>1. b = u /\ Used(u) /\ t \in Children(u)
      BY <1>4, EndFacts
  <2>2. t \in TaskIds /\ Used(t) /\ task[t].depth = task[u].depth + 1 /\ DepthOf(b) = task[u].depth
      BY <2>1, <1>a, <1>c DEF DepthOf
  <2> QED
      BY <2>1, <2>2, <1>b, <1>d
<1>5. CASE SpawnStep
  <2>1. call'[b] = call[b] \/ call'[b].op \in {"none", "spawn"}
      BY <1>5, SpawnFacts
  <2> QED
      BY <2>1, <1>1
<1> QED
    BY <1>1, <1>2, <1>3, <1>4, <1>5, StepKinds

\* Waits for tasks to end go down the tree: no cancel, kill or cascade makes agents
\* wait for each other in a ring (_cancel_task_ids, kill).
THEOREM DelegationGathersDescend == Spec => []GathersDescend
<1>1. Init => GathersDescend
    BY DEF Init, GathersDescend, Idle
<1>2. DelegationInv /\ GathersDescend /\ [Next]_vars => GathersDescend'
    BY DescendStep
<1> QED
    BY <1>1, <1>2, DelegationInvariant, PTL DEF Spec

-----------------------------------------------------------------------------
(* What the two disagreements with the documentation come from *)

\* A task that left its loop has a terminal status, unless it was cancelled before.
Concluded ==
    /\ \A t \in TaskIds : task[t].pc \in {"reaping", "cleanup", "over"} => Finished(t)
    /\ draining \subseteq {t \in TaskIds : Used(t)}

NoEarlyCancel == \A t \in TaskIds : ~CancelledEarly(t)

LEMMA ConcludedStep ==
    ASSUME DelegationInv, Concluded, [Next]_vars, NoEarlyCancel
    PROVE  Concluded'
<1> USE DEF DelegationInv
<1>1. ASSUME NEW u \in TaskIds, task'[u].pc \in {"reaping", "cleanup", "over"}
      PROVE  Finished(u)'
  <2>1. CASE task'[u].pc = task[u].pc
      BY <1>1, <2>1, FinalStep DEF Concluded, Finished
  <2>2. CASE TalkStep
      BY <2>1, <2>2, TalkFacts DEF Alike
  <2>3. CASE MoveStep
      BY <1>1, <2>1, <2>3, MoveFacts DEF MoveStep
  <2>4. ASSUME NEW t \in TaskIds, EndStep(t)
        PROVE  Finished(u)'
    <3>1. u # t => task'[u].pc = task[u].pc
        BY <2>4, EndFacts DEF Ended, Alike
    <3>2. ~(task[t].pc \in {"created", "worktree"})
        BY <2>4 DEF NoEarlyCancel, EndStep, CancelledEarly, LoopEnds, LoopCancelled, Reaped,
                    CleanedUp
    <3>3. u = t => Finished(u)'
        BY <2>4, <3>2, EndOrder DEF EndsAs, Concluded, Finished
    <3> QED
        BY <2>1, <3>1, <3>3
  <2>5. CASE SpawnStep
      BY <1>1, <2>1, <2>5, SpawnFacts DEF Made
  <2> QED
      BY <2>2, <2>3, <2>4, <2>5, StepKinds
<1>2. draining' \subseteq {t \in TaskIds : Used(t)'}
  <2>1. \A t \in TaskIds : Used(t) => Used(t)'
      BY DepthsStay DEF Agents
  <2>2. CASE draining' \subseteq draining
      BY <2>1, <2>2 DEF Concluded
  <2>3. ASSUME NEW s \in Sessions, Stop(s)
        PROVE  draining' \subseteq {t \in TaskIds : Used(t)}
    <3>1. draining' = {t \in Running : task[t].session = s /\ Live(t)}
        BY <2>3 DEF Stop
    <3> QED
        BY <3>1 DEF Running, Live, Used, TypeOK
  <2>4. (\E s \in Sessions : Stop(s)) \/ draining' \subseteq draining
    <3>1. CASE TalkStep
        BY <3>1 DEF TalkStep, Wait, Kill, WaitReturns, KillGathered, KillReturns, Timeout,
                    RootTurnEnds, StopReturns, vars
    <3>2. CASE MoveStep
        BY <3>2, MoveFacts DEF MoveStep
    <3>3. CASE \E t \in TaskIds : EndStep(t)
        BY <3>3, EndFacts
    <3>4. CASE SpawnStep
        BY <3>4, SpawnFacts
    <3> QED
        BY <3>1, <3>2, <3>3, <3>4, StepKinds
  <2> QED
      BY <2>1, <2>2, <2>3, <2>4
<1> QED
    BY <1>1, <1>2 DEF Concluded

\* Without cancels that reach a task before its loop, each task cancel_by_session
\* cancelled is terminal when it returns: nothing else leaves one behind.
THEOREM DelegationStoppedTerminal ==
    Init /\ [][Next /\ NoEarlyCancel]_vars => StoppedAreTerminal
<1>1. Init => Concluded
    BY DEF Init, Concluded
<1>2. DelegationInv /\ Concluded /\ [Next /\ NoEarlyCancel]_vars => Concluded'
  <2>1. ASSUME DelegationInv, Concluded, UNCHANGED vars
        PROVE  Concluded'
      BY <2>1 DEF vars, Concluded, Finished, Used
  <2> QED
      BY <2>1, ConcludedStep
<1>3. DelegationInv /\ Concluded /\ [Next /\ NoEarlyCancel]_vars =>
        [stopping # None /\ stopping' = None => \A t \in draining : Finished(t)]_vars
  <2> SUFFICES ASSUME DelegationInv, Concluded, [Next]_vars, stopping # None, stopping' = None,
                      NEW t \in draining
               PROVE  Finished(t)
      OBVIOUS
  <2> USE DEF DelegationInv
  <2>1. StopReturns
    <3>1. CASE TalkStep
        BY <3>1 DEF TalkStep, Wait, Kill, WaitReturns, KillGathered, KillReturns, Timeout,
                    RootTurnEnds, Stop, vars
    <3>2. CASE MoveStep
        BY <3>2, MoveFacts DEF MoveStep
    <3>3. CASE \E u \in TaskIds : EndStep(u)
        BY <3>3, EndFacts
    <3>4. CASE SpawnStep
        BY <3>4, SpawnFacts
    <3> QED
        BY <3>1, <3>2, <3>3, <3>4, StepKinds
  <2> QED
      BY <2>1 DEF StopReturns, Concluded, Live, Used
<1>4. [Next /\ NoEarlyCancel]_vars => [Next]_vars
    OBVIOUS
<1> QED
    BY <1>1, <1>2, <1>3, <1>4, DelegationInit, DelegationStep, PTL DEF StoppedAreTerminal

\* A timer that fired leaves its cancel pending.
Pending == \A t \in TaskIds : task[t].fired => task[t].pc = "loop" /\ cancel[t]

\* No wait and no kill returns to a caller that was cancelled meanwhile.
NoSwallow == \A a \in Agents : cancel[a] => ~WaitReturns(a) /\ ~KillReturns(a)

\* The end of a task takes its timer with it, and no cancel from others.
LEMMA EndPending ==
    ASSUME DelegationInv, Pending, NEW t \in TaskIds, EndStep(t)
    PROVE  \A u \in TaskIds : task'[u].fired => task'[u].pc = "loop" /\ cancel'[u]
<1> USE DEF DelegationInv
<1>a. /\ task \in [TaskIds -> TaskState] /\ cancel \in [Agents -> BOOLEAN]
      /\ TaskIds \subseteq Agents /\ \A u \in TaskIds : task[u] \in TaskState
    BY DEF TypeOK, Agents
<1>b. ASSUME NEW tk \in [TaskIds -> TaskState], NEW pc, NEW wt,
             task' = [tk EXCEPT ![t].pc = pc, ![t].wt = wt] \/ task' = [tk EXCEPT ![t].pc = pc]
      PROVE  /\ task'[t].fired = tk[t].fired
             /\ \A u \in TaskIds \ {t} : task'[u] = tk[u]
  <2>1. tk[t] \in TaskState
      OBVIOUS
  <2>2. task'[t] = [tk[t] EXCEPT !.pc = pc, !.wt = wt] \/ task'[t] = [tk[t] EXCEPT !.pc = pc]
      BY <1>b, <2>1 DEF TaskState
  <2> QED
      BY <1>b, <2>1, <2>2 DEF TaskState
<1>c. ASSUME NEW tk \in [TaskIds -> TaskState], NEW order,
             AfterReaping(t, tk, order) \/ Retire(t, tk, order)
      PROVE  /\ task'[t].fired = tk[t].fired
             /\ \A u \in TaskIds \ {t} : task'[u] = tk[u]
  <2>1. \/ task' = [tk EXCEPT ![t].pc = "over", ![t].wt = "no"]
        \/ task' = [tk EXCEPT ![t].pc = "cleanup"]
      BY <1>c DEF AfterReaping, Retire
  <2> QED
      BY <2>1, <1>b
<1>1. ASSUME NEW s \in Terminal, Finish(t, s)
      PROVE  /\ ~task'[t].fired
             /\ \A u \in TaskIds \ {t} : /\ task'[u].fired = task[u].fired
                                         /\ task'[u].pc = task[u].pc
                                         /\ cancel[u] => cancel'[u]
  <2> DEFINE tk == [task EXCEPT ![t].status = s, ![t].fired = FALSE, ![t].hit = FALSE,
                                ![t].detached = ~task[t].cascade]
  <2>1. /\ tk \in [TaskIds -> TaskState] /\ ~tk[t].fired
        /\ \A u \in TaskIds \ {t} : tk[u] = task[u]
    <3>1. task[t].cascade \in BOOLEAN
        BY <1>a, TaskFields
    <3>2. [task[t] EXCEPT !.status = s, !.fired = FALSE, !.hit = FALSE,
                          !.detached = ~task[t].cascade] \in TaskState
        BY <1>a, <3>1 DEF TaskState
    <3>3. tk = [task EXCEPT ![t] =
                  [task[t] EXCEPT !.status = s, !.fired = FALSE, !.hit = FALSE,
                                  !.detached = ~task[t].cascade]]
        BY <1>a DEF TaskState
    <3> QED
        BY <1>a, <3>2, <3>3 DEF TaskState
  <2>2. PICK hits : /\ cancel' = [Marked(hits) EXCEPT ![t] = FALSE]
                    /\ \/ task' = [Hit(tk, hits) EXCEPT ![t].pc = "reaping"]
                       \/ AfterReaping(t, tk, finishOrder')
      BY <1>1 DEF Finish
  <2> HIDE DEF tk
  <2>3. \A u \in TaskIds \ {t} : cancel[u] => cancel'[u]
      BY <1>a, <2>2 DEF Marked
  <2>4. /\ Hit(tk, hits) \in [TaskIds -> TaskState]
        /\ \A u \in TaskIds : Hit(tk, hits)[u].fired = tk[u].fired /\ Hit(tk, hits)[u].pc = tk[u].pc
      BY <2>1, HitFacts DEF Alike
  <2>5. CASE AfterReaping(t, tk, finishOrder')
      BY <2>1, <2>3, <2>5, <1>c
  <2>6. CASE task' = [Hit(tk, hits) EXCEPT ![t].pc = "reaping"]
    <3>1. /\ task'[t].fired = Hit(tk, hits)[t].fired
          /\ \A u \in TaskIds \ {t} : task'[u] = Hit(tk, hits)[u]
        BY <2>4, <2>6, <1>b
    <3> QED
        BY <2>1, <2>3, <2>4, <3>1
  <2> QED
      BY <2>2, <2>5, <2>6
<1>2. CASE \E s \in Terminal : Finish(t, s)
    BY <1>1, <1>2 DEF Pending
<1>3. CASE Abort(t)
  <2>1. /\ task'[t].fired = task[t].fired
        /\ \A u \in TaskIds \ {t} : task'[u] = task[u]
      BY <1>a, <1>b, <1>3 DEF Abort
  <2>2. task[t].pc # "loop"
      BY <1>3 DEF EndStep, CancelledEarly, LoopEnds, LoopCancelled, Reaped, CleanedUp, Abort, Finish
  <2>3. \A u \in TaskIds \ {t} : cancel'[u] = cancel[u]
      BY <1>a, <1>3 DEF Abort
  <2> QED
      BY <2>1, <2>2, <2>3 DEF Pending
<1>4. CASE /\ task[t].pc \in {"reaping", "cleanup"} /\ cancel' = cancel
           /\ AfterReaping(t, task, finishOrder) \/ Retire(t, task, finishOrder)
  <2>1. /\ task'[t].fired = task[t].fired
        /\ \A u \in TaskIds \ {t} : task'[u] = task[u]
      BY <1>a, <1>c, <1>4
  <2> QED
      BY <2>1, <1>4 DEF Pending
<1>5. {"completed", "timed_out", "cancelled"} \subseteq Terminal
    BY DEF Terminal
<1> QED
    BY <1>2, <1>3, <1>4, <1>5
       DEF EndStep, CancelledEarly, LoopEnds, LoopCancelled, Reaped, CleanedUp

\* A task that is made has no timer yet.
LEMMA SpawnFired ==
    ASSUME DelegationInv, SpawnStep
    PROVE  /\ cancel' = cancel
           /\ \A u \in TaskIds : \/ task'[u] = task[u]
                                 \/ task[u].pc = "none" /\ task'[u].fired = task[u].fired
<1> USE DEF DelegationInv
<1>1. cancel' = cancel
    BY SpawnFacts
<1>2. UNCHANGED task \/ \E p, depth, resume : Create(p, depth, resume)
    BY DEF SpawnStep, Spawn, SendMessage, RequestSpawn, SpawnResumes
<1>3. CASE \E p, depth, resume : Create(p, depth, resume)
  <2>1. PICK p, depth, resume : Create(p, depth, resume)
      BY <1>3
  <2>2. CASE UNCHANGED task
      BY <2>2, <1>1
  <2>3. CASE ~UNCHANGED task
    <3>1. PICK t \in TaskIds, wt \in (IF resume THEN {"no"} ELSE Isolation) :
                /\ task[t].pc = "none"
                /\ task' = [task EXCEPT ![t] =
                    [@ EXCEPT !.pc = "created", !.parent = p, !.session = SessionOf(p),
                              !.depth = depth, !.wt = wt, !.resumed = resume]]
        BY <2>1, <2>3 DEF Create
    <3>2. /\ task \in [TaskIds -> TaskState] /\ task[t] \in TaskState
        BY DEF TypeOK
    <3>3. /\ \A u \in TaskIds \ {t} : task'[u] = task[u]
          /\ task'[t] = [task[t] EXCEPT !.pc = "created", !.parent = p, !.session = SessionOf(p),
                              !.depth = depth, !.wt = wt, !.resumed = resume]
        BY <3>1, <3>2
    <3>4. task'[t].fired = task[t].fired
        BY <3>2, <3>3 DEF TaskState
    <3> QED
        BY <1>1, <3>1, <3>3, <3>4
  <2> QED
      BY <2>2, <2>3
<1> QED
    BY <1>1, <1>2, <1>3

LEMMA PendingStep ==
    ASSUME DelegationInv, Pending, [Next]_vars, NoSwallow
    PROVE  Pending'
<1> USE DEF DelegationInv
<1>a. /\ task \in [TaskIds -> TaskState] /\ cancel \in [Agents -> BOOLEAN]
      /\ TaskIds \subseteq Agents /\ TaskIds \cap Sessions = {} /\ Sessions \subseteq Agents
      /\ \A u \in TaskIds : task[u] \in TaskState
    BY NamesAssumption DEF TypeOK, Agents
\* A step that touches neither the timer nor the place of a task, and keeps what is
\* cancelled.
<1>b. ASSUME NEW u \in TaskIds, task'[u].fired = task[u].fired, task'[u].pc = task[u].pc,
             cancel[u] => cancel'[u]
      PROVE  task'[u].fired => task'[u].pc = "loop" /\ cancel'[u]
    BY <1>b DEF Pending
<1>c. \A hits : /\ Hit(task, hits) \in [TaskIds -> TaskState]
                /\ \A u \in TaskIds : /\ Hit(task, hits)[u].fired = task[u].fired
                                      /\ Hit(task, hits)[u].pc = task[u].pc
                /\ Marked(hits) \in [Agents -> BOOLEAN]
                /\ \A u \in Agents : cancel[u] => Marked(hits)[u]
    BY <1>a, HitFacts, MarkedFacts DEF Alike, Marked
<1>1. ASSUME NEW a \in Agents, NEW x \in TaskIds, Wait(a, x)
      PROVE  Pending'
    BY <1>1 DEF Wait, Pending
<1>2. ASSUME NEW a \in Agents, NEW x \in TaskIds, NEW cascade \in Cascades, Kill(a, x, cascade)
      PROVE  Pending'
  <2>1. PICK hits : /\ task' = [Hit(task, hits) EXCEPT ![x].cascade = cascade]
                    /\ cancel' = Marked(hits)
      BY <1>2 DEF Kill
  <2>2. Hit(task, hits)[x] \in TaskState
      BY <1>c
  <2>3. /\ [Hit(task, hits)[x] EXCEPT !.cascade = cascade].fired = Hit(task, hits)[x].fired
        /\ [Hit(task, hits)[x] EXCEPT !.cascade = cascade].pc = Hit(task, hits)[x].pc
      BY <2>2 DEF TaskState
  <2>4. \A u \in TaskIds : task'[u].fired = task[u].fired /\ task'[u].pc = task[u].pc
      BY <1>c, <2>1, <2>3
  <2> QED
      BY <1>a, <1>b, <1>c, <2>1, <2>4 DEF Pending
<1>3. ASSUME NEW a \in Agents, WaitReturns(a) \/ KillReturns(a)
      PROVE  Pending'
  <2>1. task' = task /\ cancel' = [cancel EXCEPT ![a] = FALSE] /\ ~cancel[a]
      BY <1>3 DEF WaitReturns, KillReturns, NoSwallow
  <2>2. \A u \in TaskIds : cancel[u] => cancel'[u]
      BY <1>a, <2>1
  <2> QED
      BY <1>b, <2>1, <2>2 DEF Pending
<1>4. ASSUME NEW a \in Agents, KillGathered(a)
      PROVE  Pending'
  <2>1. PICK hits : task' = Hit(task, hits) /\ cancel' = Marked(hits)
      BY <1>4 DEF KillGathered
  <2> QED
      BY <1>a, <1>b, <1>c, <2>1 DEF Pending
<1>5. ASSUME NEW t \in TaskIds, Timeout(t)
      PROVE  Pending'
  <2>1. PICK hits : /\ task' = [Hit(task, hits) EXCEPT ![t].fired = TRUE]
                    /\ cancel' = [Marked(hits) EXCEPT ![t] = TRUE]
      BY <1>5 DEF Timeout
  <2>2. task[t].pc = "loop"
      BY <1>5 DEF Timeout
  <2>3. /\ \A u \in TaskIds \ {t} : task'[u] = Hit(task, hits)[u] /\ cancel'[u] = Marked(hits)[u]
        /\ cancel'[t] /\ task'[t] = [Hit(task, hits)[t] EXCEPT !.fired = TRUE]
      BY <1>a, <1>c, <2>1
  <2>4. task'[t].pc = "loop"
      BY <1>c, <2>2, <2>3 DEF TaskState
  <2>5. ASSUME NEW u \in TaskIds \ {t}
        PROVE  task'[u].fired => task'[u].pc = "loop" /\ cancel'[u]
    <3>1. u \in Agents /\ task'[u].fired = task[u].fired /\ task'[u].pc = task[u].pc
        BY <1>a, <1>c, <2>3
    <3>2. cancel[u] => cancel'[u]
        BY <1>c, <2>3, <3>1
    <3> QED
        BY <3>1, <3>2, <1>b
  <2> QED
      BY <2>3, <2>4, <2>5 DEF Pending
<1>6. ASSUME NEW s \in Sessions, Stop(s) \/ RootTurnEnds(s) \/ StopReturns
      PROVE  Pending'
  <2>1. /\ task' = task \/ \E hits : task' = Hit(task, hits)
        /\ \A u \in TaskIds : cancel[u] => cancel'[u]
    <3>1. CASE Stop(s)
      <4>1. PICK hits : /\ task' = Hit(task, hits)
                        /\ \E b \in BOOLEAN : cancel' = [Marked(hits) EXCEPT ![s] = b]
          BY <3>1 DEF Stop
      <4> QED
          BY <4>1, <1>a, <1>c
    <3>2. CASE RootTurnEnds(s)
      <4>1. task' = task /\ cancel' = [cancel EXCEPT ![s] = (stopping = s)]
          BY <3>2 DEF RootTurnEnds
      <4> QED
          BY <4>1, <1>a
    <3>3. CASE StopReturns
      <4>1. /\ task' = task /\ stopping \in Sessions
            /\ cancel' = cancel \/ cancel' = [cancel EXCEPT ![stopping] = FALSE]
          BY <3>3 DEF StopReturns, TypeOK
      <4> QED
          BY <4>1, <1>a
    <3> QED
        BY <1>6, <3>1, <3>2, <3>3
  <2> QED
      BY <1>a, <1>b, <1>c, <2>1 DEF Pending
<1>7. CASE UNCHANGED vars
    BY <1>7 DEF vars, Pending
<1>8. ASSUME NEW t \in TaskIds, Start(t) \/ WorktreeReady(t)
      PROVE  Pending'
  <2>1. /\ task[t].pc \in {"created", "worktree"} /\ cancel' = cancel
        /\ \A u \in TaskIds \ {t} : task'[u] = task[u]
      BY <1>8, MoveFacts
  <2>2. task'[t].fired = task[t].fired
    <3>1. CASE Start(t)
      <4>1. \E pc : task'[t] = [task[t] EXCEPT !.status = "running", !.pc = pc]
          BY <1>a, <3>1 DEF Start
      <4> QED
          BY <1>a, <4>1 DEF TaskState
    <3>2. CASE WorktreeReady(t)
      <4>1. \E wt : task'[t] = [task[t] EXCEPT !.pc = "loop", !.wt = wt]
          BY <1>a, <3>2 DEF WorktreeReady
      <4> QED
          BY <1>a, <4>1 DEF TaskState
    <3> QED
        BY <1>8, <3>1, <3>2
  <2>3. ~task'[t].fired
      BY <2>1, <2>2 DEF Pending
  <2> QED
      BY <2>1, <2>3 DEF Pending
<1>9. ASSUME NEW t \in TaskIds, EndStep(t)
      PROVE  Pending'
    BY <1>9, EndPending DEF Pending
<1>10. CASE SpawnStep
    BY <1>10, SpawnFired DEF Pending
<1>d. \A s \in Sessions : s \in Agents
    BY <1>a
<1>11. CASE TalkStep
  <2>1. CASE \E a \in Agents, x \in TaskIds :
                Wait(a, x) \/ \E cascade \in Cascades : Kill(a, x, cascade)
      BY <2>1, <1>1, <1>2
  <2>2. CASE \E a \in Agents : WaitReturns(a) \/ KillGathered(a) \/ KillReturns(a)
      BY <2>2, <1>3, <1>4
  <2>3. CASE (\E s \in Sessions : Stop(s) \/ RootTurnEnds(s)) \/ StopReturns
    <3>1. StopReturns => \E s \in Sessions : TRUE
        BY DEF StopReturns, TypeOK
    <3> QED
        BY <2>3, <3>1, <1>6
  <2> QED
      BY <1>11, <2>1, <2>2, <2>3, <1>5, <1>7 DEF TalkStep
<1> QED
    BY <1>8, <1>9, <1>10, <1>11, StepKinds DEF MoveStep

\* A subagent whose timer fired is never recorded as completed, unless a wait or a kill
\* that it called returned to it with the cancel undelivered (executor.py's handlers of
\* CancelledError there): only those swallow the timer's cancel.
THEOREM DelegationTimeoutRecorded ==
    Init /\ [][Next /\ NoSwallow]_vars => TimeoutRecorded
<1>1. Init => Pending
    BY DEF Init, Pending
<1>2. DelegationInv /\ Pending /\ [Next /\ NoSwallow]_vars => Pending'
  <2>1. ASSUME Pending, UNCHANGED vars PROVE Pending'
      BY <2>1 DEF vars, Pending
  <2> QED
      BY <2>1, PendingStep
<1>3. DelegationInv /\ Pending /\ [Next]_vars =>
        [\A t \in TaskIds : task[t].fired /\ task'[t].status \in Terminal =>
            task'[t].status \in {"timed_out", "cancelled"}]_vars
  <2> SUFFICES ASSUME DelegationInv, Pending, [Next]_vars, NEW t \in TaskIds, task[t].fired,
                      task'[t].status \in Terminal
               PROVE  task'[t].status \in {"timed_out", "cancelled"}
      OBVIOUS
  <2> USE DEF DelegationInv
  <2>1. task[t].pc = "loop" /\ cancel[t] /\ ~Finished(t)
      BY DEF Pending, Kept, Executing
  <2>2. CASE TalkStep
      BY <2>1, <2>2, TalkFacts DEF Alike, Finished
  <2>3. CASE MoveStep
      BY <2>1, <2>3, MoveFacts DEF MoveStep, Finished
  <2>4. CASE SpawnStep
      BY <2>1, <2>4, SpawnFired DEF Finished
  <2>5. ASSUME NEW u \in TaskIds, EndStep(u)
        PROVE  task'[t].status \in {"timed_out", "cancelled"}
    <3>1. CASE u # t
        BY <2>1, <2>5, <3>1, EndFacts DEF Ended, Alike, Finished
    <3>2. CASE u = t
      <4>1. LoopCancelled(t)
          BY <2>1, <2>5, <3>2
             DEF EndStep, CancelledEarly, LoopEnds, LoopCancelled, Reaped, CleanedUp
      <4>2. PICK s \in {"timed_out", "cancelled"} : Finish(t, s)
          BY <4>1 DEF LoopCancelled
      <4> QED
          BY <4>2, FinishFacts DEF Terminal
    <3> QED
        BY <3>1, <3>2
  <2> QED
      BY <2>2, <2>3, <2>4, <2>5, StepKinds
<1>4. [Next /\ NoSwallow]_vars => [Next]_vars
    OBVIOUS
<1> QED
    BY <1>1, <1>2, <1>3, <1>4, DelegationInit, DelegationStep, PTL DEF TimeoutRecorded
=============================================================================
