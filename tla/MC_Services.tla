---------------------------- MODULE MC_Services ----------------------------
(* Two services that share nothing, each checked while the other rests: the  *)
(* tool loop over two providers, and the cron scheduler with two jobs,       *)
(* either with the store file to itself or with another process beside it.   *)
EXTENDS CronService, ToolLoop, TLC

CONSTANTS j1, j2

VARIABLE busy    \* what runs: "tools", "cron" alone, or "files", cron with
                 \* another process

MCJobIds == {j1, j2}

vars == <<busy, cronVars, toolVars>>

(* A loop that is over takes no step, nor does a scheduler never started.    *)
ToolsRest ==
    /\ ask = [NewRequest(FALSE) EXCEPT !.st = "closed"]
    /\ phase = "over" /\ outcome = "answer"
    /\ iteration = 1 /\ calls = <<>> /\ preflight = {} /\ exec = Idle /\ cur = 0
    /\ launches = Never /\ speakers = {}

Alone == \A p \in Others : copies[p] = NoStore

(* Bounds beside another process: one recurring job, and one one-shot whose  *)
(* time does not come and which nobody disables; the gateway makes no edit   *)
(* in the middle of a tick.                                                  *)
Beside == /\ schedule[j1] \in {"none", "every"} /\ schedule[j2] \in {"none", "once"}
          /\ \A j \in JobIds : execs[j] \subseteq {"timed"}
          /\ expired = {} /\ past = {}
          /\ \A js \in ({jobs} \cup {copies[p] : p \in Others}) \ {NoStore} :
                 js[j2] # NoJob => js[j2].enabled

Init == /\ CronInit
        /\ \/ busy = "tools" /\ ToolInit
           \/ busy \in {"cron", "files"} /\ ToolsRest

Next == \/ busy = "tools" /\ ToolNext /\ UNCHANGED <<busy, cronVars>>
        \/ busy = "cron" /\ CronNext /\ Alone' /\ UNCHANGED <<busy, toolVars>>
        \/ busy = "files" /\ CronNext /\ Beside' /\ UNCHANGED <<busy, toolVars>>

Spec == Init /\ [][Next]_vars /\ CronFairness /\ ToolFairness
=============================================================================
