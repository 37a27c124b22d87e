--------------------------- MODULE GenVerPipeline ---------------------------
(***************************************************************************)
(* Runs of the generator-verifier pipeline in one workspace:               *)
(* GenVerPipeline.run, the phases (genver/phases.py), the bounded review   *)
(* of a phase (genver/review.py) and the artifacts they share              *)
(* (genver/artifact_store.py).                                             *)
(*                                                                         *)
(* The phases are chosen before the run starts.  Each calls one or more    *)
(* models in a tool loop of bounded length, which may write an artifact,   *)
(* reply with text or raise.  SPEC, PLAN and, when the verification fails, *)
(* REVIEW go through up to three review steps.  Artifacts stay in the      *)
(* workspace: the next run finds them.                                     *)
(***************************************************************************)
EXTENDS Naturals, Sequences

CONSTANTS
    Configured,    \* phases of the configuration
    MaxRuns        \* bound: runs in the workspace

Phases == {"CLARIFY", "SPEC", "PLAN", "EXECUTE", "REVIEW", "REPORT"}

ASSUME RunsAssumption == Configured \in Seq(Phases) /\ MaxRuns \in Nat

VARIABLES
    job,         \* the run that is active or came last
    phases,      \* phases left, the current one first
    step,        \* where the current phase is
    handoff,     \* last_handoff of the run
    artifacts    \* run that wrote each artifact; 0 when there is none

genverVars == <<job, phases, step, handoff, artifacts>>

Documents == {"SPEC", "PLAN", "REVIEW", "REPORT"}    \* spec.md, plan.md, ...

\* phases_for_complexity, or the configured phases when auto_phase_selection is
\* off: any list, REPORT need not be in it.
PhaseLists ==
    { Configured,
      <<"EXECUTE", "REVIEW", "REPORT">>,
      <<"CLARIFY", "EXECUTE", "REVIEW", "REPORT">>,
      <<"CLARIFY", "PLAN", "EXECUTE", "REVIEW", "REPORT">>,
      <<"CLARIFY", "SPEC", "PLAN", "EXECUTE", "REVIEW", "REPORT">> }

\* ReviewVerdict.is_acceptable; a reviewer that returns no verdict warns.
Acceptable == {"pass", "pass_with_edits", "warning"}
Verdicts == Acceptable \cup {"needs_revision", "abort"}

GenVerInit ==
    /\ job = 0 /\ phases = <<>> /\ step = "idle" /\ handoff = FALSE
    /\ artifacts = [d \in Documents |-> 0]

Phase == Head(phases)

\* The run goes on with these phases, or is over.
GoesOn(left) == phases' = left /\ step' = IF left = <<>> THEN "idle" ELSE "enter"

\* The phase is over.
Advances == GoesOn(Tail(phases))

RunBegins ==
    /\ step = "idle" /\ job < MaxRuns
    /\ job' = job + 1
    /\ \E list \in PhaseLists : GoesOn(list)
    /\ handoff' = FALSE
    /\ UNCHANGED artifacts

\* run_clarify: its answer changes nothing.
Clarify ==
    /\ step = "enter" /\ Phase = "CLARIFY"
    /\ Advances
    /\ UNCHANGED <<job, handoff, artifacts>>

\* _write_and_review: the generator writes the document with its tools, or its
\* text becomes the document unless there is one already, or neither.
Draft ==
    /\ step = "enter" /\ Phase \in {"SPEC", "PLAN"}
    /\ \E tool, text \in BOOLEAN :
          artifacts' = [artifacts EXCEPT ![Phase] =
                          IF tool \/ (text /\ @ = 0) THEN job ELSE @]
    /\ step' = "review"
    /\ UNCHANGED <<job, phases, handoff>>

\* run_execute: what spec.md and plan.md hold, whoever wrote it, is passed on as
\* approved; the generator may end without a handoff.
Execute ==
    /\ step = "enter" /\ Phase = "EXECUTE"
    /\ handoff' \in BOOLEAN
    /\ Advances
    /\ UNCHANGED <<job, artifacts>>

\* run_review: without a handoff nothing is verified and the phase passes.
Verify ==
    /\ step = "enter" /\ Phase = "REVIEW"
    /\ \/ /\ Advances /\ UNCHANGED artifacts
       \/ /\ handoff    \* it failed: the verifier repairs and reports
          /\ step' = "generator" /\ UNCHANGED phases
          /\ artifacts' = [artifacts EXCEPT !["REVIEW"] = job]
    /\ UNCHANGED <<job, handoff>>

\* PhaseReviewProtocol.run, a step that may be followed by another: the
\* reviewer may edit the document.
ReviewStep(from, to) ==
    /\ step = from
    /\ \E v \in Verdicts, edits \in BOOLEAN :
         /\ IF v \in Acceptable THEN Advances ELSE step' = to /\ UNCHANGED phases
         /\ artifacts' = [artifacts EXCEPT ![Phase] = IF edits THEN job ELSE @]
    /\ UNCHANGED <<job, handoff>>

\* Mutant: a third review that is not acceptable starts over.
FinalReviewAgain ==
    /\ step = "final"
    /\ Advances \/ (step' = "review" /\ UNCHANGED phases)
    /\ \E edits \in BOOLEAN :
          artifacts' = [artifacts EXCEPT ![Phase] = IF edits THEN job ELSE @]
    /\ UNCHANGED <<job, handoff>>

\* The third step: whatever it says, the phase advances, with a warning.
FinalReview ==
    /\ step = "final"
    /\ Advances
    /\ \E edits \in BOOLEAN :
          artifacts' = [artifacts EXCEPT ![Phase] = IF edits THEN job ELSE @]
    /\ UNCHANGED <<job, handoff>>

\* run_report: the model may write report.md, which is the reply of the run if
\* there is one.
Report ==
    /\ step = "enter" /\ Phase = "REPORT"
    /\ artifacts' \in {artifacts, [artifacts EXCEPT !["REPORT"] = job]}
    /\ Advances
    /\ UNCHANGED <<job, handoff>>

\* An exception, /stop or a timeout: the turn ends, the artifacts stay.
RunFails ==
    /\ step # "idle"
    /\ phases' = <<>> /\ step' = "idle"
    /\ UNCHANGED <<job, handoff, artifacts>>

GenVerStep == Clarify \/ Draft \/ Execute \/ Verify \/ ReviewStep("review", "generator")
              \/ ReviewStep("generator", "final") \/ FinalReview \/ Report

GenVerNext == RunBegins \/ GenVerStep \/ RunFails

\* Every model call of a phase ends: its tool loop is bounded (LoopEnds).
GenVerFairness == WF_genverVars(GenVerStep)

-----------------------------------------------------------------------------
\* A pipeline ends, however its reviewers disagree (PhaseReviewProtocol.run,
\* GenVerPipeline.run).
PipelineEnds == step # "idle" ~> step = "idle"
=============================================================================
