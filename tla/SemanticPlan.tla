---------------------------- MODULE SemanticPlan ----------------------------
(***************************************************************************)
(* semanticplan/plan.go, execution.go and outcome.go: which plans may run  *)
(* on two adapters, the evidence of one execution, its normal form and the *)
(* comparison of two.  Schemas, digests, bounds and canonical encodings    *)
(* are left out: a digest is the document it digests.                      *)
(***************************************************************************)
EXTENDS Projection

CONSTANTS
  Members,
  ReferenceIDs,   \* the invariants each adapter's checker declares
  EtcdIDs

Boundary == 2     \* the scenario's duration: times are 0..Boundary

V1Actions == {"crash", "heal", "partition", "propose", "restart"}
Malformed == 0

Action(kind, at, node, command) == [kind |-> kind, at |-> at, node |-> node, command |-> command]

ReferenceSemanticCapabilities == [adapter |-> "reference", actions |-> V1Actions, invariants |-> ReferenceIDs]
SemanticCapabilities == [adapter |-> "etcdraft", actions |-> V1Actions, invariants |-> EtcdIDs]
-----------------------------------------------------------------------------
(* Plans.                                                                  *)

WorkloadEnd(actions) == FoldLeft(LAMBDA end, a : IF a.at > end THEN a.at ELSE end, 0, actions)

NewPlan(source, directives) ==
  [actions |-> source.actions, workloadEnd |-> WorkloadEnd(source.actions), adapter |-> source.adapter,
   directives |-> directives, stream |-> source.stream]

ValidPlan(plan) == plan.workloadEnd < Boundary

Reject(scan, code) == [scan EXCEPT !.rejections = @ \cup {code}]

Unscanned == [up |-> Members, balanced |-> TRUE, partitioned |-> FALSE, commands |-> {}, rejections |-> {}]

ScanProposal(scan, a) ==
  CASE a.command = Malformed -> Reject(scan, "invalid_portable_command")
    [] a.command \in scan.commands -> Reject(scan, "duplicate_command_id")
    [] OTHER -> [scan EXCEPT !.commands = @ \cup {a.command}]

Scan(scan, a) ==
  CASE a.kind = "propose" -> ScanProposal(scan, a)
    [] a.kind = "crash" -> [scan EXCEPT !.balanced = @ /\ a.node \in scan.up, !.up = @ \ {a.node}]
    [] a.kind = "restart" -> [scan EXCEPT !.balanced = @ /\ a.node \notin scan.up, !.up = @ \cup {a.node}]
    [] a.kind \in {"partition", "heal"} -> [scan EXCEPT !.partitioned = (a.kind = "partition")]
    [] OTHER -> Reject(scan, "unsupported_action")

Kinds(actions) == {actions[k].kind : k \in DOMAIN actions}

Rejections(plan, left, right, scan) ==
  scan.rejections
  \cup {code \in {"unbalanced_lifecycle"} : ~scan.balanced \/ scan.up # Members}
  \cup {code \in {"unhealed_network"} : scan.partitioned}
  \cup {code \in {"source_adapter"} : plan.adapter # left.adapter}
  \cup {code \in {"left_action"} : ~(Kinds(plan.actions) \subseteq left.actions)}
  \cup {code \in {"right_action"} : ~(Kinds(plan.actions) \subseteq right.actions)}

\* The plan may run exactly when nothing is rejected.
Preflight(plan, left, right) == Rejections(plan, left, right, FoldLeft(Scan, Unscanned, plan.actions))
Eligible(plan, left, right) == ValidPlan(plan) /\ Preflight(plan, left, right) = {}
-----------------------------------------------------------------------------
(* Executions.                                                             *)

NoOutcome == [status |-> "none", end |-> 0, violations |-> {}]

\* executeScheduled: violations come before the error that ended the run, and
\* that before the exhausted budget; a run nothing cut short runs to the end.
Outcome(run) ==
  [status |-> IF run.violations # {} THEN "violation"
              ELSE IF run.error THEN "error"
              ELSE IF run.exhausted THEN "budget_exhausted" ELSE "completed",
   end |-> IF run.error \/ run.exhausted THEN run.at ELSE Boundary,
   violations |-> run.violations]

\* ExecuteSemanticPlan: a cluster that could not be built has no outcome.
Execution(report, tape, run) ==
  [projection |-> report, decisions |-> tape,
   outcome |-> IF run.built THEN Outcome(run) ELSE NoOutcome,
   commitments |-> IF run.built THEN run.commitments ELSE <<>>]

ConsistentReport(report, recorded) ==
  /\ recorded = report.projected + report.fixed + Cardinality(report.additional)
  /\ CASE report.fidelity = "exact" ->
            report.additional = {} /\ report.unmatched = {} /\ report.projected = report.directives
       [] report.fidelity = "partial" ->
            /\ report.additional # {} \/ report.unmatched # {}
            /\ report.projected + Cardinality(report.unmatched) = report.directives
       [] report.fidelity = "failed" ->
            report.projected + Cardinality(report.unmatched) <= report.directives

\* SemanticExecution.Validate.
ValidExecution(execution) ==
  /\ ValidTape(execution.decisions)
  /\ ConsistentReport(execution.projection, Len(execution.decisions))
  /\ execution.projection.fidelity = "failed" => execution.outcome.status \in {"error", "none"}

\* VerifyExecutionProjection: the accounting follows from plan and tape alone.
SameReport(report, replay) ==
  /\ replay.agrees
  /\ [Finish(replay.projector) EXCEPT
        !.fidelity = IF report.fidelity = "failed" THEN "failed" ELSE @] = report

VerifyExecutionProjection(plan, execution) ==
  SameReport(execution.projection, Reproject(NewProjector(plan.directives, plan.stream), execution.decisions))

\* NewEligibleExecution: what is not accepted is not evidence.
NewEligibleExecution(plan, execution) ==
  ValidExecution(execution) /\ VerifyExecutionProjection(plan, execution)
-----------------------------------------------------------------------------
(* Normal forms and their comparison.                                      *)

NegotiateInvariantIDs(left, right) == left.invariants \cap right.invariants

classifyCompletion(outcome, fidelity) ==
  CASE fidelity = "failed" \/ outcome.status \in {"error", "none"} -> "execution_error"
    [] OTHER ->
       IF outcome.end = Boundary /\ outcome.status \in {"completed", "violation"} THEN "completed"
       ELSE CASE outcome.status = "violation" -> "safety_violation"
              [] outcome.status = "budget_exhausted" -> "step_limit"
              [] outcome.status = "completed" -> "time_limit"

commitmentsAgree(commitments) ==
  commitments # <<>> /\ \A m, n \in DOMAIN commitments : commitments[m] = commitments[n]

\* NormalizeExecution refuses an invariant the adapter did not declare.  That
\* the outcome lies within the plan's bounds and commits to the plan's nodes
\* holds of every execution here, which the plan's own runner produces.
Normalizable(plan, capabilities, execution) ==
  /\ NewEligibleExecution(plan, execution)
  /\ execution.outcome.violations \subseteq capabilities.invariants

NormalizeExecution(capabilities, peer, execution) ==
  [projection |-> execution.projection.fidelity,
   completion |-> classifyCompletion(execution.outcome, execution.projection.fidelity),
   agree |-> commitmentsAgree(execution.commitments),
   commitments |-> execution.commitments,
   negotiated |-> NegotiateInvariantIDs(capabilities, peer),
   common |-> execution.outcome.violations \cap NegotiateInvariantIDs(capabilities, peer),
   specific |-> execution.outcome.violations \ NegotiateInvariantIDs(capabilities, peer)]

\* NormalizedOutcome.Validate, for the outcome of an eligible execution.
ValidOutcome(outcome) ==
  /\ outcome.projection = "failed" => outcome.completion = "execution_error"
  /\ outcome.agree = commitmentsAgree(outcome.commitments)
  /\ outcome.common \cap outcome.specific = {}
  /\ outcome.common \subseteq outcome.negotiated
  /\ outcome.specific \cap outcome.negotiated = {}

compareProjection(left, right) ==
  CASE "failed" \in {left, right} -> "not_comparable"
    [] left = "exact" /\ right = "exact" -> "both_exact"
    [] left = "partial" /\ right = "exact" -> "left_partial"
    [] left = "exact" /\ right = "partial" -> "right_partial"
    [] left = "partial" /\ right = "partial" -> "both_partial"

Reached(completion) == completion = "completed"

compareExecutionBoundary(left, right) ==
  CASE Reached(left) /\ Reached(right) -> "both_reached"
    [] ~Reached(left) /\ Reached(right) -> "left_not_reached"
    [] Reached(left) /\ ~Reached(right) -> "right_not_reached"
    [] ~Reached(left) /\ ~Reached(right) -> "neither_reached"

\* A commitment is [chain, state]: the committed commands and what they made.
compareApplication(left, right) ==
  IF left.commitments = <<>> \/ right.commitments = <<>> THEN "not_comparable"
  ELSE CASE ~left.agree -> "left_nodes_disagree_at_boundary"
         [] left.agree /\ ~right.agree -> "right_nodes_disagree_at_boundary"
         [] OTHER ->
            IF left.commitments[1].chain # right.commitments[1].chain THEN "workload_divergence"
            ELSE IF left.commitments[1].state # right.commitments[1].state THEN "state_divergence" ELSE "agree"

agreement(partition) == IF partition.left = {} /\ partition.right = {} THEN "agree" ELSE "disagree"

partitionSets(left, right) == [shared |-> left \cap right, left |-> left \ right, right |-> right \ left]
NoPartition == [shared |-> {}, left |-> {}, right |-> {}]

\* Safety and application are compared of runs that both reached the boundary.
Comparison(left, right, boundary, partition, both) ==
  [projections |-> <<left.projection, right.projection>>,
   projection |-> compareProjection(left.projection, right.projection),
   completions |-> <<left.completion, right.completion>>,
   boundary |-> boundary,
   negotiated |-> left.negotiated,
   ids |-> IF both THEN partition ELSE NoPartition,
   safety |-> IF both THEN agreement(partition) ELSE "not_comparable",
   application |-> IF both THEN compareApplication(left, right) ELSE "not_comparable"]

CompareNormalized(left, right) ==
  Comparison(left, right, compareExecutionBoundary(left.completion, right.completion),
             partitionSets(left.common, right.common), Reached(left.completion) /\ Reached(right.completion))

validateProjectionCompletionPair(projection, completion) == projection = "failed" => completion = "execution_error"

\* NormalizedComparison.Validate: the axes of a document agree with each other.
ValidComparison(c) ==
  /\ \A side \in 1..2 : validateProjectionCompletionPair(c.projections[side], c.completions[side])
  /\ c.projection = compareProjection(c.projections[1], c.projections[2])
  /\ c.boundary = compareExecutionBoundary(c.completions[1], c.completions[2])
  /\ c.ids.shared \cap c.ids.left = {} /\ c.ids.shared \cap c.ids.right = {} /\ c.ids.left \cap c.ids.right = {}
  /\ c.ids.shared \cup c.ids.left \cup c.ids.right \subseteq c.negotiated
  /\ c.boundary # "both_reached" => c.safety = "not_comparable" /\ c.application = "not_comparable"
  /\ c.boundary = "both_reached" => c.safety # "not_comparable"
  /\ c.safety = "agree" => c.ids.left = {} /\ c.ids.right = {}
  /\ c.safety = "disagree" => c.ids.left # {} \/ c.ids.right # {}
  /\ c.safety = "not_comparable" => c.ids = NoPartition

\* What CompareNormalized returns, if it returns anything.
Comparable(left, right) ==
  /\ ValidOutcome(left) /\ ValidOutcome(right)
  /\ left.negotiated = right.negotiated
  /\ ValidComparison(CompareNormalized(left, right))

\* runCommand's exit status.
ExitStatus(comparison) ==
  IF comparison.boundary = "both_reached" /\ comparison.safety # "disagree" /\ comparison.application = "agree" THEN 0 ELSE 1
-----------------------------------------------------------------------------
(* Causal evidence.                                                        *)

ValidCausalReport(report) ==
  /\ report.projected <= report.directives
  /\ Cardinality(report.unmatched) <= report.directives
  /\ report.fidelity = "exact" => report.additional = {} /\ report.unmatched = {} /\ report.projected = report.directives
  /\ report.fidelity = "partial" => report.additional # {} \/ report.unmatched # {} \/ report.projected # report.directives

ReplayedReport(replay, report) == replay.agrees /\ CausalFinish(replay.projector) = report

\* CausalReplayEvidence.Validate.
ValidCausalEvidence(source, tape, stream, report) ==
  /\ CausallyProjectable(source)
  /\ ValidTape(tape) /\ Losses(tape) # {} /\ \A k \in Losses(tape) : tape[k].choice.context.causal
  /\ ValidCausalReport(report) /\ report.fidelity # "failed"
  /\ ReplayedReport(CausallyReproject(NewCausalProjector(CausalDirectivesFromTape(source), stream), tape), report)
=============================================================================
