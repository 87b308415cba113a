------------------------------- MODULE Cross --------------------------------
(***************************************************************************)
(* The cross-adapter experiment: draft-cross derives a plan from a source  *)
(* run, executes it on the reference and on etcd/raft, compares the two    *)
(* and publishes the evidence; the causal prototype projects operations    *)
(* instead of occurrences.  The reference is deterministic: while it gets  *)
(* the source's selections it presents the source's choices.  The target   *)
(* is any adapter, which may present any choices and end in any way.       *)
(***************************************************************************)
EXTENDS SemanticPlan, Bundle

CONSTANTS Sources   \* source runs, each with what the target may do with it

VARIABLES
  source, stage, plan,
  projector, tape, refused,      \* the target's execution so far
  left, right,                   \* the two executions
  comparison, exit

planVars == <<source, plan>>
targetVars == <<projector, tape, refused>>
evidenceVars == <<left, right, comparison>>
vars == <<planVars, stage, targetVars, evidenceVars, exit, bundleVars>>

Ours == "ours"
Reference == ReferenceSemanticCapabilities
Target == SemanticCapabilities
None == <<>>
Running == 9        \* no exit status yet

ExecutionInit ==
  /\ projector = NewProjector({}, <<>>)
  /\ tape = <<>> /\ refused = None
  /\ left = None /\ right = None /\ comparison = None

Init ==
  /\ source \in Sources
  /\ stage = "derive" /\ plan = None /\ exit = Running
  /\ ExecutionInit
  /\ BundleInit
  /\ faults = source.faults

Ends(status) == stage' = "ended" /\ exit' = status
Proceeds(next) == stage' = next /\ UNCHANGED exit
-----------------------------------------------------------------------------
(* derive.                                                                 *)

Planned(candidate, next) ==
  IF ~ValidPlan(candidate) THEN Ends(2) /\ UNCHANGED plan
  ELSE IF Preflight(candidate, Reference, Target) # {} THEN Ends(1) /\ UNCHANGED plan
  ELSE Proceeds(next) /\ plan' = candidate

deriveCommand ==
  /\ stage = "derive" /\ source.mode = "occurrence"
  /\ IF Projectable(source.tape) THEN Planned(NewPlan(source, DirectivesFromTape(source.tape)), "planned")
     ELSE Ends(2) /\ UNCHANGED plan
  /\ UNCHANGED <<source, targetVars, evidenceVars, bundleVars>>
-----------------------------------------------------------------------------
(* run.                                                                    *)

verifySourceRun == plan.adapter = source.adapter /\ plan.directives = DirectivesFromTape(source.tape)

BeginRun ==
  /\ stage = "planned"
  /\ verifySourceRun /\ Eligible(plan, Reference, Target)
  /\ ensureTargetsAbsent(Ours)
  /\ IF pc'[Ours] = "checked" THEN stage' = "reference" /\ exit' = Running ELSE UNCHANGED stage /\ exit' = 2
  /\ UNCHANGED <<planVars, targetVars, evidenceVars>>

\* experiment.ExecuteSemanticPlan: a diverged replay would leave the source.
Referred(replay) ==
  IF replay.agrees
  THEN left' = Execution(Finish(replay.projector), source.tape, source.run) /\ Proceeds("target")
  ELSE UNCHANGED left /\ Proceeds("diverged")

ExecuteReference ==
  /\ stage = "reference" /\ pc[Ours] = "checked"
  /\ Referred(Reproject(NewProjector(plan.directives, plan.stream), source.tape))
  /\ projector' = NewProjector(plan.directives, plan.stream)
  /\ UNCHANGED <<planVars, tape, refused, right, comparison, bundleVars>>

\* The Recorder keeps answered choices only; a refusal ends the run.
Record(c, answer) ==
  /\ projector' = answer.projector
  /\ IF answer.ok THEN tape' = Append(tape, newEntry(c, answer.selection)) /\ UNCHANGED refused
     ELSE refused' = <<c>> /\ UNCHANGED tape

Presentable == refused = None /\ Len(tape) < source.depth

TargetChoice ==
  /\ stage = "target" /\ pc[Ours] = "checked"
  /\ Presentable
  /\ \E c \in source.choices : Record(c, Project(projector, c))
  /\ UNCHANGED <<planVars, stage, evidenceVars, exit, bundleVars>>

\* A refused choice is the error that ends the run, before or after the cluster is built.
PossibleRun(run) == IF refused = None THEN run.built ELSE run.error

Concluded(execution) ==
  /\ right' = execution
  /\ IF NewEligibleExecution(plan, execution) THEN Proceeds("executed") /\ UNCHANGED bundleVars
     ELSE Ends(2) /\ Abandon(Ours)

\* etcdraft.ExecuteSemanticPlan returns.
TargetEnds ==
  /\ stage = "target" /\ pc[Ours] = "checked"
  /\ \E run \in source.runs : PossibleRun(run) /\ Concluded(Execution(Finish(projector), tape, run))
  /\ UNCHANGED <<planVars, targetVars, left, comparison>>

Compared(one, other) ==
  IF Comparable(one, other) THEN comparison' = CompareNormalized(one, other) /\ Proceeds("compared") /\ UNCHANGED bundleVars
  ELSE Ends(2) /\ Abandon(Ours) /\ UNCHANGED comparison

Compare ==
  /\ stage = "executed" /\ pc[Ours] = "checked"
  /\ IF Normalizable(plan, Reference, left) /\ Normalizable(plan, Target, right)
     THEN Compared(NormalizeExecution(Reference, Target, left), NormalizeExecution(Target, Reference, right))
     ELSE Ends(2) /\ Abandon(Ours) /\ UNCHANGED comparison
  /\ UNCHANGED <<planVars, targetVars, left, right>>

Exits ==
  exit' = CASE pc'[Ours] = "published" -> ExitStatus(comparison)
            [] pc'[Ours] = "failed" -> 2
            [] OTHER -> exit

Publication == Exits /\ UNCHANGED <<planVars, stage, targetVars, evidenceVars>>
Directory == UNCHANGED <<planVars, stage, targetVars, evidenceVars, exit>>

Allowed(p) == IF p = Ours THEN stage = "compared" ELSE source.rival

RunCommandAgain ==
  /\ RunAgain(Ours)
  /\ stage' = "planned" /\ exit' = Running
  /\ projector' = NewProjector({}, <<>>) /\ tape' = <<>> /\ refused' = None
  /\ left' = None /\ right' = None /\ comparison' = None
  /\ UNCHANGED planVars

\* Another draft-cross with the same prefix and a plan of its own.
Rivals == Publishers \ {Ours}
-----------------------------------------------------------------------------
(* The causal prototype: ExecuteCausalPlan and its evidence.               *)

Projects(directives) ==
  projector' = IF stage' = "causal" THEN NewCausalProjector(directives, source.stream) ELSE projector

ExecuteCausalPlan ==
  /\ stage = "derive" /\ source.mode = "causal"
  /\ IF CausallyProjectable(source.tape)
     THEN Planned(NewPlan(source, {}), "causal") /\ Projects(CausalDirectivesFromTape(source.tape))
     ELSE Ends(2) /\ UNCHANGED <<plan, projector>>
  /\ UNCHANGED <<source, tape, refused, evidenceVars, bundleVars>>

CausalChoice ==
  /\ stage = "causal"
  /\ Presentable
  /\ \E c \in source.choices : Record(c, CausalProject(projector, c))
  /\ UNCHANGED <<planVars, stage, evidenceVars, exit, bundleVars>>

CausalEnds ==
  /\ stage = "causal"
  /\ right' = CausalFinish(projector)
  /\ Proceeds("causal_evidence")
  /\ UNCHANGED <<planVars, targetVars, left, comparison, bundleVars>>
-----------------------------------------------------------------------------
Ended ==
  /\ stage \in {"ended", "causal_evidence"} \/ pc[Ours] = "published"
  /\ UNCHANGED vars

Next ==
  \/ deriveCommand
  \/ BeginRun
  \/ ExecuteReference
  \/ TargetChoice
  \/ TargetEnds
  \/ Compare
  \/ \E p \in Rivals : Allowed(p) /\ ensureTargetsAbsent(p) /\ Directory
  \/ \E p \in Publishers : Allowed(p) /\ StageDocuments(p) /\ Publication
  \/ \E p \in Publishers : LinkData(p) /\ Directory
  \/ \E p \in Publishers : SyncData(p) /\ Directory
  \/ \E p \in Publishers : LinkManifest(p) /\ Directory
  \/ \E p \in Publishers : FinalSync(p) /\ Publication
  \/ \E p \in Publishers : RollBackPath(p) /\ Directory
  \/ \E p \in Publishers : RollBackEnds(p) /\ Publication
  \/ \E p \in Publishers : Kill(p) /\ Directory
  \/ MachineStops /\ Directory
  \/ Recover /\ Directory
  \/ RecoverPath /\ Directory
  \/ RecoverSync /\ Directory
  \/ RecoveryStops /\ Directory
  \/ RunCommandAgain
  \/ \E p \in Rivals : RunAgain(p) /\ Directory
  \/ CausalChoice
  \/ ExecuteCausalPlan
  \/ CausalEnds
  \/ Ended

Spec == Init /\ [][Next]_vars
-----------------------------------------------------------------------------
(* verify.                                                                 *)

ChoicesOf(recorded) == [k \in DOMAIN recorded |-> recorded[k].choice]

ReplayOn(replay, c) == IF replay.status = "ok" THEN Choose(replay.decider, c) ELSE replay

Replay(recorded, presented) == FoldLeft(ReplayOn, Chosen(0, Decider("exact", recorded, <<>>)), presented)

\* A failed projection's tape is a prefix: the replay stops where it ends.
ReplayedLocally(replay, fidelity) ==
  Finished(replay.decider) /\ replay.status = IF fidelity = "failed" THEN "exhausted" ELSE "ok"

verifyLocalTape(execution, presented) ==
  ReplayedLocally(Replay(execution.decisions, presented), execution.projection.fidelity)

verifyEvidence ==
  /\ verifySourceRun /\ Eligible(plan, Reference, Target)
  /\ Normalizable(plan, Reference, left) /\ verifyLocalTape(left, ChoicesOf(source.tape))
  /\ Normalizable(plan, Target, right) /\ verifyLocalTape(right, ChoicesOf(tape) \o refused)

verifyBundle(p) == Intact(p) /\ (p = Ours /\ stage = "compared" => verifyEvidence)
-----------------------------------------------------------------------------
(* Properties.                                                             *)

(* A commit manifest that anybody can see, and whose publication was not   *)
(* withdrawn, has the data files it names: whatever failed, was killed,    *)
(* rolled back, recovered or raced another publisher, draft-cross verify   *)
(* accepts the bundle and what was recorded of both executions             *)
(* (publishDocuments, recoverCommand, verifyBundle).                       *)
CommittedVerifies ==
  \A p \in Publishers \ withdrawn : visible[ManifestPath] = p => verifyBundle(p)

\* The reference, given its own decisions as directives, repeats the source exactly.
SourceProjectsExactly ==
  /\ stage # "diverged"
  /\ left # None => left.projection.fidelity = "exact"

\* What the target recorded gives back its own report, a refused choice included.
AccountingReproduces ==
  right # None /\ source.mode = "occurrence" => VerifyExecutionProjection(plan, right)

\* Once both executions are accepted no later document is refused: neither the
\* negotiation, seen from either side, nor the axes can contradict each other.
EvidenceIsKept ==
  stage = "ended" /\ right # None =>
    ~NewEligibleExecution(plan, right) \/ ~(right.outcome.violations \subseteq EtcdIDs)

\* Success is claimed only of runs that went to the boundary, with one
\* application state on every node of both and the same common violations.
AgreementIsReal ==
  exit = 0 /\ pc[Ours] = "published" =>
    /\ left.outcome.end = Boundary /\ right.outcome.end = Boundary
    /\ Cardinality({left.commitments[n] : n \in Members} \cup {right.commitments[n] : n \in Members}) = 1
    /\ \A id \in ReferenceIDs \cap EtcdIDs : id \in left.outcome.violations <=> id \in right.outcome.violations

(* The evidence of a cross-adapter run is what happened: the source        *)
(* projects onto itself without loss, the report of any target, failed     *)
(* projections included, follows from its plan and tape, executions that   *)
(* were accepted are compared, and agreement is never reported of runs     *)
(* that differ (Projector.Choose and Finish, VerifyExecutionProjection,    *)
(* CompareNormalized, NormalizedComparison.Validate, runCommand).          *)
EvidenceIsFaithful == SourceProjectsExactly /\ AccountingReproduces /\ EvidenceIsKept /\ AgreementIsReal

(* Causal projection gives every attempt of an operation the source's      *)
(* disposition, never drops an operation the source did not send unless    *)
(* the target can only drop, and a projection that refused nothing leaves  *)
(* evidence that validates (CausalProjector.Choose,                        *)
(* CausalReplayEvidence.Validate).                                         *)
CausalDispositions ==
  source.mode = "causal" =>
    /\ \A k \in Losses(tape), o \in UNION {tape[j].choice.context.operations : j \in Losses(tape)} :
         o \in tape[k].choice.context.operations =>
           IF o \in Carried(source.tape)
           THEN \A j \in Losses(source.tape) :
                  o \in source.tape[j].choice.context.operations => source.tape[j].selection = tape[k].selection
           ELSE tape[k].selection = Delivered \/ Delivered \notin Options(tape[k].choice)
    /\ stage = "causal_evidence" /\ refused = None /\ Losses(tape) # {} =>
         ValidCausalEvidence(source.tape, tape, source.stream, right)
=============================================================================
