----------------------------- MODULE Projection -----------------------------
(***************************************************************************)
(* semanticplan/projector.go and causal.go: the choices of a source tape   *)
(* become directives, and a projector answers the choices of another       *)
(* adapter with them, by occurrence or by operation.  A choice has the     *)
(* context [kind, key, causal, operations]; its identity is local to its   *)
(* adapter and only kind and key are portable.                             *)
(***************************************************************************)
EXTENDS Decision, FiniteSets, SequencesExt

Dropped == 0
Delivered == 1
LossKind == "network_loss"
LatencyKind == "network_latency"

Context(kind, key, causal, operations) ==
  [kind |-> kind, key |-> key, causal |-> causal, operations |-> operations]

PortableKey(c) == <<c.context.kind, c.context.key>>

\* validatePortableChoice: a closed vocabulary, losses by option and durations by range.
validatePortableChoice(c) ==
  /\ ValidateChoice(c)
  /\ c.context.kind \in {LossKind, LatencyKind}
  /\ IF c.context.kind = LossKind THEN HasOptions(c) /\ Options(c) \subseteq {Dropped, Delivered} ELSE ~HasOptions(c)

isFixed(c) == IF HasOptions(c) THEN Len(c.options) = 1 ELSE c.min = c.max
fixedSelection(c) == IF HasOptions(c) THEN c.options[1] ELSE c.min
-----------------------------------------------------------------------------
(* Occurrence projection.                                                  *)

Directive(key, index, selection) == [key |-> key, sourceIndex |-> index, selection |-> selection]

\* DirectivesFromTape: what is refused, and what becomes a directive.
Projectable(tape) ==
  /\ ValidTape(tape)
  /\ \A k \in DOMAIN tape : validatePortableChoice(tape[k].choice)
  /\ \A j, k \in DOMAIN tape : PortableKey(tape[j].choice) = PortableKey(tape[k].choice) => j = k

DirectivesFromTape(tape) ==
  {Directive(PortableKey(tape[k].choice), k, tape[k].selection) : k \in {j \in DOMAIN tape : ~isFixed(tape[j].choice)}}

NewProjector(directives, stream) ==
  [directives |-> directives, consumed |-> {}, seen |-> {}, additional |-> {},
   fallback |-> Decider("then", <<>>, stream), projected |-> 0, fixed |-> 0, failed |-> FALSE]

Answer(selection, p) == [ok |-> TRUE, selection |-> selection, projector |-> p]
Refuse(p) == [ok |-> FALSE, selection |-> 0, projector |-> [p EXCEPT !.failed = TRUE]]

\* A projector that counts the directive before it knows that it fits.
MatchedEagerly(p, c, d) ==
  IF ~validateSelection(c, d.selection) THEN Refuse([p EXCEPT !.consumed = @ \cup {d.key}])
  ELSE Answer(d.selection, [p EXCEPT !.consumed = @ \cup {d.key}, !.projected = @ + 1])

\* A matching directive outside the domain of the target is not consumed.
Matched(p, c, d) ==
  IF ~validateSelection(c, d.selection) THEN Refuse(p)
  ELSE Answer(d.selection, [p EXCEPT !.consumed = @ \cup {d.key}, !.projected = @ + 1])

FellBack(p, c, chosen) ==
  Answer(chosen.selection, [p EXCEPT !.fallback = chosen.decider, !.additional = @ \cup {PortableKey(c)}])

Fresh(p, c) ==
  IF isFixed(c) THEN Answer(fixedSelection(c), [p EXCEPT !.fixed = @ + 1])
  ELSE IF \E d \in p.directives : d.key = PortableKey(c)
       THEN Matched(p, c, CHOOSE d \in p.directives : d.key = PortableKey(c))
       ELSE FellBack(p, c, Seeded(p.fallback, c))

\* Projector.Choose: a failure is permanent.
Project(p, c) ==
  IF p.failed \/ ~validatePortableChoice(c) \/ PortableKey(c) \in p.seen THEN Refuse(p)
  ELSE Fresh([p EXCEPT !.seen = @ \cup {PortableKey(c)}], c)

Fidelity(failed, covered) == IF failed THEN "failed" ELSE IF covered THEN "exact" ELSE "partial"

Unmatched(p) == {d \in p.directives : d.key \notin p.consumed}

Finish(p) ==
  [fidelity |-> Fidelity(p.failed, p.additional = {} /\ Unmatched(p) = {}),
   directives |-> Cardinality(p.directives), projected |-> p.projected, fixed |-> p.fixed,
   additional |-> p.additional, unmatched |-> Unmatched(p)]
-----------------------------------------------------------------------------
(* Causal projection: one disposition for every attempt of an operation.   *)

Losses(tape) == {k \in DOMAIN tape : tape[k].choice.context.kind = LossKind}
Carrying(tape, o) == {k \in Losses(tape) : o \in tape[k].choice.context.operations}
Carried(tape) == UNION {tape[k].choice.context.operations : k \in Losses(tape)}

\* ValidateCausalTape and the conflicts CausalDirectivesFromTape refuses.
CausallyProjectable(tape) ==
  /\ ValidTape(tape)
  /\ Losses(tape) # {}
  /\ \A k \in Losses(tape) : tape[k].choice.context.causal
  /\ \A o \in Carried(tape) : \A j, k \in Carrying(tape, o) : tape[j].selection = tape[k].selection

CausalDirectivesFromTape(tape) ==
  {[operation |-> o, sourceIndices |-> Carrying(tape, o),
    selection |-> tape[CHOOSE k \in Carrying(tape, o) : TRUE].selection] : o \in Carried(tape)}

NewCausalProjector(directives, stream) ==
  [directives |-> directives, consumed |-> {}, additional |-> {},
   fallback |-> Decider("then", <<>>, stream), failed |-> FALSE]

\* A choice that no directive can speak about is left to the fallback.
Unaddressed(p, c, chosen) ==
  Answer(chosen.selection, [p EXCEPT !.fallback = chosen.decider, !.additional = @ \cup {<<"choice", c.id>>}])

\* Operations the source never sent are delivered, when the domain permits it.
AllUnknown(p, c, chosen) ==
  IF validateSelection(c, Delivered) THEN Answer(Delivered, p)
  ELSE Answer(chosen.selection, [p EXCEPT !.fallback = chosen.decider])

\* A projector that lets a drop take unknown operations with it.
mixesNever(selection, unknown) == FALSE

\* A batch is indivisible: a drop may not take an unknown operation with it.
mixes(selection, unknown) == selection = Dropped /\ unknown # {}

First(known) == CHOOSE d \in known : \A other \in known : d.operation <= other.operation
Conflicting(known) == {d.operation : d \in {other \in known : other.selection # First(known).selection}}

Batch(p, c, known, unknown, selection) ==
  IF Conflicting(known) # {} \/ mixes(selection, unknown) \/ ~validateSelection(c, selection) THEN Refuse(p)
  ELSE Answer(selection, [p EXCEPT !.consumed = @ \cup {d.operation : d \in known}])

Addressed(p, c, known, unknown) ==
  IF known = {} THEN AllUnknown(p, c, Seeded(p.fallback, c)) ELSE Batch(p, c, known, unknown, First(known).selection)

KnownOf(p, c) == {d \in p.directives : d.operation \in c.context.operations}
UnknownOf(p, c) == c.context.operations \ {d.operation : d \in p.directives}

\* The unknown operations met in sorted order before a conflict ends the loop.
Met(p, c) == {o \in UnknownOf(p, c) : \A x \in Conflicting(KnownOf(p, c)) : o < x}

\* CausalProjector.Choose.
CausalProject(p, c) ==
  IF p.failed \/ ~ValidateChoice(c) THEN Refuse(p)
  ELSE IF c.context.kind # LossKind THEN Unaddressed(p, c, Seeded(p.fallback, c))
  ELSE IF ~c.context.causal THEN Refuse(p)
  ELSE IF c.context.operations = {} THEN Unaddressed(p, c, Seeded(p.fallback, c))
  ELSE Addressed([p EXCEPT !.additional = @ \cup ({"operation"} \X Met(p, c))], c, KnownOf(p, c), UnknownOf(p, c))

CausalUnmatched(p) == {d \in p.directives : d.operation \notin p.consumed}

\* Without the fallback for a report that does not validate, which the code
\* keeps for a later change: what is built here always does.
CausalFinish(p) ==
  [fidelity |-> Fidelity(p.failed, p.additional = {} /\ CausalUnmatched(p) = {}),
   directives |-> Cardinality(p.directives), projected |-> Cardinality(p.consumed),
   additional |-> p.additional, unmatched |-> CausalUnmatched(p)]
-----------------------------------------------------------------------------
(* Replaying a recorded tape through a projector.                          *)

Confirm(step, entry, answer) ==
  [agrees |-> step.agrees /\ answer.ok /\ answer.selection = entry.selection, projector |-> answer.projector]

Reproject(p, tape) ==
  FoldLeft(LAMBDA step, entry : Confirm(step, entry, Project(step.projector, entry.choice)),
           [agrees |-> TRUE, projector |-> p], tape)

CausallyReproject(p, tape) ==
  FoldLeft(LAMBDA step, entry : Confirm(step, entry, CausalProject(step.projector, entry.choice)),
           [agrees |-> TRUE, projector |-> p], tape)
=============================================================================
