----------------------------- MODULE Experiment -----------------------------
(***************************************************************************)
(* experiment/experiment.go: one clean run of a scenario under a decider.  *)
(* A run is sequential and deterministic, so it is a function.  The        *)
(* cluster below it is abstracted to a program: a number that each event   *)
(* moves.  An event sends a packet, so it asks for the delivery of the     *)
(* packet and, unless it is dropped, for its latency.  In some values the  *)
(* checker reports a violation, whose fingerprint is the value.            *)
(***************************************************************************)
EXTENDS Decision, SequencesExt

CONSTANT States         \* 0..States-1 are the values of a program

Deliver == 0
Drop == 1

\* Choices describe themselves by part of the state only.
delivery(action, v) == Choice(<<action, "delivery">>, <<Deliver, Drop>>, 0, 0, v % 2)
latency(action, v) == Choice(<<action, "latency">>, <<>>, 0, 3, v % 2)

moved(program, action, v, ticks) == (v * program.scale[action] + ticks * program.push[action]) % States

\* Recorder.Choose around the decider: an answer is recorded, a refusal ends
\* the run.
record(r, c, answer) ==
  IF answer.status = "ok"
  THEN [r EXCEPT !.decider = answer.decider, !.tape = Append(@, newEntry(c, answer.selection))]
  ELSE [r EXCEPT !.status = answer.status, !.choice = c]

ask(r, c) == record(r, c, Choose(r.decider, c))

\* Cluster.observe: a violation is reported once and may stop the cluster.
observe(program, r) ==
  IF r.v \notin program.bad \/ r.v \in ToSet(r.violations) THEN r
  ELSE [r EXCEPT !.violations = Append(@, r.v), !.status = IF program.stops THEN "stopped" ELSE @]

\* The packet arrives and moves the program.
arrive(program, action, r) ==
  IF r.status # "running" THEN r
  ELSE observe(program, [r EXCEPT !.v = moved(program, action, @, Last(r.tape).selection + 1)])

\* Once its delivery is decided, a packet that is not dropped has a latency.
route(program, action, r) ==
  CASE r.status # "running" -> r
    [] r.status = "running" /\ Last(r.tape).selection = Drop -> observe(program, r)
    [] OTHER -> arrive(program, action, ask(r, latency(action, r.v)))

Bootstrap == 0          \* the event of a new cluster, before any action

\* The stable boundary before an event, and the event itself counted; only the
\* bootstrap is no step.
boundary(action, r) ==
  [r EXCEPT !.preEvent = [v |-> r.v, violations |-> r.violations], !.before = Len(r.tape), !.used = r.steps,
            !.steps = IF action = Bootstrap THEN @ ELSE @ + 1]

\* One turn of the loop of executeScheduledCore.
event(program, action, r) ==
  CASE r.status # "running" -> r
    [] r.status = "running" /\ r.steps = program.maxSteps -> [r EXCEPT !.status = "budget"]
    [] OTHER -> route(program, action, ask(boundary(action, r), delivery(action, r.v)))

\* executeScheduledCore from a new cluster.
Execute(program, scenario, decider) ==
  LET events == <<Bootstrap>> \o scenario
      initial == [status |-> "running", v |-> 0, violations |-> <<>>, decider |-> decider, tape |-> <<>>,
                  choice |-> delivery(Bootstrap, 0), steps |-> 0, used |-> 0,
                  preEvent |-> [v |-> 0, violations |-> <<>>], before |-> 0]
      run[k \in 0..Len(events)] ==
        IF k = 0 THEN initial ELSE LET r == run[k - 1] IN event(program, events[k], r)
  IN run[Len(events)]

\* A violation outranks an error, and an error the step budget.
OutcomeOf(r) ==
  [status |-> CASE r.violations # <<>> -> "violation"
                [] r.violations = <<>> /\ r.status \in {"mismatch", "exhausted"} -> "error"
                [] r.violations = <<>> /\ r.status = "budget" -> "budget_exhausted"
                [] OTHER -> "completed",
   violations |-> r.violations, steps |-> r.steps, digest |-> r.v]

\* encodeFrontier: the boundary before the event with the open choice, and the
\* choices the event has made so far.
encodeFrontier(program, scenario, r) ==
  [scenario |-> scenario, configuration |-> program.maxSteps, steps |-> r.used,
   preEvent |-> r.preEvent, inEvent |-> SubSeq(r.tape, r.before + 1, Len(r.tape))]
=============================================================================
