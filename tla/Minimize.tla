------------------------------ MODULE Minimize ------------------------------
(***************************************************************************)
(* minimize/minimize.go: reduce the scenario, then the guidance, then the  *)
(* selections of a violating run while one fingerprint stays reproducible. *)
(* Every evaluation of a candidate is one action; what the loops decide    *)
(* between two evaluations belongs to the action that precedes it.         *)
(***************************************************************************)
EXTENDS Publish

VARIABLES
  current,      \* the smallest run so far: [scenario, tape, outcome]
  guide,        \* the entries that guide its reruns
  target,       \* the fingerprint to preserve
  runs,         \* evaluations, the exact replay of the input included
  granularity,
  at            \* first element of the next chunk, or <<entry, alternative>>

minimizeVars == <<current, guide, target, runs, granularity, at>>

MinimizeInit ==
  /\ current = [scenario |-> <<>>, tape |-> <<>>, outcome |-> OutcomeOf(Execute(program, <<>>, Decider("exact", <<>>, <<>>)))]
  /\ guide = <<>> /\ target = 0 /\ runs = 0 /\ granularity = 2 /\ at = <<1, 1>>

Smaller(a, b) == IF a < b THEN a ELSE b
Larger(a, b) == IF a > b THEN a ELSE b

\* The loops stop at the budget; the input's replay was one run of it.
BudgetLeft(n) == n < bounds.minimize

\* evaluate: a guided rerun, recorded.  A guided decider falls back and never
\* refuses, so that the errors that end Minimize with no result (an invalid
\* candidate, a failed recorder) are left out.
evaluate(scenario, tape) ==
  LET r == Execute(program, scenario, Decider("guided", tape, stream))
  IN [scenario |-> scenario, tape |-> r.tape, outcome |-> OutcomeOf(r)]

\* An evaluation that accepts any violation.
hasAnyViolation(outcome, fingerprint) == outcome.violations # <<>>

hasViolation(outcome, fingerprint) == fingerprint \in ToSet(outcome.violations)

\* Artifact: replay the input exactly before anything is removed.
VerifyInput ==
  LET input == first[1]
      r == Execute(program, Scenario, Decider("exact", input.tape, stream))
      reproduced == Finished(r.decider) /\ OutcomeOf(r) = input.outcome
  IN /\ stage = "published"
     /\ target' = input.outcome.violations[1]
     /\ current' = [scenario |-> Scenario, tape |-> input.tape, outcome |-> input.outcome]
     /\ guide' = input.tape
     /\ runs' = 1
     /\ stage' = CASE ~reproduced -> "refused" [] reproduced /\ BudgetLeft(1) -> "actions" [] OTHER -> "minimized"
     /\ UNCHANGED <<granularity, at>>

-----------------------------------------------------------------------------
(* Delta debugging of a sequence, used on the actions and on the guide.    *)

chunkOf(length) == (length + granularity - 1) \div granularity
without(s, k, chunk) == SubSeq(s, 1, k - 1) \o SubSeq(s, k + chunk, Len(s))

\* Delta debugging that stops refining one step early.
exhaustedEarly(length) == granularity * 2 > length

\* A pass over chunks of one element found nothing to remove.
exhausted(length) == granularity >= length

\* After a rejected chunk: the next one, a finer pass, or the next stage.
Rejected(length, chunk, next) ==
  /\ UNCHANGED <<current, guide>>
  /\ IF at[1] + chunk <= length
     THEN at' = <<at[1] + chunk, 1>> /\ UNCHANGED <<granularity, stage>>
     ELSE /\ at' = <<1, 1>>
          /\ IF exhausted(length) THEN granularity' = 2 /\ stage' = next
             ELSE granularity' = Smaller(length, granularity * 2) /\ UNCHANGED stage

Accepted(candidate, entries, shrunk, next) ==
  /\ current' = candidate
  /\ guide' = entries
  /\ at' = <<1, 1>>
  /\ IF shrunk = 0 THEN granularity' = 2 /\ stage' = next
     ELSE granularity' = Larger(2, granularity - 1) /\ UNCHANGED stage

\* The budget ends a stage where it is.
OutOfBudget(next) ==
  /\ ~BudgetLeft(runs)
  /\ stage' = next /\ granularity' = 2 /\ at' = <<1, 1>>
  /\ UNCHANGED <<current, guide, target, runs>>

RemoveActions ==
  LET s == current.scenario
      chunk == chunkOf(Len(s))
      candidate == evaluate(without(s, at[1], chunk), guide)
  IN /\ stage = "actions"
     /\ \/ OutOfBudget("guidance")
        \/ /\ BudgetLeft(runs)
           /\ runs' = runs + 1
           /\ UNCHANGED target
           /\ IF hasViolation(candidate.outcome, target)
              THEN Accepted(candidate, candidate.tape, Len(candidate.scenario), "guidance")
              ELSE Rejected(Len(s), chunk, "guidance")

RemoveGuidance ==
  LET chunk == chunkOf(Len(guide))
      entries == without(guide, at[1], chunk)
      candidate == evaluate(current.scenario, entries)
  IN /\ stage = "guidance"
     /\ \/ OutOfBudget("selections")
        \/ /\ BudgetLeft(runs)
           /\ runs' = runs + 1
           /\ UNCHANGED target
           /\ IF hasViolation(candidate.outcome, target)
              THEN Accepted(candidate, entries, Len(entries), "selections")
              ELSE Rejected(Len(guide), chunk, "selections")
-----------------------------------------------------------------------------
(* Selections.                                                             *)

\* simplerSelections: drop and the first option, or the minimum and halvings
\* towards the current value.
simplerSelections(entry) ==
  LET c == entry.choice
      now == entry.selection
      halvings[v \in 0..now] ==
        IF v > c.min /\ v < now THEN <<v>> \o (IF now - v <= 1 THEN <<>> ELSE halvings[v + (now - v) \div 2])
        ELSE <<>>
  IN IF HasOptions(c)
     THEN SelectSeq(IF c.options[1] = Drop THEN <<Drop>> ELSE <<Drop, c.options[1]>>,
                    LAMBDA x : x # now /\ x \in Options(c))
     ELSE IF now <= c.min THEN <<>> ELSE <<c.min>> \o halvings[c.min + (now - c.min) \div 2]

ShrinkSelection ==
  LET alternatives == simplerSelections(guide[at[1]])
      entries == [guide EXCEPT ![at[1]].selection = alternatives[at[2]]]
      candidate == evaluate(current.scenario, entries)
      matches == hasViolation(candidate.outcome, target)
  IN /\ stage = "selections"
     /\ UNCHANGED <<target, granularity>>
     /\ \/ /\ at[1] > Len(guide) \/ ~BudgetLeft(runs)
           /\ stage' = "minimized"
           /\ UNCHANGED <<current, guide, runs, at>>
        \/ /\ at[1] <= Len(guide) /\ BudgetLeft(runs) /\ at[2] > Len(alternatives)
           /\ at' = <<at[1] + 1, 1>>
           /\ UNCHANGED <<current, guide, runs, stage>>
        \/ /\ at[1] <= Len(guide) /\ BudgetLeft(runs) /\ at[2] <= Len(alternatives)
           /\ runs' = runs + 1
           /\ current' = IF matches THEN candidate ELSE current
           /\ guide' = IF matches THEN entries ELSE guide
           /\ at' = IF matches THEN <<at[1] + 1, 1>> ELSE <<at[1], at[2] + 1>>
           /\ UNCHANGED stage
-----------------------------------------------------------------------------
(* The minimizer's promises.                                               *)

Minimizing == stage \in {"actions", "guidance", "selections", "minimized"}

(* At every moment the run that would be written is exact and shows the    *)
(* failure that was asked for: its tape replays on its scenario, strictly  *)
(* and to the end, with the outcome it records and the target fingerprint; *)
(* and it stays within its run budget (Artifact, minimize).                *)
CandidatesReplay ==
  Minimizing =>
    LET r == Execute(program, current.scenario, Decider("exact", current.tape, stream))
    IN /\ Finished(r.decider)
       /\ OutcomeOf(r) = current.outcome
       /\ target \in ToSet(current.outcome.violations)
       /\ ValidTape(guide)
       /\ runs <= bounds.minimize

(* A stage that was not cut short by the budget ends one-minimal: no       *)
(* single action, and then no single entry of the guide, can be left out   *)
(* with the failure still reproduced (the delta debugging loops).          *)
StagesEndOneMinimal ==
  [][/\ stage = "actions" /\ stage' = "guidance" /\ BudgetLeft(runs')
          => \A k \in DOMAIN current'.scenario :
               target \notin ToSet(evaluate(without(current'.scenario, k, 1), guide').outcome.violations)
     /\ stage = "guidance" /\ stage' = "selections" /\ BudgetLeft(runs')
          => \A k \in DOMAIN guide' :
               target \notin ToSet(evaluate(current'.scenario, without(guide', k, 1)).outcome.violations)]_stage
=============================================================================
