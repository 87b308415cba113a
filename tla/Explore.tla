------------------------------ MODULE Explore ------------------------------
(***************************************************************************)
(* explore/explore.go: depth-first search over choice prefixes, each rerun *)
(* from a clean cluster, with a cache of canonical frontiers.  One         *)
(* iteration of the loop of dfs is one action.                             *)
(***************************************************************************)
EXTENDS Experiment, FiniteSets

CONSTANT Scenario       \* the external actions of the explored scenario

VARIABLES
  program, stream,      \* the system under test and the seeded stream
  bounds,               \* [runs, depth, branches, samples, stop, entries, minimize]
  stack,                \* prefixes still to run, the last one first
  cache,                \* identities already expanded
  result,               \* the counters of Result
  first,                \* FirstViolation: <<>> or <<execution>>
  outcomes,             \* every outcome of a completed run, in order
  stage                 \* explore, then the stages that follow

exploreVars == <<stack, cache, result, first, outcomes>>

NoResult == [runs |-> 0, open |-> 0, completed |-> 0, unconsumed |-> 0, depth |-> 0, sampled |-> 0,
             violating |-> 0, pruned |-> 0, skips |-> 0, truncated |-> FALSE]

ExploreInit == stack = <<<<>>>> /\ cache = {} /\ result = NoResult /\ first = <<>> /\ outcomes = <<>>

\* candidates: the selections tried at a choice, in order.
candidates(c) ==
  IF HasOptions(c) THEN SubSeq(c.options, 1, IF Len(c.options) < bounds.branches THEN Len(c.options) ELSE bounds.branches)
  ELSE LET span == c.max - c.min + 1
           count == IF bounds.samples < bounds.branches THEN bounds.samples ELSE bounds.branches
       IN IF span <= count THEN [k \in 1..span |-> c.min + k - 1]
          ELSE <<c.min>> \o (IF count >= 3 THEN <<c.min + (c.max - c.min) \div 2>> ELSE <<>>)
                         \o (IF count >= 2 THEN <<c.max>> ELSE <<>>)

sampled(c) == Len(candidates(c)) < (IF HasOptions(c) THEN Len(c.options) ELSE c.max - c.min + 1)

\* The bucket of an identity: SHA-256 with few values, so that it collides.
hash(identity) == identity.frontier.steps

\* An identity without the remaining depth.
frontierIdentity(r, remaining) ==
  [frontier |-> encodeFrontier(program, Scenario, r), choice |-> r.choice, remaining |-> 0]

cacheIdentity(r, remaining) ==
  [frontier |-> encodeFrontier(program, Scenario, r), choice |-> r.choice, remaining |-> remaining]

\* Equal digests select a bucket; only equal bytes prune.
seen(identity) == \E i \in cache : hash(i) = hash(identity) /\ i = identity

\* A full cache admits nothing more.
admit(identity) == IF Cardinality(cache) >= bounds.entries THEN cache ELSE cache \cup {identity}

children(prefix, c) ==
  LET s == Reverse(candidates(c))
  IN [k \in DOMAIN s |-> Append(prefix, newEntry(c, s[k]))]

execution(tape, outcome) == [tape |-> tape, outcome |-> outcome]

\* A run that completed: its outcome counts, and a violation may end the search.
Completed(prefix, tape, r, counted) ==
  LET outcome == OutcomeOf(r)
      violating == outcome.violations # <<>>
      stops == violating /\ bounds.stop
      rest == Front(stack)
  IN /\ outcomes' = Append(outcomes, outcome)
     /\ first' = IF violating /\ first = <<>> THEN <<execution(tape, outcome)>> ELSE first
     /\ result' = [counted EXCEPT !.completed = @ + 1, !.violating = IF violating THEN @ + 1 ELSE @,
                                  !.truncated = stops /\ rest # <<>>]
     /\ stack' = rest
     /\ stage' = IF stops THEN "explored" ELSE stage
     /\ UNCHANGED cache

\* The run stopped at a choice beyond its prefix: expand it unless an equal
\* frontier was expanded before.
Opened(prefix, r, counted) ==
  LET identity == cacheIdentity(r, bounds.depth - Len(prefix))
      full == Cardinality(cache) >= bounds.entries
      hit == seen(identity)
  IN /\ stack' = IF hit THEN Front(stack) ELSE Front(stack) \o children(prefix, r.choice)
     /\ cache' = IF hit THEN cache ELSE admit(identity)
     /\ result' = [counted EXCEPT !.open = @ + 1, !.pruned = IF hit THEN @ + 1 ELSE @,
                                  !.skips = IF ~hit /\ full THEN @ + 1 ELSE @,
                                  !.sampled = IF ~hit /\ sampled(r.choice) THEN @ + 1 ELSE @]
     /\ UNCHANGED <<first, outcomes, stage>>

\* A run that ended before it consumed its prefix, or met another choice,
\* which ends it with an error.
Unconsumed(counted) ==
  /\ stack' = Front(stack)
  /\ result' = [counted EXCEPT !.unconsumed = @ + 1]
  /\ UNCHANGED <<cache, first, outcomes, stage>>

\* At the depth bound, complete: hold the prefix and let the seed finish.
CompleteSuffix ==
  LET prefix == Last(stack)
      r == Execute(program, Scenario, Decider("then", prefix, stream))
      counted == [result EXCEPT !.runs = @ + 1, !.depth = @ + 1]
  IN /\ stage = "explore" /\ stack # <<>> /\ result.runs < bounds.runs
     /\ Len(prefix) >= bounds.depth
     /\ IF Finished(r.decider) THEN Completed(prefix, r.tape, r, counted)
        ELSE Unconsumed(counted)

RunPrefix ==
  LET prefix == Last(stack)
      r == Execute(program, Scenario, Decider("prefix", prefix, stream))
      counted == [result EXCEPT !.runs = @ + 1]
  IN /\ stage = "explore" /\ stack # <<>> /\ result.runs < bounds.runs
     /\ Len(prefix) < bounds.depth
     /\ CASE r.status = "open" -> Opened(prefix, r, counted)
          [] Finished(r.decider) -> Completed(prefix, prefix, r, counted)
          [] OTHER -> Unconsumed(counted)

\* The loop ends with the stack or with the run budget.
ExploreEnds ==
  /\ stage = "explore"
  /\ stack = <<>> \/ result.runs >= bounds.runs
  /\ stage' = "explored"
  /\ result' = [result EXCEPT !.truncated = stack # <<>>]
  /\ UNCHANGED <<stack, cache, first, outcomes>>
-----------------------------------------------------------------------------
(* The search without a cache: the completed executions below a prefix, in *)
(* the order of the search.                                                *)
RECURSIVE Uncached(_)
Uncached(prefix) ==
  IF Len(prefix) >= bounds.depth
  THEN LET r == Execute(program, Scenario, Decider("then", prefix, stream))
       IN <<execution(r.tape, OutcomeOf(r))>>
  ELSE LET r == Execute(program, Scenario, Decider("prefix", prefix, stream))
           c == candidates(r.choice)
           below[k \in 0..Len(c)] ==
             IF k = 0 THEN <<>> ELSE below[k - 1] \o Uncached(Append(prefix, newEntry(r.choice, c[k])))
       IN IF r.status = "open" THEN below[Len(c)] ELSE <<execution(prefix, OutcomeOf(r))>>

(* What was pruned, collided or not admitted changes nothing: the first    *)
(* counterexample is the first of the search without a cache, and a search *)
(* that was not truncated has met every outcome there is (dfs,             *)
(* stateCache.seen, cacheIdentity).                                        *)
CacheIsTransparent ==
  stage = "explored" =>
    LET all == Uncached(<<>>)
        violating == {k \in DOMAIN all : all[k].outcome.violations # <<>>}
        earliest == CHOOSE k \in violating : \A j \in violating : k <= j
    IN /\ first # <<>> => violating # {} /\ first[1] = all[earliest]
       /\ ~result.truncated /\ first = <<>> => violating = {}
       /\ ~result.truncated /\ ~bounds.stop => ToSet(outcomes) = {all[k].outcome : k \in DOMAIN all}
=============================================================================
