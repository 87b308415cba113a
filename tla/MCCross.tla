------------------------------ MODULE MCCross -------------------------------
(***************************************************************************)
(* Source runs in families, each rich in one thing: projections, outcomes, *)
(* workloads, publication faults, causal batches.                          *)
(***************************************************************************)
EXTENDS Cross

MCMembers == {1, 2}
MCDataFiles == <<"capabilities", "execution", "comparison">>
MCStream == <<1, 0, 1, 1>>

Loss(adapter, key, options) ==
  Choice(<<adapter, LossKind, key>>, options, 0, 0, Context(LossKind, key, FALSE, {}))
Latency(adapter, key, min, max) ==
  Choice(<<adapter, LatencyKind, key>>, <<>>, min, max, Context(LatencyKind, key, FALSE, {}))
Carrier(adapter, key, options, operations) ==
  Choice(<<adapter, LossKind, key>>, options, 0, 0, Context(LossKind, key, TRUE, operations))
Unportable(adapter) == Choice(<<adapter, "workload", 1>>, <<0, 1>>, 0, 0, Context("workload", 1, FALSE, {}))

Committed(chain, state) == [chain |-> chain, state |-> state]
Same == <<Committed(1, 1), Committed(1, 1)>>
Commitments == {Same, <<Committed(2, 1), Committed(2, 1)>>, <<Committed(1, 2), Committed(1, 2)>>, <<Committed(1, 1), Committed(2, 1)>>}

Run(violations, error, exhausted, at, commitments, built) ==
  [violations |-> violations, error |-> error, exhausted |-> exhausted, at |-> at, commitments |-> commitments, built |-> built]
Whole == Run({}, FALSE, FALSE, Boundary, Same, TRUE)
Refused == {Run({}, TRUE, FALSE, 0, Same, FALSE), Run({}, TRUE, FALSE, 1, Same, TRUE), Run({"log"}, TRUE, FALSE, 1, Same, TRUE)}

Source(mode, recorded, actions, run, rival, budget, choices, runs, depth) ==
  [mode |-> mode, adapter |-> "reference", stream |-> MCStream, tape |-> recorded, actions |-> actions, run |-> run,
   rival |-> rival, faults |-> budget, choices |-> choices, runs |-> runs, depth |-> depth]

\* Projections: one portable occurrence of each kind, one the source lacks.
SourceLoss == {newEntry(Loss("reference", 1, <<0, 1>>), 0), newEntry(Loss("reference", 1, <<0, 1>>), 1), newEntry(Loss("reference", 1, <<1>>), 1)}
SourceLatency == {newEntry(Latency("reference", 2, 1, 2), 1), newEntry(Latency("reference", 2, 1, 2), 2), newEntry(Latency("reference", 2, 1, 1), 1)}
SourceTapes ==
  {<<>>} \cup {<<e>> : e \in SourceLoss \cup SourceLatency} \cup (SourceLoss \X SourceLatency) \cup (SourceLoss \X SourceLoss)
  \cup {<<newEntry(Unportable("reference"), 1)>>}
TargetChoices ==
  {Loss("etcdraft", 1, <<0, 1>>), Loss("etcdraft", 1, <<1>>), Loss("etcdraft", 3, <<1, 0>>), Latency("etcdraft", 2, 2, 3),
   Latency("etcdraft", 2, 1, 2), Latency("etcdraft", 2, 2, 2), Unportable("etcdraft")}
Projections == {Source("occurrence", t, <<>>, Whole, FALSE, 0, TargetChoices, Refused \cup {Whole}, 3) : t \in SourceTapes}

\* Outcomes: every way two runs can end and differ.
Cuts == {<<FALSE, FALSE, Boundary>>, <<TRUE, FALSE, 1>>, <<TRUE, FALSE, Boundary>>, <<FALSE, TRUE, 1>>, <<FALSE, TRUE, Boundary>>}
RunsWith(ids) == {Run(v, c[1], c[2], c[3], d, TRUE) : v \in SUBSET ids, c \in Cuts, d \in Commitments}
Outcomes == {Source("occurrence", <<>>, <<>>, r, FALSE, 0, {}, RunsWith({"log", "leader"}), 0) : r \in RunsWith({"log", "leader"})}

\* Workloads: what preflight accepts.
Steps ==
  {Action("crash", 0, 1, 0), Action("restart", 1, 1, 0), Action("restart", Boundary, 1, 0), Action("crash", 0, 2, 0),
   Action("partition", 0, 0, 0), Action("heal", 1, 0, 0), Action("propose", 1, 0, 1), Action("propose", 1, 0, 2),
   Action("propose", 1, 0, Malformed), Action("snapshot", 1, 1, 0)}
Workloads == {Source("occurrence", <<>>, w, Whole, FALSE, 0, {}, {Whole}, 0) : w \in UNION {[1..n -> Steps] : n \in 1..3}}

\* Publication: two publishers and failures.
Publications == {Source("occurrence", <<newEntry(Loss("reference", 1, <<0, 1>>), 0)>>, <<>>, Whole, TRUE, n, {Loss("etcdraft", 1, <<0, 1>>)}, {Whole}, 1) : n \in {0, 3}}

\* Causal batches: the source sends operations 1 and 2, the target 1 to 3.
CausalEntries ==
  {newEntry(Carrier("reference", k, <<0, 1>>, b), s) : k \in 1..2, b \in SUBSET {1, 2}, s \in {Dropped, Delivered}}
  \cup {newEntry(Loss("reference", 1, <<0, 1>>), 0), newEntry(Latency("reference", 2, 1, 2), 2)}
CausalTapes == UNION {[1..n -> CausalEntries] : n \in 1..2}
CausalChoices ==
  {Carrier("etcdraft", 1, options, b) : options \in {<<0, 1>>, <<0>>, <<1>>}, b \in SUBSET {1, 2, 3}}
  \cup {Loss("etcdraft", 1, <<0, 1>>), Latency("etcdraft", 2, 1, 2)}
Causal == {Source("causal", t, <<>>, Whole, FALSE, 0, CausalChoices, {}, 2) : t \in CausalTapes}

MCSources == Projections \cup Outcomes \cup Workloads \cup Publications \cup Causal
=============================================================================
