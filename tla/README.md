# A TLA+ verification of d-raft

d-raft is a deterministic simulator for the Raft consensus protocol: a
reference Raft node (`src/raft`), a cluster harness with crashes, partitions
and a persistence barrier (`src/raftsim`), the event loop and network they run
on (`src/*.go`), an online safety checker (`src/check`), tools that explore,
replay and minimise failing runs, and a command that projects a run onto
another Raft implementation and compares the two. This directory models the
protocol, the machine it runs on, and the tools whose verdicts a user relies
on. It checks small instances with TLC and proves facts about all instances of
the protocol with TLAPS.

## Contents

The Raft cluster:

| file | role |
| --- | --- |
| `RaftMembership.tla` | configurations, joint consensus, quorums (`raft/membership.go`) |
| `RaftNode.tla` | one node: every input of `Node.Step` as an operator (`raft/node.go`, `raft/types.go`) |
| `Raft.tla` | the cluster: nodes, disks, applications, timers, writes, network, crashes (`raftsim/cluster.go`) |
| `ReplicatedLog.tla` | the abstract specification: one growing order of commands |
| `RaftSafety.tla` | the properties of the cluster |
| `RaftInvariant.tla` | inductive strengthenings: bounds on logs and probes, where a vote may be, where the entries of a log come from, and why what is committed stays |
| `RaftElectionProofs.tla` | every handler keeps a node and its effects well formed; the type invariant and the log bounds of the whole specification; quorums intersect, votes are durable and final, and a term has one leader |
| `RaftLogProofs.tla` | what every handler does to the log; the cached configuration follows it; logs come from the histories of terms: election safety and log matching |
| `RaftCommitProofs.tla` | what every handler does to the commit index, to what the application is given and to a leader's view of its followers; an input that a running node executes preserves the commit invariant |
| `RaftDurabilityProofs.tla` | so do writes, crashes and restarts; leader completeness, durable commits, progress and restarts |
| `RaftApplicationProofs.tla` | applications and checkpoints execute what was chosen; they agree, and the cluster implements the replicated log |

The machine it runs on, and one process seen from close by:

| file | role |
| --- | --- |
| `EventHeap.tla`, `Simulator.tla` | the array heap and the event loop over it (`queue.go`, `simulator.go`) |
| `EventQueue.tla` | the abstract specification of the simulator: an ordered queue and a clock |
| `Network.tla` | the router (`network.go`) |
| `TraceLog.tla` | trace recorder and decoder (`trace.go`, `trace/decoder.go`) |
| `SimNet.tla` | simulator, router, random source and trace, driven together |
| `SimNetProofs.tla` | the heap keeps its order and knows its events, the simulator implements the queue, packets have one fate, traces are read as they were emitted |
| `Application.tla` | the key/value machine, its commitments and checkpoints (`apporacle/`) |
| `Process.tla` | one process of the harness: mailbox, timer generations, write tokens, incarnations, recovery (`raftsim/cluster.go`) |
| `ProcessProofs.tla` | the persistence barrier of a process, its failures and its queued timeouts; the application it recovers after a crash |

The tools:

| file | role |
| --- | --- |
| `Checker.tla` | the online checker (`check/check.go`) |
| `CheckedHistory.tla` | the checker under nodes that may do anything, beside everything that was ever observed |
| `CheckerProofs.tla` | what the checker keeps is enough: its alarms are exactly those everything observed calls for |
| `Decision.tla`, `Experiment.tla` | choices, tapes and deciders; one run of a scenario under a decider |
| `Explore.tla`, `Publish.tla`, `Minimize.tla` | the search, the publication of its result, its reduction |
| `Search.tla` | the three composed, as `draft explore` and `draft minimize` are used |
| `Projection.tla` | projecting the choices of a run onto another adapter, by occurrence and by operation |
| `SemanticPlan.tla` | preflight, execution evidence, normal forms and their comparison |
| `Bundle.tla` | publication, rollback and recovery of a result bundle |
| `Cross.tla` | `draft-cross`: derive, run, publish, verify, recover; the causal prototype |

`MCRaft`, `MCSimNet`, `MCProcess`, `MCSearch`, `MCChecker`, `MCCross` and the
`.cfg` files are the instances TLC checks. `PROJECT.json` lists components,
runs, the source map, mutants, findings, hazards and theorems.

## The system

### Components

| component | state | operations | interacts with |
| --- | --- | --- | --- |
| node (`raft/node.go`) | role, leader, hard state, log, snapshot, applied index, votes, per-follower progress, at most one pending write | `New`, `Start`, `Step` with ten kinds of input (two timeouts, proposal, snapshot, two membership inputs, a message of six types, write acknowledged) | returns an ordered list of effects to its host; never calls out |
| membership (`raft/membership.go`) | none (values) | build, validate, transition, quorum | used by the node |
| harness (`raftsim/cluster.go`) | per process: node, up, durable store, mailbox, timers with generations, application | inject inputs, complete and acknowledge writes, crash, restart, snapshot, membership | executes the node's effects, owns the store, drives the router and the simulator |
| router (`network.go`) | links, partitions, packets in flight | send, deliver, drop, partition, heal | calls back into the harness on delivery |
| simulator (`simulator.go`, `queue.go`) | virtual clock, heap of events | schedule, cancel, step, run | runs every timer, write and delivery |
| trace (`trace.go`, `trace/`) | sequence number, sticky error | record, decode | told of every event, draw and packet |
| checker (`check/`) | first witness of every leader, vote, committed, applied and compacted fact | observe | reads all nodes after every event |
| decisions (`decision/`) | tape, cursor | choose, record, replay | answers every random choice of a run |
| explorer, minimiser | stack of prefixes, cache of frontiers, counters; smallest run, guidance, granularity | run a prefix, expand, prune; remove, replay, shrink | run whole simulations from the start |
| application (`apporacle/`) | state, command identifiers, chain of commitments | apply, checkpoint, restore | called by the harness on apply and install effects |
| semantic plans (`semanticplan/`) | directives, used and met keys | derive, preflight, project, account, compare | answer the choices of a second adapter |
| cross command (`adapters/etcdraft/cmd/draft-cross`) | a directory of result files and a manifest | derive, run, verify, recover | shares the directory with other invocations |
| etcd adapter (`adapters/etcdraft/`) | the same harness around `go.etcd.io/raft` | ready loop, storage | the library is external |
| artifacts, experiments, evaluation, mutants, strict JSON | files and tables | encode, decode, tabulate | I/O |

### What is hard

* **The persistence barrier.** A step that changes durable state releases no
  effect before its write has completed *and* been acknowledged. A crash may
  fall before the completion (the step never happened) or between completion
  and acknowledgement (it happened and nobody was told).
* **Interleaving.** Messages are lost, delayed and reordered; timers fire in
  any order relative to them; a process has one outstanding write and everything
  that arrives meanwhile waits.
* **Derived state.** The voting configuration is a cache over the log and must
  follow truncation, compaction and snapshots. The application is rebuilt from
  pieces of the store that are written at different moments.
* **Boundaries.** `nextIndex` at the snapshot boundary, the first index, the
  largest term.
* **Liveness by timers.** Timers are armed by effects and cancelled by role
  changes: losing the last one stops the cluster.
* **Inputs out of their time.** What arrives during a write is accepted at once
  and executed after it, when the role, the timers or the whole incarnation of
  the process may have changed.
* **Tools that must not lie.** A search prunes, a checker keeps only first
  witnesses, a minimiser accepts a candidate on the evidence of one run, and a
  projection accounts for choices it refused. Each of these could be wrong
  without any test failing.
* **Files.** Results are published next to other invocations, on a machine
  that may stop between any two system calls.

`PROJECT.json` lists the hazards at their source lines, with the properties
that cover them.

## The model

### RaftNode: one transition, all its effects

A node is a record with the fields of the Go `Node`. A handler is an operator
from a node (and a message) to a *result*: the next node, the effects, whether
the transition is to be persisted (`dirty`), and whether it succeeded. The
code's early returns are the alternatives of the operator, and what the code
does at the end of a handler (`refreshMembership`, `advanceCommit`,
`applyCommitted`, `broadcastAppend`) happens inside it. The order of effects is
not kept because the harness gives it no meaning except install before apply,
which `applyEffects` respects. Slices that the code keeps sorted and
duplicate-free are sets. The log is a sequence after a snapshot boundary, as in
the code, and `termAt`, `entryAt`, `entriesFrom` use the same index arithmetic.

`MaxTerm` and `MaxIndex` stand for the largest `uint64`: at these values the
model fails the way the code does (`ErrTermExhausted`, `ErrIndexExhausted`),
so they are both a bound for TLC and the model of exhaustion.

### Raft: the harness

| variable | code |
| --- | --- |
| `node[s]` | `process.node`; while down, the node `New` will build |
| `up[s]` | `process.up` |
| `disk[s]` | `process.store.State` |
| `store[s]` | `AppliedIndex`, `Applied`, and the commands the application has executed |
| `pending[s]` | `Node.pending` and the progress of the write: none, writing, written |
| `timer[s]` | whether `electionEvent` and `heartbeatEvent` are scheduled |
| `net` | packets scheduled for delivery |
| `crashes` | history, for the bound `MaxCrashes` |

| action | code |
| --- | --- |
| `ElectionTimeout`, `HeartbeatTimeout` | the timer callbacks |
| `Receive`, `Drop` | `Router.deliver` into `Cluster.receive`, or the packet lost |
| `Propose`, `Snapshot`, `BeginMembershipChange`, `FinalizeMembershipChange` | the client calls of the same names |
| `CompleteWrite`, `AcknowledgeWrite` | the two callbacks of `processEffects` for a persist effect |
| `Crash`, `Restart` | `Cluster.Crash`; `Restart` with `recoverApplication`, `New`, `Start` |

Abstractions, all towards more behaviours unless noted:

* a packet may be dropped at any time, which covers link loss, partitions and
  a receiver that is down. The router never duplicates a packet
  (`network.go` 451-532), and `net` is a set of packets that differ at
  least in their content;
* virtual time is left out: any scheduled event may happen next;
* an input that arrives during a write waits where it is (in `net`, at the
  client, as an armed timer) instead of moving to the mailbox. `Process.tla`
  models the mailbox, timer generations and the fate of queued inputs;
* a client call that `Step` refuses changes nothing. An internal input that
  `Step` refuses makes the harness stop the run, so the model takes no step;
* `crashAfterPersist` is `CompleteWrite` followed by `Crash`;
* the application is the sequence of commands it executed, and a checkpoint is
  such a sequence. Corrupt or mismatching checkpoint bytes are left out;
* the `Members` list of snapshots from older versions, and the recorded
  `InstalledSnapshot` that nothing reads back, are left out.

### EventHeap, Simulator, Network, TraceLog, SimNet

The heap is the array of the code with the position each event believes it
has. `up` and `down` are given by the path of positions they swap along.
`SimNet` drives simulator, router, random draws and recorder from one thread:
the callers of the code are a driver with a budget of calls, in any order. A
call that returns an error and changes nothing is no step. `MaxTime`, `MaxID`,
`MaxPacket` and `MaxSequence` stand for the largest integers and are reached in
the run, so overflow and exhaustion are part of it. Payloads are left out. The
random source is a choice over what it may return, with its trace events. The
trace writer may fail or write a part of a line, and the decoder reads
concurrently.

`EventQueue` is what the simulator promises, and `SimulatorIsOrdered` states
that the simulator implements it: `INSTANCE EventQueue` with the set of the
heap's events for its pending set.

### Process and Application

`Process` is one process of the harness in the detail that `Raft` leaves out:
the mailbox, `draining`, the generation of each timer, the token and
incarnation of each write, and every callback that is still in the simulator,
cancelled ones gone and stale ones present. Its node is reduced to what the harness can
tell apart (role, snapshot, committed entries, the write it waits for); peers
are the messages they may send. `Application` is the whole machine of
`apporacle`: commands, the chain of commitments, checkpoints that verify
themselves. Digests are injective constructors, so equal digests are equal
inputs.

### Checker

The checker is a function from its history and an observation of all nodes to
its new history and the violations found, with one operator per check function
of the code. `CheckedHistory` gives it nodes that may do anything, rightly or
wrongly: truncate, vote twice, lower a commit index, forget an application,
compact to the wrong data, lead by any of several configurations, or show a
live term, vote or commit index that is not the durable one. A node's live log
and snapshot are taken to be the durable ones (`checkLeader` reads the live
ones, of nodes that do not await persistence). Evidence is what tells one
finding from another, and the nodes a finding names are kept with their
multiplicity. Beside it the set of everything ever observed is kept, and the
properties compare what the checker reports from its first witnesses with what
that whole set contradicts.

### Decision, Experiment, Explore, Publish, Minimize, Search

A run is deterministic given its decider, so it is a function of program,
scenario and decider. The cluster is abstracted to a *program*: a value that
each event moves and in which some values are violations. Two runs may reach
the same frontier by different choices, which is what the cache is about. The loop of
`dfs` is one action per iteration and each evaluation of the minimiser is one
action. The hash of a frontier has few values here, so buckets collide and
only the comparison of bytes prevents wrong pruning. Publishing (`Publish`) is
one action per system call, with a rival writer and a machine that may stop.

### Projection, SemanticPlan, Bundle, Cross

The reference adapter is deterministic: while it is given the selections of
the source run it presents the choices of the source run. The target is any
adapter: it may present any choice at any point and end in any way (whole, an
error, a budget, violations, different commitments). The one thing assumed of
it is that building its cluster fails only because the projector refused a
choice. What `draft-cross` does with such a target is modelled in full:
deriving the plan, preflight, both projectors, the evidence and its
validation, normal forms, the comparison with its axes, exit statuses.

`Bundle` maps a path to the publisher whose hard link it is, now and in what
the last directory sync made durable. Every link, removal and sync is one
action, any of them may fail, a process may be killed between any two and the
machine may stop, keeping for each path either state. `Recover` is an operator
who knows that the publisher is gone: the code does not check that.

### Faulty variants

Operators that are not part of a specification, such as
`voteGranted_VoteAgain` or `SyncDataLater`, are faulty variants of the
operator they are named after or follow. Each says what plausible slip it
stands for, and with the variant in place TLC finds the property that
`PROJECT.json` pairs it with violated, so each property can fail for a reason
that is in the code.

## Runs

| run | instance | properties | distinct states |
| --- | --- | --- | --- |
| `election` | 3 voters, 2 terms, 2 packets, 1 crash | `TypeOK`, `ElectionSafety`, `VotesAreDurable`, `DurableProgress` | 419,058 |
| `replication` | 3 voters, 3 terms, 3 indexes, 1 packet, 1 crash | `LogMatching`, `MatchIsDurable`, `CommitIsDurable`, `LeaderCompleteness` | 291,476 |
| `snapshot` | a voter and a learner, 2 terms, 2 commands, compaction, 2 packets, 1 crash | `LogsAreBounded`, `StateMachineSafety`, `ApplyOrder`, `DurableStateIsValid`, `RecoveryIsExact`, `ImplementsReplicatedLog` | 249,669 |
| `membership` | 3 voters demoted to 1 through joint consensus, 2 terms | `ElectionSafety`, `LeaderCompleteness`, `DurableStateIsValid`, `MembershipIsCurrent`, `OneChangeAtATime` | 940,030 |
| `substrate` | 2 nodes, times 0 to 2, 7 event and 2 packet identifiers, 6 trace records, 7 kinds of driver | `TypeOK`, `PositionsAreOwn`, `SimulatorIsOrdered`, `PacketsAreAccounted`, `PartitionCutsPackets`, `TraceIsFaithful`, `PacketsResolve` | 233,276 |
| `process` | 1 process, 3 inputs, 2 faults, 1 timeout, a put and a delete | `OnlyRequestsFail`, `ApplicationIsRecoverable`, `NoStaleTimeout`, `MailboxDrains` | 586,065 |
| `checker` | 2 nodes, 4 events of any kind, 2 terms, 2 entries, 2 electing configurations | `AlarmsAreExact`, `LeaderAlarmsAreJust`, `ReportedOnce` | 830,227 |
| `search` | 512 programs of 4 values and 4 actions, 2 random streams, 3 sets of budgets, 2 stops of the machine | `CacheIsTransparent`, `CandidatesReplay`, `PublishedIsWhole`, `StagesEndOneMinimal` | 235,578 |
| `cross` | five families of source runs, 2 publishers, 3 data files, up to 3 faults | `CommittedVerifies`, `EvidenceIsFaithful`, `CausalDispositions` | 1,246,254 |
| `stall`, `compacted_follower`, `recovery` | see Findings | one each, violated | |

What the runs of the harness and the tools show:

* `substrate`: the heap, stored positions, cancellation and overflow checks
  amount to an ordered queue, in which every event knows its own position, so
  that a cancellation removes the event it was asked for; every packet has exactly one fate; a partition
  cuts what is already in flight; what the decoder returns is what was emitted,
  in order, whatever the writer did; and no packet stays in flight for good.
* `process`: a timeout that waited in the mailbox while its timer was armed
  again, or armed and cancelled, has no effect at all; the run never fails by overlapping writes, wrong tokens or
  an input during a write; a crash at any moment leaves a store that rebuilds
  the live application (but for finding 3); and the mailbox drains.
* `checker`: keeping first witnesses loses nothing. Each history invariant is
  reported exactly when two observations at any distance contradict it. A
  leader is blamed only for what it lacked, and no evidence is reported twice.
* `search`: pruning changes neither the set of outcomes nor the first
  violation; a published run is whole; every accepted candidate replays to the
  same failure; each stage of minimisation ends one-minimal unless its budget
  is spent.
* `cross`: a manifest that can be seen and was not withdrawn (see the
  observations under Findings) has its data and verifies, a report
  follows from the plan and the tape even when the projection failed, agreement
  is reported only of runs that agree, and operations keep the source's
  dispositions.

### Fairness

Two runs check liveness, each under weak fairness of a loop that the code runs
unconditionally:

* `substrate`: as long as an event is due the loop steps, and `RunUntil`
  returns. This is the `for` loop of `Run` and `RunUntil`. The driver, sends,
  topology and decoder have no fairness. `PacketsResolve` needs
  nothing else.
* `process`: a storage callback that is scheduled runs, and a drain that was
  begun continues (`drain` is a loop within one callback). Timers, peers,
  clients and restarts have no fairness. `MailboxDrains` allows the run to fail
  instead, because a refused queued request stops it.

Where weak fairness is written with its enabling condition (`[]<>~Ready \/
[]<><<A>>_vars`), that condition equals the enabledness of the action, and TLC
evaluates it more cheaply than `ENABLED`. The Raft runs check safety only: the two stalls below
are stated as states without any enabled progress, which needs no fairness, and
they are the reason why no general liveness property of the cluster holds.

### Bounds

Why the bounds are enough for their question:

* *election*: two packets in flight let the requests of two rival candidates,
  or a request and an answer, overtake each other, and two terms are what a
  stale vote needs. One crash at each phase of a write is enough to lose or
  keep a vote. Every election appends the leader's no-op, so `MaxIndex = 2`
  leaves room for one per term.
* *replication*: three terms and three indexes are what the classic
  counterexample to counting replicas of old terms takes. One packet at a time
  still reorders, because any number may be lost and each leader may repeat.
  `MaxSequence = 1` allows one append attempt per follower and leadership.
* *snapshot*: one voter makes elections immediate, so the budget goes to
  compaction, a follower that lags behind it, installation, and a crash of
  either process between any two steps. Two commands make orders
  distinguishable. The second term makes the restarted voter lead again.
* *membership*: the demotion of two of three voters makes the old and new
  majorities differ the most; two terms let a leader of either configuration
  take over in the middle. No crash: loss of volatile state is covered above
  and would make this instance too large.
* *substrate*: seven timers make a heap of three levels, so removal from the
  middle moves an event up as well as down. Two packets can overtake each
  other. The other drivers meet topology changes with packets in flight
  and use up each identifier. One driver for all would multiply these without adding a case.
* *process*: three inputs are a write, something that waits behind it, and
  something that changes what it meant. Two crashes hit two incarnations.
* *checker*: four events are enough for a fact, its compaction or loss, a
  restart, and its contradiction (the nodes start with one committed entry); two nodes make old and new quorums of the one
  configuration change (from both voters to one) differ.
* *search*: four values and at most five events make different
  prefixes meet in one frontier; the narrow budgets exhaust runs, depth, cache
  and minimisation in the middle.
* *cross*: each family is rich in one thing: source tapes of two entries
  against target runs of three choices; every pair of endings; workloads of up
  to three actions; publications with a rival and three failures; causal
  batches of up to three operations. Three data files stand for the seven, so
  that there is a first, a middle and a last one. The product of the families would only
  combine independent parts.

Deadlock is checked in `search` and `cross`, where `Ended` is the only way to
stop. Elsewhere it is not, because the bounds themselves end every
behaviour (no term, index, input or event left). Whether the *cluster* can stop
is the question of `stall`.

Symmetry: processes are interchangeable where no constant names one, commands
always. The other runs use no
symmetry.

## Findings

1. **A connected majority can stop for good** (`stall`, `MajorityNeverStalls`,
   `raftsim/cluster.go:1147`). Winning an election cancels the election timer,
   and `becomeFollower` emits no effect to arm it again. A leader that
   learns of a higher term from a request it refuses, or from a response, is a
   follower without an election timer. After two such step-downs, or one and
   a crash of the only process with a timer, no event is left.
   `cluster_test.go:493` expects a healed cluster to elect a leader.
2. **A rejection from a compacted follower is ignored forever**
   (`compacted_follower`, `RejectionsMakeProgress`, `raft/node.go:623`). The
   follower answers a probe below its boundary with a *higher* hint, as
   `node_test.go:277` requires, but the leader only ever lowers `nextIndex`
   and resends the same append.
3. **Some crashes during a second installation cannot be recovered**
   (`recovery`, `RecoverySucceeds`, `raftsim/cluster.go:1001`). Recovery uses
   the snapshot only if it is at or below the applied index, and otherwise
   replays the applied entries from index 1. After an earlier installation these no longer
   start at 1, and `Restart` fails. `SNAPSHOTS.md:23` promises that a crash
   between completion and acknowledgement is recovered. `Restart` in the model
   is guarded by `recoverable`, as in the code of a cluster with an application
   (cluster.go:782; without one there is nothing to recover), so the other
   properties hold of what remains.

Observations that are not violations of anything the repository states:

* `appendFor` always sends the whole suffix of the log, so committing an
  earlier term's entry by counting cannot come up before an entry of the
  current term is there too.
* A joint change that promotes an unreachable learner blocks until it is
  reachable, as `MEMBERSHIP.md` says.
* A proposal or snapshot that was accepted during a write and is refused when
  it is drained (the leader was deposed, the log was compacted meanwhile)
  stops the whole run instead of reaching its caller (`cluster.go` 1133).
  `OnlyRequestsFail` says that nothing else does, apart from a command
  identifier used twice.
* When the last directory sync of a bundle fails, the rollback removes the
  data files first and the manifest last (`draft-cross/main.go` 605). A crash
  in between leaves a manifest without data, which `verify` rejects and
  `recover` refuses to touch. `CommittedVerifies` leaves such publications out
  (`withdrawn`).
* `recover` looks for the manifest once and then removes files. A publisher
  that is still alive may link its manifest in between.
* A projection that fails after a violation was recorded has status
  *violation*, which the validation of the execution refuses
  (`execution.go` 112): the command exits with 2 and the evidence is not
  published.
* A violation can name a node twice: `durable-double-vote` of a node that voted
  for itself and then for another (`check/check.go` 417), or a conflict of a node
  with its own earlier entry (443, 473, 541). `ValidateViolation` (104) refuses
  duplicates, and with it the validation of a run artifact
  (`artifact/artifact.go` 329) and the normalization of an execution
  (`semanticplan/execution.go` 427), so such a violation is reported but
  cannot be stored. `names` in `Checker` keeps the duplicate.
* A run with a violation that is cut short by an error or a budget exactly at
  the boundary instant counts as completed (`classifyCompletion`).

## Proofs

Proved for every set of servers and commands, every initial configuration and
every bound, from the named assumptions of the modules only (`Server` finite
for the quorum facts, a valid initial configuration, natural bounds):

* `QuorumsIntersect`, `JointQuorumsIntersect`, `FinalQuorumsIntersect`
  (`RaftElectionProofs`): two quorums of one configuration share a server,
  and so do a quorum of a configuration and one of the next, into and out of
  joint consensus. This is the set-theoretic core of the safety argument, and
  rests on one counting lemma, `MajoritiesIntersect`.
* `TypesAreKept`: `Spec => []TypeOK`.
* `LogsStayBounded`: `Spec => []LogsAreBounded`.
* `CountedVotesAreDurable`: `Spec => []VotesAreDurable`.
* `OneLeaderPerTerm`: `Spec => []OneLeaderAcrossChange`, one leader per term
  among elections decided by one configuration or by two adjacent ones. No run
  checks it, since `ElectionSafety`, which run `membership` checks, implies it;
  it is what can be proved of `ElectionSafety` while the configuration changes.
* `ConfigurationIsCurrent`: `Spec => []MembershipIsCurrent`, through
  truncation, compaction, installed snapshots, crashes and every change of
  configuration.
* `BarrierHolds`, `OwnBookkeepingNeverFails` and `QueuedTimeoutsAreCurrent`
  (`ProcessProofs`): the invariant of the persistence barrier,
  `Spec => []OnlyRequestsFail` and the action property `NoStaleTimeout`, which
  is about election and heartbeat timeouts of any role. A timer that was only
  cancelled keeps its generation (`queuedInputIsCurrent` compares no more), and
  the property does not speak of its timeout.
* `CrashesLoseNothing` (`ProcessProofs`): `Spec => []ApplicationIsRecoverable`,
  for every set of commands and keys and every limit on the commands of a
  checkpoint. The property excepts the situation of the finding of run
  `recovery`, in which the code's recovery fails.
* `SubstrateIsTyped`, `PositionsAreKept`, `TracesAreFaithful`, `PacketsKeepTheirFate`, `CutsHold` and
  `SimulatorImplementsQueue` (`SimNetProofs`): `Spec => []TypeOK`
  (of stored positions only that they lie in the heap), `Spec => []PositionsAreOwn`
  (each is the position of its event), `Spec => []TraceIsFaithful`, `Spec => []PacketsAreAccounted`, the action
  property `PartitionCutsPackets`, and the refinement
  `Spec => SimulatorIsOrdered` of `EventQueue`, for any number of nodes, links,
  events, packets and trace records. What they assume of the constants is that
  the largest identifiers are positive, that times are naturals, that the mark
  for no time is none, and that the delays callers ask for are integers.
* `AlarmsExact`, `LeaderAlarmsJust` and `EvidenceReportedOnce`
  (`CheckerProofs`): `Spec => []AlarmsAreExact`, `Spec => []LeaderAlarmsAreJust`
  and `Spec => []ReportedOnce` of `CheckedHistory`, for any number of nodes,
  entries and observations. They assume that the nodes are numbered from 1 (the
  code sorts them), that the initial membership is valid (`NewWithMembership`
  refuses others), that the configurations that may elect a leader are made of
  nodes (valid or not), and that the nodes start as something that can be observed.

Proved under the hypothesis `Target = {}`, that is, for every cluster, every
initial configuration with any voters and learners, and every bound, as long as
no membership change is asked for:

* `OneLeaderOfATerm`: `Spec => []ElectionSafety`.
* `LogsMatch`: `Spec => []LogMatching`.
* `LeadersAreComplete`: `Spec => []LeaderCompleteness`.
* `CommitsAreDurable`: `Spec => []CommitIsDurable`.
* `MatchesAreDurable`: `Spec => []MatchIsDurable`.
* `AppliedInOrder`: `Spec => []ApplyOrder`.
* `ProgressIsDurable`: `Spec => DurableProgress`, an action property.
* `DurableStatesAreValid`: `Spec => []DurableStateIsValid`: what a crash leaves
  passes `Config.validate`, of the node only.
* `RecoveriesAreExact`: `Spec => []RecoveryIsExact`: where `recoverApplication`
  takes what a crash leaves, it rebuilds the application as it was. Where it
  does not is finding 3.
* `ApplicationsAgree`: `Spec => []StateMachineSafety`.
* `ClusterIsReplicatedLog`: `Spec => ImplementsReplicatedLog`, the refinement of
  `ReplicatedLog`: the initial state maps to its initial state and every step to
  a stutter, a `Choose` or one `Deliver`.

The hypothesis is a constant, not a weaker property: `Target` is what the
harness offers to `BeginMembership`, and most users of the cluster never call
it. With changes of configuration, that no term sees elections of two
configurations further apart than one step follows only from what is committed,
and what is committed then depends on the configuration at every index, so
these properties are only model-checked there (run `membership`).

`TypeOK` is not inductive. Nothing in it prevents a log longer than
`MaxIndex`, a leader from probing beyond its log, or an append with previous
term 0 and a positive previous index, which a follower shorter than that would
accept and so leave a gap. The inductive invariant is `TypeInv`, the
conjunction of `TypeOK`, `LogsAreBounded` (these three bounds, in memory, on
disk and in every message) and `PendingOK` (the effects waiting for a write are
as well formed as the messages in flight).
`RaftElectionProofs` has one lemma per handler: a well-formed node and message give
a well-formed node and well-formed effects. It then lifts them over the
harness, one lemma per group of actions.

`VotesAreDurable` is not inductive either: a vote it speaks of was a packet
before, an effect waiting for a write before that, and a write in progress
before that. `VoteInv` follows the vote through these places. A write in progress never
changes a term's vote (`WriteOK`), a grant that waits is the one being written
(`PendingGrants`), and any vote another process may have seen, in a packet or
counted by a candidate, is on the voter's disk or superseded by a later term
there, and is the only one of its term (`VotesAreFinal`). That a voter's disk
may have moved on is why uniqueness is part of the invariant and cannot be read
off the disk afterwards. It is inductive relative to `TypeInv`. Of the
handlers only three take part in elections; for all others one family of
lemmas (`Keeps...`) says that they leave the vote alone. `OneLeaderPerTerm`
then needs the intersection of quorums and `VoteOK`: a leader still holds the
quorum of votes that elected it, and a candidate's own vote is its only one.

`MembershipIsCurrent` is inductive once the type invariant is known, but its
proof needs to know for each handler what it does to the log.
`RaftLogProofs` describes every handler by one of four relations between the
node before and after: the log is the same, one entry was appended, a message
was spliced in, or a snapshot replaced a prefix. In each the configuration is
recomputed or provably did not change (`AppendKeepsConfiguration`: an entry
that is no configuration entry leaves the configuration alone). The same lemmas
say which section of its log a handler sends (`Part`), which is what the next
proof starts from.

`LogMatching` and `ElectionSafety` cannot be inductive over the logs alone,
because no process keeps its log from the first entry: two compacted logs may
overlap in nothing, and still a later append would reveal a disagreement
between what they dropped. The invariant `LogInv(h)` therefore compares every
log with *histories* h: for each term the whole sequence of entries its leader
ever had, the leader, and the quorum that elected it. `LogHistory` says that
such an h exists. Its parts are that histories agree (an entry of term u occurs
anywhere only together with everything the history of u has before it), that
disks, nodes and messages hold sections of histories, that a leader holds all
of its own, that whoever elected the leader of a history voted for no one else
in that term, and that no configuration but the initial one occurs. A history
begins when the write that records the election completes and not earlier: a
crash before it undoes the election, and in a cluster with a single voter the
entry of such a leader was never seen by anyone (`Unborn`). The h of a state is
never computed by the model. Each step lemma gives the histories after the step
from those before it: the same ones (`NodeStep`, `AcknowledgeLogs`,
`CrashLogs`), one that grew by the leader's new entry (`HistoryGrows`), or one
that begins (`HistoryCanBegin`, `WriteLogs`). That a term cannot begin twice is
`TermIsFree`, from the votes and the intersection of quorums.

Commitment needs one more thing that no state of the code holds: what each
process has *ever* had on its disk. `CommitInv(h, a)` is over the histories h
and the acknowledgements a: `a[t][x]` is the length of the history of term t
that process x has had on disk while its durable term was t. It grows when a
write completes and never shrinks. An entry that its leader made (`Own`) is
`Chosen` when a quorum has acknowledged it in its term, and `Choosable` as long
as the members of some quorum that have not are in no later term. The parts:

* `AcksHeld`: a process keeps, in memory and on disk, what it acknowledged, in
  the term of the acknowledgement always and later as long as it is choosable;
* `LaterHolds`: what is choosable in a term is part of every later history, and
  of the log of a leader whose election is still being written;
* `VotesCovered`: the log of a candidate is as far as everything choosable that
  any of its voters acknowledged, also while the vote is in flight, which is
  why a vote for an outdated candidate cannot be given;
* `MatchesAcked`: a `matchIndex`, or an answer that will raise it, is backed by
  acknowledgements in that term;
* `CommitsChosen`: every commit index and every snapshot boundary, in memory, on
  disk and in messages, is at or below a chosen entry and inside the log. The one
  exception is a leader whose own write is the last acknowledgement that a
  commit needs (`CommitsOwn`): `advanceCommit` counts the leader's log before
  it is on disk, and only the persistence barrier makes this sound;
* `DeliveryOK`: what the application was given, and what waits to be given,
  adds up to the commit index.

As before, h and a are not computed by the model: `CommitHistory` says that
some exist, and each step lemma gives those after the step. TLC cannot
enumerate them, so it has checked their consequences, which are the properties
themselves. `RaftCommitProofs` states the cause of each change of a commit
index (`CommitStep`), one lemma per handler. It then takes the parts
one by one through an executed input (`SubmitCommits`), `RaftDurabilityProofs`
through a completed write (`WriteCommits`, where acknowledgements are made and
histories begin), through steps after which a process is in its durable state
(`SettledCommits`: acknowledgement, crash, restart) and through the network.
The step that carries the weight is `TakesWins`: a candidate that wins has in
its log whatever is choosable in any earlier term, because its voters and a
quorum that can still choose share a voter.

`DurableProgress` and `DurableStateIsValid` are consequences of this and not local
facts: that a conflicting append never cuts a log below its commit index, or
an installed snapshot never lowers it, is true only because the leader that
sends it is complete.

Applications add a third layer. `historyOf(h, t, i)` are the commands of the
first i entries of the history of t, and a state is `Reached` at i when it is the
`historyOf` some chosen entry at or above i. `ApplicationInv(h, a)` says so of
every application, every checkpoint in memory and on disk, and every snapshot in
flight. It is inductive together with `CommitInv`: a step that hands over the
entries from the applied index to the commit index appends their commands to
what was reached (`HistoryExtends`), a recovering process replays its disk from
the last checkpoint or continues from the application it has (`RecoveryReached`),
an installed snapshot replaces the application by something reached, and what
was reached stays so as h and a grow (`ReachedGrows`). Chosen histories agree up
to the lower of two indexes (`SettledAgree`), so states do, which is
`StateMachineSafety`. The refinement mapping takes the log with the highest
commit index on disk as what is chosen. That it only grows is the same argument
across a step (`DisksChoose`), that a step moves one application at most is read
off the actions (`StepParts`), and that applications never go back is
`ProgressIsDurable`.

This needs facts about `commandsOf`, a recursive function. The prover has no
induction with a predicate as a parameter, but a set has a least element
(`LeastElement`). `Collects(f, s, P)` is the equation a function satisfies that
collects the elements of s at the positions P. That it has a solution
(`CollectsExists`), that the solution is a sequence (`CollectsType`) and that
collecting a section continues where the collection before it ended
(`CollectsSection`) are each proved by contradiction at the least index where
they would fail.

`OnlyRequestsFail` follows from the barrier invariant `Inv` of
`ProcessProofs`: a process that waits has exactly one write, in the current
incarnation and with the current token, and nothing else is being drained; so
no callback can meet a wrong token or an input during a write. `NoStaleTimeout`
follows from the part of `Inv` that orders the generations of queued timeouts:
a queued timeout never has a later generation than its timer, and the same one
only if the timer has no event pending.

`ApplicationIsRecoverable` speaks of the durable snapshot and the applied
entries at one moment. Its invariant, `Recoverable`, says that there is one
machine m such that (`Retained`) all applied entries rebuild m if none was cut
off, the durable snapshot and the entries above it rebuild m if the applied
index has reached it, and so do the snapshot of the node, which may still be on its
way to disk, and every snapshot a client put in the mailbox that the node could
still accept. While the process is up m is its application; while it is down,
m is what the next start must find, and `Restart` is shown to find it. A write
makes the node's snapshot the durable one, so a crash on either side of it
changes nothing (`WrittenSound`); only a release moves m on, together with the
store (`ReleaseSound`). Three facts about replaying carry this:

* `ReplayJoins`: replaying a sequence is replaying its parts in turn, so the
  entries above a snapshot may be replayed onto the snapshot;
* `ReplayStops`: a replay that is refused half way leaves what replaying the
  entries it reports as done leaves, so a partial release is sound too;
* `RestoreGenuine`: a checkpoint restores the machine it was taken of. This
  holds of machines that the replay of their own history gives (`Genuine`), which
  every machine of a process is, also one that a leader's snapshot brought.

`Chained` orders the numbers: applied index, disk and node. It shows that a
snapshot from a leader lies above every applied index, so it promises nothing
until it is installed. The replay and the entries above an index are recursive
functions, and facts about them are proved by the least counterexample, as above.

The substrate has three invariants. `TraceInv` says that the file continues
where the decoder stands: its lines are numbered without a gap from
`decoded + 1`, each is what was emitted at that place, only the last may be
torn, and then the recorder has failed and writes nothing more. It needs to know that
every event of `SimNet` carries the fields its kind requires, since a
recorder that wrote a line the decoder refuses would break `TraceIsFaithful`
just as well. `SimOK` says that every event knows its own position (`Stored`)
and that no event comes before its parent (`Ordered`), that no pending event lies in
the past, and that identifiers in the heap were issued. `NetOK` says that a
packet is in flight exactly while the last thing observed of it is that it was
scheduled, as exactly one event, at the time that was announced, and that an
identifier not yet allocated occurs nowhere.

The heap is the part with an argument of its own. `up` and `down` move along a
path, given by a recursive function. `PathsExist` and `PathsAreChains` show by a least
counterexample that such a function exists wherever each step lowers a rank,
and that its value is a chain of single steps (`Chain`). `ShiftMoves` says what
moving events along any chain does: the events at its positions move by one,
the first goes to its end, nothing else moves, and every event still knows its place.
`UpOrders` and `DownOrders` then restore the order from a heap that is wrong at one position
only, and `RemoveStores` combines the two: after a removal from the middle the
event put in the gap has to rise or to sink, and `remove` tries to sink it and,
where it did not move, to rise. `RootIsLeast` takes a least counterexample once
more. With these the refinement is short: scheduling adds one event,
cancelling removes the one asked for, a step removes the least, and
`RunUntil` moves the clock only over nothing (`PendingIsAhead`).

The checker's invariant, `CheckerInv`, relates its history to the facts that
`CheckedHistory` keeps. `Agrees(c, f)` says that each ledger of the history c
holds, for every key of the facts f, one value that was seen of it (`First`),
or the highest (`Highest`), and that the alarms so far are those f calls for.
This is inductive because of two facts about first witnesses: two of the values
seen of a key differ exactly when one of them differs from the first
(`FirstKept`), and a value is below one seen before exactly when it is below
the highest (`HighestValue`). For a leader that lacks an entry the first
witness is not enough to know when the entry was committed, so its part is
weaker in one direction, as the property says.
The difficulty is that `Observe` takes the nodes one after the other while the
facts take all of them at once: a node must not be compared with what another node
of the same observation added. `TakenUpTo` and `LedUpTo` are the facts after k
nodes and after k leaders, and `SeenIsGathered` shows that after the last they
are the facts of the whole observation. The configurations of a log are scanned
by a recursion that stops at the first bad one; `BrokenSomewhere` and
`MembershipChecked` show that it finds one exactly when some entry does not follow
the configuration before it, and `PairChecked` that the single pass of
`checkLogs` finds exactly the logs that violate log matching as it is stated.
`ReportedOnce` needs the second half of the invariant, `Still`: every node of
the last observation is `Settled`, that is, each key it would add is there and
each finding it would make is known, and this survives the nodes and leaders that are taken up
after it (`SettledStays`, `LeaderStays`). Observing the same again then adds
nothing (`StillStays`).

Only model-checked:

* with configuration changes: all properties proved under `Target = {}`, and
  `OneChangeAtATime`, which is empty without them;
* of the process, `MailboxDrains`, which is liveness;
* of the substrate, `PacketsResolve`, which is liveness;
* of the tools, everything but the checker. Several of these depend on data:
  what a run of a tape computes (`CandidatesReplay`, `EvidenceIsFaithful`);
* liveness under fairness and everything with `ENABLED`, which the prover does
  not handle.

## Not modelled

* The cluster of the etcd adapter (`adapters/etcdraft/cluster.go`, `adapter.go`)
  hosts `go.etcd.io/raft`, whose source is not in the repository. A model of
  the host without the library would be an environment, and that is what
  `Cross` uses: a target that presents any choices and ends in any way.
* `mutant` and `defect` are named faulty variants with their tables, and
  `evaluation` tabulates statistics over finished runs. They keep no state of
  their own.
* `artifact`, `strictjson` and the schemas of stored documents are parsing and
  validation of bytes. Their digests are injective in the models.
  The canonical exports (`CanonicalState` of the simulator and the cluster,
  `Checker.State`) sort what the models keep and change nothing.
* Of the commands, flag handling and reports. The SplitMix64 stream: its values are nondeterministic here.

## Plan

For the proofs, in this order:

1. `Bundle`: `CommittedVerifies` restricted to the directory (a visible
   manifest has every data file), whose inductive invariant relates the
   progress of each publisher to what is visible and what is durable.
   `Publish`: `PublishedIsWhole`.
2. `LogInv` with changes of configuration: `ConfigurationIsFixed` is replaced by
   a chain of committed configurations, each adjacent to the next, and the quorums of
   `Chosen` by those of the configuration at the entry. `OneLeaderAcrossChange`
   is proved without the hypothesis and is the base of it.

`Explore` uses a recursive reference definition and is only checked. Liveness of
`Raft` under fair timers, writes and deliveries would need instances in which
findings 1 and 2 cannot occur, which leaves too little of the system.
