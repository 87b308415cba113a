----------------------------- MODULE RaftSafety -----------------------------
(***************************************************************************)
(* What the cluster of module Raft guarantees.                             *)
(***************************************************************************)
EXTENDS Raft, SequencesExt

leaders == {s \in Server : up[s] /\ node[s].role = Leader}

\* d holds an entry of this term at index i, in its log or below its snapshot
\* boundary, where only committed entries lie.
holds(d, i, term) == i <= lastIndex(d) /\ (i < d.snap.index \/ termAt(d, i) = term)

SnapshotOK(p) ==
    p.index \in 0..MaxIndex /\ p.term \in 0..MaxTerm /\ p.membership \in Membership

HardStateOK(d) ==
    /\ d.term \in 0..MaxTerm
    /\ d.votedFor \in Server \cup {Nil}
    /\ d.commit \in 0..MaxIndex
    /\ SnapshotOK(d.snap)
    /\ d.log \in Seq(Entry)

NodeFields ==
    {"id", "role", "leader", "term", "votedFor", "commit", "snap", "log", "applied",
     "membership", "votes", "electionVotes", "electionMembership",
     "nextIndex", "matchIndex", "appendSequence"}

NodeOK(n) ==
    /\ n = [f \in NodeFields |-> n[f]]
    /\ HardStateOK(n)
    /\ n.id \in Server
    /\ n.role \in {Follower, Candidate, Leader}
    /\ n.leader \in Server \cup {Nil}
    /\ n.applied \in Nat
    /\ n.membership \in Membership /\ n.electionMembership \in Membership
    /\ n.votes \subseteq Server /\ n.electionVotes \subseteq Server
    /\ n.nextIndex \in [Server -> 0..MaxIndex]
    /\ n.matchIndex \in [Server -> 0..MaxIndex]
    /\ n.appendSequence \in [Server -> Nat]

MessageTypes ==
    {"RequestVote", "RequestVoteResponse", "AppendEntries", "AppendEntriesResponse",
     "InstallSnapshot", "InstallSnapshotResponse"}

MessageOK(m) ==
    /\ m.type \in MessageTypes
    /\ m.from \in Server /\ m.to \in Server \ {m.from} /\ m.term \in 1..MaxTerm
    /\ m.type = "RequestVoteResponse" => m.voteGranted \in BOOLEAN
    /\ m.type = "AppendEntries" =>
        /\ m.prevLogIndex \in 0..MaxIndex /\ m.prevLogTerm \in 0..MaxTerm
        /\ m.leaderCommit \in 0..MaxIndex /\ m.entries \in Seq(Entry)
    /\ m.type = "AppendEntriesResponse" =>
        m.success \in BOOLEAN /\ m.matchIndex \in 0..MaxIndex /\ m.rejectHint \in 0..MaxIndex
    /\ m.type = "InstallSnapshot" => SnapshotOK(m.snapshot)
    /\ m.type = "InstallSnapshotResponse" =>
        m.success \in BOOLEAN /\ m.matchIndex \in 0..MaxIndex

\* f is a function of the servers.
PerServer(f) == f = [s \in Server |-> f[s]]

\* Every variable has the shape of the Go value it stands for: hard state,
\* snapshot, log and message fields within uint64 (here MaxTerm, MaxIndex),
\* volatile bookkeeping and message endpoints within the universe.  In
\* particular no counter wraps and no slice of the log is out of range.
\* Application data is opaque.
TypeOK ==
    /\ PerServer(node) /\ \A s \in Server : NodeOK(node[s]) /\ node[s].id = s
    /\ PerServer(disk) /\ \A s \in Server : HardStateOK(disk[s])
    /\ up \in [Server -> BOOLEAN]
    /\ PerServer(store) /\ \A s \in Server : store[s].applied \in Nat
    /\ PerServer(pending)
    /\ \A s \in Server : /\ pending[s].phase \in {"none", "writing", "written"}
                          /\ \A m \in pending[s].effects.send : MessageOK(m)
    /\ timer \in [Server -> [election : BOOLEAN, heartbeat : BOOLEAN]]
    /\ \A m \in net : MessageOK(m)
    /\ crashes \in 0..MaxCrashes

\* At most one process leads a term (the checker's election safety), however
\* votes, crashes and configuration changes interleave.
ElectionSafety ==
    \A s, t \in leaders : node[s].term = node[t].term => s = t

\* The configuration d is c or may directly follow it.
Adjacent(c, d) == c = d \/ jointTransitionOK(c, d) \/ finalTransitionOK(c, d)

\* Two processes elected in one term, by one configuration or by two that
\* directly follow each other, are the same process: entering and leaving
\* joint consensus in the middle of an election cannot give a term two leaders.
OneLeaderAcrossChange ==
    \A s, t \in leaders :
        /\ node[s].term = node[t].term
        /\ Adjacent(node[s].electionMembership, node[t].electionMembership)
        => s = t

\* Every vote a candidate or leader counts is on the voter's disk until the
\* voter moves to a later term: no vote leaves a node before the write that
\* records it, so no crash can take one back.
VotesAreDurable ==
    \A s \in Server : up[s] /\ node[s].role # Follower =>
        \A v \in node[s].votes \ {s} :
            \/ disk[v].term > node[s].term
            \/ disk[v].term = node[s].term /\ disk[v].votedFor = s

\* Two logs that agree on the term of an entry agree on it and on every
\* earlier entry both still hold.
LogMatching ==
    \A s, t \in Server :
        \A i \in 1..minimum(lastIndex(node[s]), lastIndex(node[t])) :
            /\ entryExists(node[s], i) /\ entryExists(node[t], i)
            /\ termAt(node[s], i) = termAt(node[t], i)
            => \A j \in 1..i : entryExists(node[s], j) /\ entryExists(node[t], j) =>
                    entryAt(node[s], j) = entryAt(node[t], j)

\* What a leader believes replicated on a follower is on that follower's disk
\* as long as the follower stays in the leader's term: responses leave after
\* the write, and late, lost or reordered ones never raise matchIndex too far.
MatchIsDurable ==
    \A s \in leaders, f \in Server :
        f # s /\ disk[f].term = node[s].term =>
            \A i \in 1..node[s].matchIndex[f] :
                holds(disk[f], i, termAt(node[s], i)) \/ i < node[s].snap.index

\* A durable commit index is backed by a quorum, of the configuration in
\* force at that index, of disks that hold the entry: neither a crash nor a
\* conflicting suffix can undo it.
CommitIsDurable ==
    \A s \in Server : LET c == disk[s].commit IN
        c > 0 => quorum(membershipAt(disk[s], c),
                        {t \in Server : holds(disk[t], c, termAt(disk[s], c))})

\* A leader's log holds everything that is durably committed anywhere in its
\* own or an earlier term.
LeaderCompleteness ==
    \A s \in leaders, t \in Server :
        node[s].term >= disk[t].term =>
            holds(node[s], disk[t].commit, termAt(disk[t], disk[t].commit))

\* Application states, and the checkpoints snapshots carry, are prefixes of
\* one command history, longer for a larger applied index.
StateMachineSafety ==
    LET states == {[applied |-> store[s].applied, history |-> store[s].history] : s \in Server} \cup
                  {[applied |-> disk[s].snap.index, history |-> disk[s].snap.data] : s \in Server}
    IN  \A a, b \in states : a.applied <= b.applied => IsPrefix(a.history, b.history)

\* Entries reach the application in index order with no gap and no repeat,
\* across crashes, restarts and snapshots: the harness never has to refuse an
\* effect with ErrApplyOrder, and the node's applied index never runs ahead
\* of what its released effects delivered.
ApplyOrder ==
    \A s \in Server : LET e == pending[s].effects
                          base == IF e.install THEN node[s].snap.index ELSE store[s].applied
                      IN  /\ e.install => node[s].snap.index >= store[s].applied
                          /\ e.apply = (base + 1)..(base + Cardinality(e.apply))
                          /\ up[s] => node[s].applied = base + Cardinality(e.apply)

\* A crash at any point leaves a durable state that New accepts: Config.validate
\* never refuses to build the node again, and membershipAt never panics.  Of the
\* application it says nothing: RecoveryIsExact and RecoverySucceeds do.
DurableStateIsValid == \A s \in Server : validate(disk[s], store[s].applied)

\* Where a crash at this point would leave a store that recoverApplication takes,
\* what it rebuilds is the application as it was: the checkpoint on disk, which
\* may be older or newer than what was applied, and the stored entries, which
\* compaction and installed snapshots cut, make up its history with no command
\* lost or executed twice.
RecoveryIsExact ==
    \A s \in Server : recoverable(disk[s], store[s]) =>
        recoverApplication(disk[s], store[s]).history = store[s].history

\* A crash at any point leaves a store the application recovers from: "A crash
\* after completion but before acknowledgement is recovered by Node.Start"
\* (SNAPSHOTS.md), also while a second snapshot is being installed.
RecoverySucceeds == \A s \in Server : up[s] \/ recoverable(disk[s], store[s])

\* The cached voting configuration is the one the log prescribes, whatever
\* the log went through: truncation, compaction, an installed snapshot.
MembershipIsCurrent ==
    \A s \in Server : node[s].membership = membershipAt(node[s], lastIndex(node[s]))

\* At most one configuration entry is uncommitted in any log, and only such
\* an entry lets a process lead a cluster it does not vote in.
OneChangeAtATime ==
    \A s \in Server :
        /\ Cardinality({k \in 1..Len(node[s].log) :
                isConfig(node[s].log[k]) /\ node[s].snap.index + k > node[s].commit}) <= 1
        /\ s \in leaders => \/ isVoter(node[s].membership, s)
                            \/ hasUncommittedConfiguration(node[s])

\* Durable state never goes back: not the term, not a vote within a term, not
\* the commit index, the snapshot boundary or the applied index.
DurableProgress ==
    [][\A s \in Server :
        /\ disk'[s].term >= disk[s].term
        /\ disk'[s].term = disk[s].term /\ disk[s].votedFor # Nil =>
                disk'[s].votedFor = disk[s].votedFor
        /\ disk'[s].commit >= disk[s].commit
        /\ disk'[s].snap.index >= disk[s].snap.index
        /\ store'[s].applied >= store[s].applied]_<<disk, store>>

\* The commands chosen for good: those below the highest durable commit index.
chosenCommands ==
    LET furthest == CHOOSE s \in Server : \A t \in Server : disk[t].commit <= disk[s].commit
        d == disk[furthest]
    IN  d.snap.data \o commandsOf(entriesAt(d, (d.snap.index + 1)..d.commit))

Abstract == INSTANCE ReplicatedLog WITH
                chosen <- chosenCommands,
                delivered <- [s \in Server |-> store[s].history]

\* The cluster implements a replicated log: durable commits only ever append
\* to one order of commands, and each application executes a growing prefix of
\* it, exactly once across crashes, restarts and installed snapshots.
ImplementsReplicatedLog == Abstract!Spec

\* Nothing is left that could run by itself: no packet, no write, no leader
\* to send heartbeats, and no election timer on any live process.
Stalled ==
    /\ net = {}
    /\ \A s \in Server : up[s] =>
        pending[s] = NoPending /\ node[s].role # Leader /\ ~timer[s].election

\* While a majority of the voters is up and connected, the cluster can still
\* elect a leader without help from outside: some event is always scheduled.
MajorityNeverStalls == quorum(InitialMembership, {s \in Server : up[s]}) => ~Stalled

\* A follower's rejection tells the leader where to resume (the hint that
\* TestAppendEntriesRejectsCompactedPrefix asks for), so a rejected append is
\* never simply repeated: the round trip of the append the leader would send
\* now ends in success or moves nextIndex.
RejectionsMakeProgress ==
    \A s \in leaders : \A f \in Server \ {s} :
        LET request == appendMessage(node[s], f)
            reply == CHOOSE m \in stepMessage(node[f], request).effects.send : TRUE
        IN  /\ Idle(s) /\ Idle(f) /\ node[f].term = node[s].term
            /\ request.type = "AppendEntries"
            => \/ reply.success
               \/ handleAppendEntriesResponse(node[s], reply).node.nextIndex[f]
                    # node[s].nextIndex[f]
=============================================================================
