------------------------------ MODULE RaftNode ------------------------------
(***************************************************************************)
(* The pure Raft state machine of raft/node.go: what Node.Step and the     *)
(* handlers below it compute.  A node is a record with the fields of Go's  *)
(* Node struct; a transition maps a node and one input to a Result: the    *)
(* new node, whether it must be persisted before its effects are released  *)
(* (dirty), the effects, and whether Step returned an error.               *)
(*                                                                         *)
(* Data abstractions.  Entries are positional (Entry.Index is the position *)
(* after the snapshot boundary).  Command payloads are members of Command, *)
(* application checkpoints are the sequence of commands they stand for.    *)
(* A nil Go map reads as the function that is 0 everywhere.  The largest   *)
(* uint64 is MaxTerm for terms and MaxIndex for log indexes, so a small    *)
(* instance meets the code's own exhaustion checks.                        *)
(***************************************************************************)
EXTENDS RaftMembership, Sequences

CONSTANTS
    Nil,                \* the empty NodeID ""
    Command,            \* proposal payloads
    InitialMembership,  \* Config.Voters / Config.Learners
    MaxTerm,            \* math.MaxUint64 where the code compares a term
    MaxIndex            \* math.MaxUint64 where the code compares an index

ASSUME NilAssumption == Nil \notin Server
ASSUME InitialMembershipAssumption ==
    /\ InitialMembership \in Membership
    /\ InitialMembership.outgoing = {}
    /\ validateMembership(InitialMembership)
ASSUME BoundAssumption == MaxTerm \in Nat \ {0} /\ MaxIndex \in Nat \ {0}

Follower == "follower"
Candidate == "candidate"
Leader == "leader"

NoCommand == "none"     \* Entry.Data of an entry that carries no command
EntryTypes == {"noop", "command", "joint", "final"}

Entry == [term : 1..MaxTerm, type : EntryTypes,
          data : Command \cup {NoCommand}, membership : Membership]

NoSnapshot == [index |-> 0, term |-> 0, membership |-> NoMembership, data |-> <<>>]

\* raft.PersistentState: HardState, Snapshot and Log.
persistentState(n) ==
    [term |-> n.term, votedFor |-> n.votedFor, commit |-> n.commit,
     snap |-> n.snap, log |-> n.log]

EmptyState ==
    [term |-> 0, votedFor |-> Nil, commit |-> 0, snap |-> NoSnapshot, log |-> <<>>]

ZeroMap == [s \in Server |-> 0]
-----------------------------------------------------------------------------
(* Log access.  These work on nodes and on persistent states alike.        *)

lastIndex(n) == n.snap.index + Len(n.log)

entryExists(n, i) == n.snap.index < i /\ i <= lastIndex(n)

entryAt(n, i) == n.log[i - n.snap.index]

termAt(n, i) ==
    IF i = 0 THEN 0
    ELSE IF i = n.snap.index THEN n.snap.term
    ELSE IF entryExists(n, i) THEN entryAt(n, i).term
    ELSE 0

lastTerm(n) == termAt(n, lastIndex(n))

entriesFrom(n, i) ==
    IF i <= n.snap.index THEN n.log
    ELSE SubSeq(n.log, i - n.snap.index, Len(n.log))

\* The entries that truncateFrom(index) leaves in the log.
truncateFrom(n, i) ==
    IF i <= n.snap.index THEN <<>>
    ELSE SubSeq(n.log, 1, i - n.snap.index - 1)

nextIndexAfter(i) == IF i = MaxIndex THEN MaxIndex ELSE i + 1

minimum(a, b) == IF a <= b THEN a ELSE b
-----------------------------------------------------------------------------
(* Configurations in the log.                                              *)

isConfig(e) == e.type \in {"joint", "final"}

\* The configuration in force after the first k of the entries that follow
\* a point where base is in force.
configAfter(base, entries, k) ==
    LET configs == {j \in 1..k : isConfig(entries[j])}
    IN  IF configs = {} THEN base
        ELSE entries[CHOOSE j \in configs : \A i \in configs : i <= j].membership

\* transitionMembership accepts entry k of entries.
transitionOK(base, entries, k) ==
    LET current == configAfter(base, entries, k - 1)
        e == entries[k]
    IN  CASE e.type = "joint" -> jointTransitionOK(current, e.membership)
          [] e.type = "final" -> finalTransitionOK(current, e.membership)
          [] OTHER -> e.membership = NoMembership

chainOK(base, entries) == \A k \in 1..Len(entries) : transitionOK(base, entries, k)

\* The configuration the log of n starts from.  Snapshots taken by this code
\* always carry their Membership, so the branch for a legacy snapshot with a
\* zero Membership is not needed.
baseMembership(n) ==
    IF n.snap.index > 0 THEN n.snap.membership ELSE InitialMembership

\* An illegal chain makes the code panic; chainOK of every log is part of
\* the invariant DurableStateIsValid.
membershipAt(n, i) ==
    IF i < n.snap.index THEN InitialMembership
    ELSE configAfter(baseMembership(n), n.log, minimum(i - n.snap.index, Len(n.log)))

refreshMembership(n) == [n EXCEPT !.membership = membershipAt(n, lastIndex(n))]

hasUncommittedConfiguration(n) ==
    \E k \in 1..Len(n.log) : n.snap.index + k > n.commit /\ isConfig(n.log[k])

\* Config.validate on the durable state and the durably applied index: New
\* refuses to construct a node from anything else.
validate(d, applied) ==
    /\ d.snap.index > 0 =>
        /\ d.snap.term \in 1..d.term
        /\ validateMembership(d.snap.membership)
    /\ Len(d.log) <= MaxIndex - d.snap.index
    /\ \A k \in 1..Len(d.log) :
        /\ d.log[k].term \in 1..d.term
        /\ d.log[k].term >= IF k = 1 THEN d.snap.term ELSE d.log[k - 1].term
        /\ d.log[k].type = "final" => d.commit >= d.snap.index + k - 1
    /\ chainOK(baseMembership(d), d.log)
    /\ d.snap.index <= d.commit
    /\ d.commit <= lastIndex(d)
    /\ applied <= d.commit
-----------------------------------------------------------------------------
(* Effects and results.                                                    *)

\* timers: which timers to rearm; install: hand the snapshot to the
\* application; apply: the indexes to apply, in order; send: messages.
NoEffects == [timers |-> {}, install |-> FALSE, apply |-> {}, send |-> {}]

ResetElectionTimer == [NoEffects EXCEPT !.timers = {"election"}]

Sends(messages) == [NoEffects EXCEPT !.send = messages]

\* One effect list appended to another; every transition emits at most one
\* of the two apply lists.
Then(first, second) ==
    [timers |-> first.timers \cup second.timers,
     install |-> first.install \/ second.install,
     apply |-> first.apply \cup second.apply,
     send |-> first.send \cup second.send]

Result(n, dirty, effects) ==
    [node |-> n, dirty |-> dirty, effects |-> effects, err |-> FALSE]

\* Step returned an error: no effects, and whatever the handler had already
\* assigned stays assigned.
Failure(n) == [node |-> n, dirty |-> FALSE, effects |-> NoEffects, err |-> TRUE]
-----------------------------------------------------------------------------
(* Construction.                                                           *)

\* Mutant: everything committed is taken for applied.
New_AppliedIsCommit(id, state, applied) ==
    refreshMembership(
        [id |-> id, role |-> Follower, leader |-> Nil,
         term |-> state.term, votedFor |-> state.votedFor,
         commit |-> state.commit, snap |-> state.snap, log |-> state.log,
         applied |-> state.commit, membership |-> NoMembership,
         votes |-> {}, electionVotes |-> {}, electionMembership |-> NoMembership,
         nextIndex |-> ZeroMap, matchIndex |-> ZeroMap, appendSequence |-> ZeroMap])

New(id, state, applied) ==
    refreshMembership(
        [id |-> id, role |-> Follower, leader |-> Nil,
         term |-> state.term, votedFor |-> state.votedFor,
         commit |-> state.commit, snap |-> state.snap, log |-> state.log,
         applied |-> applied, membership |-> NoMembership,
         votes |-> {}, electionVotes |-> {}, electionMembership |-> NoMembership,
         nextIndex |-> ZeroMap, matchIndex |-> ZeroMap, appendSequence |-> ZeroMap])

\* Emit the committed entries above n.applied.
applyCommitted(n) ==
    Result([n EXCEPT !.applied = IF @ < n.commit THEN n.commit ELSE @], FALSE,
           [NoEffects EXCEPT !.apply = (n.applied + 1)..n.commit])

Start(n) ==
    LET behind == n.applied < n.snap.index
        installed == IF behind THEN [n EXCEPT !.applied = n.snap.index] ELSE n
        applied == applyCommitted(installed)
    IN  Result(applied.node, FALSE,
               [applied.effects EXCEPT
                    !.install = behind,
                    !.timers = IF isVoter(n.membership, n.id) THEN {"election"} ELSE {}])
-----------------------------------------------------------------------------
(* Roles, elections and the commit index.                                  *)

\* Mutant: the vote is forgotten even when the term does not change.
becomeFollower_ForgetVote(n, term, leader) ==
    [n EXCEPT !.role = Follower, !.leader = leader,
              !.votes = {}, !.electionVotes = {},
              !.electionMembership = NoMembership,
              !.nextIndex = ZeroMap, !.matchIndex = ZeroMap,
              !.appendSequence = ZeroMap,
              !.term = IF term > @ THEN term ELSE @,
              !.votedFor = Nil]

becomeFollower(n, term, leader) ==
    [n EXCEPT !.role = Follower, !.leader = leader,
              !.votes = {}, !.electionVotes = {},
              !.electionMembership = NoMembership,
              !.nextIndex = ZeroMap, !.matchIndex = ZeroMap,
              !.appendSequence = ZeroMap,
              !.term = IF term > @ THEN term ELSE @,
              !.votedFor = IF term > n.term THEN Nil ELSE @]

\* Mutant: only the lengths of the logs are compared.
candidateLogIsUpToDate_LengthOnly(n, index, term) == index >= lastIndex(n)

candidateLogIsUpToDate(n, index, term) ==
    \/ term > lastTerm(n)
    \/ term = lastTerm(n) /\ index >= lastIndex(n)

\* Mutant: a follower one entry short is counted.
committable_OffByOne(n) ==
    {i \in (n.commit + 1)..lastIndex(n) :
        /\ termAt(n, i) = n.term
        /\ quorum(membershipAt(n, i), {s \in Server : n.matchIndex[s] >= i - 1})}

\* Indexes advanceCommit accepts: of the current term, and replicated on a
\* quorum of the configuration in force at that very index.
committable(n) ==
    {i \in (n.commit + 1)..lastIndex(n) :
        /\ termAt(n, i) = n.term
        /\ quorum(membershipAt(n, i), {s \in Server : n.matchIndex[s] >= i})}

\* A leader that the last configuration leaves out steps down once it has
\* committed.
advanceCommit(n) ==
    IF committable(n) = {} THEN Result(n, FALSE, NoEffects)
    ELSE LET index == CHOOSE i \in committable(n) : \A j \in committable(n) : j <= i
             applied == applyCommitted([n EXCEPT !.commit = index])
             m == applied.node
         IN  Result(IF m.role = Leader /\ ~isVoter(m.membership, m.id)
                    THEN becomeFollower(m, m.term, Nil) ELSE m,
                    TRUE, applied.effects)

\* Mutant: a follower that needs exactly the last compacted entry is sent an
\* append.
appendMessage_BoundaryOffByOne(n, member) ==
    LET append(prev, entries) ==
            [type |-> "AppendEntries", from |-> n.id, to |-> member,
             term |-> n.term, sequence |-> n.appendSequence[member],
             prevLogIndex |-> prev, prevLogTerm |-> termAt(n, prev),
             entries |-> entries, leaderCommit |-> n.commit]
        next == IF n.nextIndex[member] = 0 THEN nextIndexAfter(lastIndex(n))
                ELSE n.nextIndex[member]
    IN  IF n.matchIndex[member] = MaxIndex THEN append(MaxIndex, <<>>)
        ELSE IF next < n.snap.index
        THEN [type |-> "InstallSnapshot", from |-> n.id, to |-> member,
              term |-> n.term, sequence |-> n.appendSequence[member],
              snapshot |-> n.snap]
        ELSE append(next - 1, entriesFrom(n, next))

\* The message appendFor builds, its sequence number already advanced.
appendMessage(n, member) ==
    LET append(prev, entries) ==
            [type |-> "AppendEntries", from |-> n.id, to |-> member,
             term |-> n.term, sequence |-> n.appendSequence[member],
             prevLogIndex |-> prev, prevLogTerm |-> termAt(n, prev),
             entries |-> entries, leaderCommit |-> n.commit]
        next == IF n.nextIndex[member] = 0 THEN nextIndexAfter(lastIndex(n))
                ELSE n.nextIndex[member]
    IN  IF n.matchIndex[member] = MaxIndex THEN append(MaxIndex, <<>>)
        ELSE IF next <= n.snap.index
        THEN [type |-> "InstallSnapshot", from |-> n.id, to |-> member,
              term |-> n.term, sequence |-> n.appendSequence[member],
              snapshot |-> n.snap]
        ELSE append(next - 1, entriesFrom(n, next))

\* appendFor for every node of members.
appendTo(n, members) ==
    LET m == [n EXCEPT !.appendSequence =
                [s \in Server |-> IF s \in members THEN @[s] + 1 ELSE @[s]]]
    IN  Result(m, FALSE, Sends({appendMessage(m, s) : s \in members}))

broadcastAppend(n) == appendTo(n, Server \ {n.id})

\* What follows an entry the leader appended to its own log: acknowledge it
\* locally, try to commit, and broadcast unless the commit made the leader
\* step down.  becomeLeader and proposals broadcast without that last test,
\* which only a configuration entry can fail.
replicate(n) ==
    LET advanced == advanceCommit([n EXCEPT !.matchIndex[n.id] = lastIndex(n)])
        sent == IF advanced.node.role = Leader THEN broadcastAppend(advanced.node)
                ELSE Result(advanced.node, FALSE, NoEffects)
    IN  Result(sent.node, TRUE, Then(advanced.effects, sent.effects))

newEntry(n, type, data, membership) ==
    [term |-> n.term, type |-> type, data |-> data, membership |-> membership]

becomeLeader(n) ==
    IF lastIndex(n) = MaxIndex THEN Failure(n)
    ELSE LET elected ==
                [n EXCEPT !.role = Leader, !.leader = n.id,
                          !.electionVotes = n.votes,
                          !.electionMembership = n.membership,
                          !.nextIndex = [s \in Server |-> lastIndex(n) + 1],
                          !.matchIndex = ZeroMap,
                          !.appendSequence = ZeroMap,
                          !.log = Append(@, newEntry(n, "noop", NoCommand, NoMembership))]
             r == replicate(elected)
         IN  Result(r.node, TRUE, [r.effects EXCEPT !.timers = {"heartbeat"}])

startElection(n) ==
    LET c == [n EXCEPT !.role = Candidate, !.leader = Nil, !.term = @ + 1,
                       !.votedFor = n.id, !.votes = {n.id}, !.electionVotes = {},
                       !.nextIndex = ZeroMap, !.matchIndex = ZeroMap,
                       !.appendSequence = ZeroMap]
        request(s) == [type |-> "RequestVote", from |-> n.id, to |-> s,
                       term |-> c.term, lastLogIndex |-> lastIndex(c),
                       lastLogTerm |-> lastTerm(c)]
    IN  IF quorum(c.membership, {n.id})
        THEN IF lastIndex(n) = MaxIndex THEN Failure(n)
             ELSE [becomeLeader(c) EXCEPT !.effects = Then(ResetElectionTimer, @)]
        ELSE Result(c, TRUE, Then(ResetElectionTimer,
                        Sends({request(s) : s \in voterUnion(c.membership) \ {n.id}})))

\* Mutant: the term counter is incremented past its largest value.
electionTimeout_NoExhaustionCheck(n) ==
    IF ~isVoter(n.membership, n.id) THEN Result(n, FALSE, NoEffects)
    ELSE startElection(n)

electionTimeout(n) ==
    IF ~isVoter(n.membership, n.id) THEN Result(n, FALSE, NoEffects)
    ELSE IF n.term = MaxTerm THEN Failure(n)
    ELSE startElection(n)

heartbeatTimeout(n) ==
    IF n.role # Leader THEN Result(n, FALSE, NoEffects)
    ELSE LET r == broadcastAppend(n)
         IN  [r EXCEPT !.effects.timers = {"heartbeat"}]
-----------------------------------------------------------------------------
(* Client requests to a leader, and log compaction.                        *)

proposal(n, command) ==
    IF \/ n.role # Leader
       \/ ~isVoter(n.membership, n.id)
       \/ hasUncommittedConfiguration(n)
       \/ lastIndex(n) = MaxIndex
    THEN Failure(n)
    ELSE replicate([n EXCEPT !.log =
                        Append(@, newEntry(n, "command", command, NoMembership))])

appendMembershipEntry(n, type, membership) ==
    IF ~(IF type = "joint" THEN jointTransitionOK(n.membership, membership)
                           ELSE finalTransitionOK(n.membership, membership))
    THEN Failure(n)
    ELSE replicate(refreshMembership(
            [n EXCEPT !.log = Append(@, newEntry(n, type, NoCommand, membership))]))

beginMembership(n, voters, learners) ==
    LET target == stableMembership(voters, learners)
    IN  IF \/ n.role # Leader
           \/ ~isVoter(n.membership, n.id)
           \/ Joint(n.membership) \/ hasUncommittedConfiguration(n)
           \/ lastIndex(n) = MaxIndex
           \/ ~validateMembership(target) \/ target = n.membership
        THEN Failure(n)
        ELSE appendMembershipEntry(n, "joint",
                [voters |-> voters, outgoing |-> n.membership.voters,
                 learners |-> learners \ n.membership.voters,
                 learnersNext |-> learners])

\* Mutant: the final entry does not wait for the joint one to commit.
finalizeMembership_Eager(n) ==
    IF n.role # Leader \/ ~Joint(n.membership) \/ lastIndex(n) = MaxIndex
    THEN Failure(n)
    ELSE appendMembershipEntry(n, "final",
            stableMembership(n.membership.voters, n.membership.learnersNext))

finalizeMembership(n) ==
    IF \/ n.role # Leader
       \/ ~Joint(n.membership) \/ hasUncommittedConfiguration(n)
       \/ n.commit # lastIndex(n)
       \/ lastIndex(n) = MaxIndex
    THEN Failure(n)
    ELSE appendMembershipEntry(n, "final",
            stableMembership(n.membership.voters, n.membership.learnersNext))

takeSnapshot(n, index, data) ==
    IF \/ index = 0 \/ index <= n.snap.index \/ index > n.applied \/ index > n.commit
       \/ termAt(n, index) = 0
    THEN Failure(n)
    ELSE Result(refreshMembership(
                    [n EXCEPT !.snap = [index |-> index, term |-> termAt(n, index),
                                        membership |-> membershipAt(n, index),
                                        data |-> data],
                              !.log = entriesFrom(n, index + 1)]),
                TRUE, NoEffects)
-----------------------------------------------------------------------------
(* Message handlers.  Each returns the Result of its own part of the step; *)
(* stepMessage adds the step-down that a higher term forces.               *)

\* Mutant: a second vote in the same term.
voteGranted_VoteAgain(n, m) ==
    /\ m.term = n.term
    /\ isVoter(n.membership, n.id)
    /\ isVoter(n.membership, m.from)
    /\ candidateLogIsUpToDate(n, m.lastLogIndex, m.lastLogTerm)

voteGranted(n, m) ==
    /\ m.term = n.term
    /\ isVoter(n.membership, n.id)
    /\ isVoter(n.membership, m.from)
    /\ n.votedFor \in {Nil, m.from}
    /\ candidateLogIsUpToDate(n, m.lastLogIndex, m.lastLogTerm)

\* Mutant: the vote is answered without being made durable.
handleRequestVote_NotPersisted(n, m) ==
    LET granted == voteGranted(n, m)
        voted == IF granted THEN [n EXCEPT !.votedFor = m.from] ELSE n
        response == [type |-> "RequestVoteResponse", from |-> n.id, to |-> m.from,
                     term |-> n.term, voteGranted |-> granted]
    IN  Result(voted, FALSE,
               Then(IF granted THEN ResetElectionTimer ELSE NoEffects, Sends({response})))

handleRequestVote(n, m) ==
    LET granted == voteGranted(n, m)
        voted == IF granted THEN [n EXCEPT !.votedFor = m.from] ELSE n
        response == [type |-> "RequestVoteResponse", from |-> n.id, to |-> m.from,
                     term |-> n.term, voteGranted |-> granted]
    IN  Result(voted, granted /\ n.votedFor # m.from,
               Then(IF granted THEN ResetElectionTimer ELSE NoEffects, Sends({response})))

handleRequestVoteResponse(n, m) ==
    LET counted == [n EXCEPT !.votes = @ \cup {m.from}]
    IN  IF \/ n.role # Candidate \/ m.term # n.term \/ ~m.voteGranted
           \/ m.from \in n.votes
        THEN Result(n, FALSE, NoEffects)
        ELSE IF quorum(n.membership, counted.votes) THEN becomeLeader(counted)
        ELSE Result(counted, FALSE, NoEffects)

appendResponse(n, m, success, matchIndex, rejectHint) ==
    [type |-> "AppendEntriesResponse", from |-> n.id, to |-> m.from, term |-> n.term,
     sequence |-> m.sequence, success |-> success, matchIndex |-> matchIndex,
     rejectHint |-> rejectHint]

\* The receiver of an append or a snapshot of its own term follows the sender.
followSender(n, m) ==
    IF n.role # Follower \/ n.leader # m.from THEN becomeFollower(n, m.term, m.from) ELSE n

\* Positions of m.entries that handleAppendEntries refuses.
refusedEntries(n, m) ==
    {k \in 1..Len(m.entries) :
        \/ m.entries[k].term = 0
        \/ m.entries[k].term > m.term
        \/ m.entries[k].term < IF k = 1 THEN m.prevLogTerm ELSE m.entries[k - 1].term
        \/ ~transitionOK(membershipAt(n, m.prevLogIndex), m.entries, k)}

\* Positions of m.entries that the log does not already hold.
newEntries(n, m) ==
    {k \in 1..Len(m.entries) :
        \/ m.prevLogIndex + k > lastIndex(n)
        \/ termAt(n, m.prevLogIndex + k) # m.entries[k].term}

firstOf(positions) == CHOOSE k \in positions : \A j \in positions : k <= j

\* Mutant: the cached configuration is not recomputed.
storeEntries_StaleMembership(n, m) ==
    LET k == firstOf(newEntries(n, m))
    IN  IF newEntries(n, m) = {} THEN n
        ELSE [n EXCEPT !.log = truncateFrom(n, m.prevLogIndex + k)
                                \o SubSeq(m.entries, k, Len(m.entries))]

\* Entries the log holds are skipped; at the first conflict, or past the end,
\* the rest of the message replaces the rest of the log.  The check for a gap
\* (node.go:522) is left out: after previousMatches there is none.
storeEntries(n, m) ==
    LET k == firstOf(newEntries(n, m))
    IN  IF newEntries(n, m) = {} THEN n
        ELSE refreshMembership(
                [n EXCEPT !.log = truncateFrom(n, m.prevLogIndex + k)
                                    \o SubSeq(m.entries, k, Len(m.entries))])

\* Mutant: new entries are acknowledged without being made durable.
acceptEntries_NotPersisted(n, m) ==
    LET stored == storeEntries(n, m)
        committed == IF m.leaderCommit > n.commit
                     THEN applyCommitted([stored EXCEPT !.commit =
                                minimum(m.leaderCommit, lastIndex(stored))])
                     ELSE Result(stored, FALSE, NoEffects)
    IN  Result(committed.node, m.leaderCommit > n.commit, committed.effects)

acceptEntries(n, m) ==
    LET stored == storeEntries(n, m)
        committed == IF m.leaderCommit > n.commit
                     THEN applyCommitted([stored EXCEPT !.commit =
                                minimum(m.leaderCommit, lastIndex(stored))])
                     ELSE Result(stored, FALSE, NoEffects)
    IN  Result(committed.node,
               newEntries(n, m) # {} \/ m.leaderCommit > n.commit,
               committed.effects)

\* Mutant: any entry at the previous index will do, whatever its term.
previousMatches_IndexOnly(n, m) == m.prevLogIndex <= lastIndex(n)

\* The log holds the entry that precedes the message's entries.
previousMatches(n, m) == termAt(n, m.prevLogIndex) = m.prevLogTerm

handleAppendEntries(n, m) ==
    LET f == followSender(n, m)
        reject(g, hint) == Sends({appendResponse(g, m, FALSE, 0, hint)})
        refuse(hint) == Result(f, FALSE, Then(ResetElectionTimer, reject(f, hint)))
        accepted == acceptEntries(f, m)
        confirm == Sends({appendResponse(accepted.node, m, TRUE,
                                         m.prevLogIndex + Len(m.entries), 0)})
    IN  IF m.term < n.term
        THEN Result(n, FALSE, reject(n, nextIndexAfter(lastIndex(n))))
        ELSE IF m.prevLogIndex < f.snap.index
        THEN refuse(nextIndexAfter(f.snap.index))
        ELSE IF ~previousMatches(f, m)
        THEN refuse(IF m.prevLogIndex = 0 THEN 1
                    ELSE minimum(m.prevLogIndex, nextIndexAfter(lastIndex(f))))
        ELSE IF Len(m.entries) > MaxIndex - m.prevLogIndex
        THEN refuse(nextIndexAfter(lastIndex(f)))
        ELSE IF refusedEntries(f, m) # {}
        THEN refuse(m.prevLogIndex + firstOf(refusedEntries(f, m)))
        ELSE Result(accepted.node, accepted.dirty,
                    Then(Then(ResetElectionTimer, accepted.effects), confirm))

snapshotResponse(n, m, success, matchIndex) ==
    [type |-> "InstallSnapshotResponse", from |-> n.id, to |-> m.from, term |-> n.term,
     sequence |-> m.sequence, success |-> success, matchIndex |-> matchIndex]

\* The part of the log that survives the installation of snapshot.
retainedSuffix(n, snapshot) ==
    IF termAt(n, snapshot.index) = snapshot.term
    THEN entriesFrom(n, snapshot.index + 1) ELSE <<>>

\* Mutant: the commit index is left behind the installed boundary.
installSnapshot_CommitUnchanged(n, snapshot) ==
    refreshMembership([n EXCEPT !.snap = snapshot,
                                !.log = retainedSuffix(n, snapshot),
                                !.applied = snapshot.index])

installSnapshot(n, snapshot) ==
    refreshMembership([n EXCEPT !.snap = snapshot,
                                !.log = retainedSuffix(n, snapshot),
                                !.commit = snapshot.index,
                                !.applied = snapshot.index])

handleInstallSnapshot(n, m) ==
    LET f == followSender(n, m)
        s == m.snapshot
        answer(g, success, index) == Sends({snapshotResponse(g, m, success, index)})
        keep(success, index) ==
            Result(f, FALSE, Then(ResetElectionTimer, answer(f, success, index)))
        installed == installSnapshot(f, s)
    IN  IF m.term < n.term THEN Result(n, FALSE, answer(n, FALSE, n.snap.index))
        ELSE IF s.index = 0 \/ s.term = 0 \/ s.term > m.term
                \/ ~validateMembership(s.membership)
        THEN keep(FALSE, f.snap.index)
        ELSE IF s.index <= f.commit THEN keep(TRUE, s.index)
        ELSE IF ~chainOK(s.membership, retainedSuffix(f, s)) THEN keep(FALSE, f.snap.index)
        ELSE Result(installed, TRUE,
                    [Then(ResetElectionTimer, answer(installed, TRUE, s.index))
                        EXCEPT !.install = TRUE])

\* Both success paths end here: record the follower's progress, try to commit
\* and, unless that made the leader step down, send what is still missing.
recordProgress(n, m) ==
    LET last == minimum(m.matchIndex, lastIndex(n))
        recorded == IF m.matchIndex > n.matchIndex[m.from]
                    THEN [n EXCEPT !.matchIndex[m.from] = last,
                                   !.nextIndex[m.from] = nextIndexAfter(last)]
                    ELSE n
        advanced == advanceCommit(recorded)
        lagging == /\ advanced.node.role = Leader
                   /\ advanced.node.matchIndex[m.from] < lastIndex(advanced.node)
        sent == IF lagging THEN appendTo(advanced.node, {m.from})
                ELSE Result(advanced.node, FALSE, NoEffects)
    IN  Result(sent.node, advanced.effects.apply # {},
               Then(advanced.effects, sent.effects))

handleInstallSnapshotResponse(n, m) ==
    IF n.role # Leader \/ m.term # n.term \/ ~m.success
    THEN Result(n, FALSE, NoEffects)
    ELSE recordProgress(n, m)

\* A rejection counts only when it answers the latest append to its sender.
handleAppendEntriesResponse(n, m) ==
    LET next == n.nextIndex[m.from]
        back == IF next > 1 THEN next - 1 ELSE next
        hinted == IF m.rejectHint > 0 /\ m.rejectHint < back THEN m.rejectHint ELSE back
    IN  IF n.role # Leader \/ m.term # n.term THEN Result(n, FALSE, NoEffects)
        ELSE IF m.success THEN recordProgress(n, m)
        ELSE IF m.sequence # n.appendSequence[m.from] THEN Result(n, FALSE, NoEffects)
        ELSE appendTo([n EXCEPT !.nextIndex[m.from] = IF hinted < 1 THEN 1 ELSE hinted],
                      {m.from})

handleMessage(n, m) ==
    CASE m.type = "RequestVote" -> handleRequestVote(n, m)
      [] m.type = "RequestVoteResponse" -> handleRequestVoteResponse(n, m)
      [] m.type = "AppendEntries" -> handleAppendEntries(n, m)
      [] m.type = "AppendEntriesResponse" -> handleAppendEntriesResponse(n, m)
      [] m.type = "InstallSnapshot" -> handleInstallSnapshot(n, m)
      [] m.type = "InstallSnapshotResponse" -> handleInstallSnapshotResponse(n, m)

\* The route check of the code holds for every message the router delivers.
stepMessage(n, m) ==
    LET higher == m.term > n.term
        r == handleMessage(IF higher THEN becomeFollower(n, m.term, Nil) ELSE n, m)
    IN  [r EXCEPT !.dirty = @ \/ higher]
=============================================================================
