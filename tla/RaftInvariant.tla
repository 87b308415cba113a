---------------------------- MODULE RaftInvariant ----------------------------
(***************************************************************************)
(* Inductive invariants of the cluster: what has to be added to a property *)
(* of RaftSafety to make every step preserve it.                           *)
(***************************************************************************)
EXTENDS RaftSafety

(* The log of a node, and what a leader knows about other logs, never      *)
(* leaves the range of indexes.                                            *)

BoundaryOK(p) == (p.index > 0 => p.term > 0) /\ (p.index = 0 => p.term = 0)

LogBounded(d) == lastIndex(d) <= MaxIndex /\ BoundaryOK(d.snap)

\* A leader probes no further than one past its own log.
ProgressBounded(n) ==
    /\ n.role # Follower => n.term > 0
    /\ n.role = Leader => \A f \in Server :
        n.nextIndex[f] \in 1..(lastIndex(n) + 1) /\ n.matchIndex[f] <= lastIndex(n)

\* Only an append that starts at index 0 carries the previous term 0: a gap
\* never passes for a match.
ProbeOK(m) ==
    /\ m.type = "AppendEntries" /\ m.prevLogTerm = 0 => m.prevLogIndex = 0
    /\ m.type = "InstallSnapshot" => BoundaryOK(m.snapshot)

\* Logs stay within their bounds, durably and in memory, and every probe on
\* its way is one its receiver can judge: with TypeOK this is what keeps the
\* log free of gaps through truncation, compaction and installed snapshots.
LogsAreBounded ==
    /\ \A s \in Server :
        /\ LogBounded(node[s]) /\ LogBounded(disk[s])
        /\ ProgressBounded(node[s])
        /\ \A m \in pending[s].effects.send : ProbeOK(m)
    /\ \A m \in net : ProbeOK(m)
-----------------------------------------------------------------------------
(* Votes: what each of the places a vote passes through may hold.          *)

Grant(m) == m.type = "RequestVoteResponse" /\ m.voteGranted

\* A candidate has voted for itself, and a leader was elected by a quorum.
VoteOK(n) ==
    /\ n.role # Follower => n.votedFor = n.id
    /\ n.role = Leader => /\ quorum(n.electionMembership, n.electionVotes)
                          /\ n.electionVotes \subseteq n.votes

\* A write never takes back a term or a vote, and none is pending elsewhere.
WriteOK(s) ==
    /\ disk[s].term <= node[s].term
    /\ disk[s].term = node[s].term /\ disk[s].votedFor # Nil =>
            node[s].votedFor = disk[s].votedFor
    /\ pending[s].phase # "writing" =>
            node[s].term = disk[s].term /\ node[s].votedFor = disk[s].votedFor

\* A vote that waits for its write is the one being written.
PendingGrants(s) ==
    \A m \in pending[s].effects.send :
        Grant(m) => m.from = s /\ m.term = node[s].term /\ m.to = node[s].votedFor

\* Another process may have seen x vote for s.
Voted(x, s, term) ==
    \/ \E m \in net : Grant(m) /\ m.from = x /\ m.to = s /\ m.term = term
    \/ node[s].role # Follower /\ node[s].term = term /\ x \in node[s].votes \ {s}

Recorded(x, s, term) ==
    disk[x].term > term \/ (disk[x].term = term /\ disk[x].votedFor = s)

\* No vote that anyone may have seen can be taken back or given twice.
VotesAreFinal ==
    \A x, s \in Server, term \in 0..MaxTerm : Voted(x, s, term) =>
        /\ Recorded(x, s, term)
        /\ \A t \in Server : Voted(x, t, term) => t = s

\* What VotesAreDurable needs to be inductive.
VoteInv ==
    /\ \A s \in Server : VoteOK(node[s]) /\ WriteOK(s) /\ PendingGrants(s)
    /\ VotesAreFinal
-----------------------------------------------------------------------------
(* Logs, while the configuration is the initial one.  No node keeps a log  *)
(* from its first entry, so logs are compared with the histories of terms: *)
(* h.full[t] is every entry the log of the leader of t has ever held, from *)
(* index 1, whether or not it was compacted since; h.lead[t] is that       *)
(* leader and h.quorum[t] the processes that elected it.  A history begins *)
(* when the write that records the election completes: until then a crash  *)
(* may undo it.                                                            *)

Terms == 1..MaxTerm

\* Of one term there is one sequence of entries: wherever an entry of term u
\* occurs in a history, everything up to it is in the history of u.
HistoriesAgree(h) ==
    \A t \in Terms : \A i \in 1..Len(h.full[t]) :
        LET u == h.full[t][i].term
        IN  i <= Len(h.full[u]) /\ \A j \in 1..i : h.full[u][j] = h.full[t][j]

\* The log of d, and its snapshot boundary, are a section of f.
Within(d, f) ==
    /\ lastIndex(d) <= Len(f)
    /\ d.snap.index > 0 => f[d.snap.index].term = d.snap.term
    /\ \A k \in 1..Len(d.log) : f[d.snap.index + k] = d.log[k]

FromHistory(h, d) == \E t \in Terms : Within(d, h.full[t])

\* The section of a log that a message carries.
CarriesLog(m) == m.type \in {"AppendEntries", "InstallSnapshot"}
carried(m) ==
    IF m.type = "AppendEntries"
    THEN [snap |-> [index |-> m.prevLogIndex, term |-> m.prevLogTerm], log |-> m.entries]
    ELSE [snap |-> m.snapshot, log |-> <<>>]

\* The section g is a part of what n holds.
Part(g, n) ==
    /\ n.snap.index <= g.snap.index /\ lastIndex(g) <= lastIndex(n)
    /\ g.snap.index > 0 => g.snap.term = termAt(n, g.snap.index)
    /\ \A k \in 1..Len(g.log) : g.log[k] = entryAt(n, g.snap.index + k)

\* An entry that is no configuration, and carries none.
PlainEntry(e) == ~isConfig(e) /\ e.membership = NoMembership

\* A leader holds the whole history of its term, and extends it.  One whose
\* election is still being written has added its first entry to its log.
Unborn(h, s) == node[s].role = Leader /\ h.full[node[s].term] = <<>>
withoutLast(n) == [snap |-> n.snap, log |-> SubSeq(n.log, 1, Len(n.log) - 1)]
LeaderLogOK(h, s) ==
    LET n == node[s]
        f == h.full[n.term]
    IN  IF f = <<>>
        THEN /\ pending[s].phase = "writing"
             /\ n.log # <<>> /\ n.log[Len(n.log)].term = n.term
             /\ PlainEntry(n.log[Len(n.log)])
             /\ FromHistory(h, withoutLast(n))
        ELSE h.lead[n.term] = s /\ lastIndex(n) = Len(f) /\ Within(n, f)

LogsFromHistory(h) ==
    /\ \A s \in Server :
        /\ FromHistory(h, disk[s])
        /\ ~Unborn(h, s) => FromHistory(h, node[s])
        /\ node[s].role = Leader => LeaderLogOK(h, s)
        /\ \A m \in pending[s].effects.send : CarriesLog(m) => Part(carried(m), node[s])
    /\ \A m \in net : CarriesLog(m) => FromHistory(h, carried(m))

\* Whoever elected the leader of a term has voted for no one else, and the
\* leader itself will not stand in that term again.
HistoryElected(h) ==
    \A t \in Terms : h.full[t] # <<>> =>
        /\ h.lead[t] \in Server
        /\ quorum(InitialMembership, h.quorum[t])
        /\ Recorded(h.lead[t], h.lead[t], t)
        /\ node[h.lead[t]].term = t => node[h.lead[t]].role # Candidate
        /\ \A x \in h.quorum[t] \cap Server :
            Recorded(x, h.lead[t], t) /\ \A c \in Server : Voted(x, c, t) => c = h.lead[t]

\* No configuration but the initial one is in any log, snapshot or election.
PlainSnapshot(p) == p.index > 0 => p.membership = InitialMembership
ConfigurationIsFixed(h) ==
    /\ \A t \in Terms : \A i \in 1..Len(h.full[t]) : PlainEntry(h.full[t][i])
    /\ \A s \in Server :
        /\ PlainSnapshot(node[s].snap) /\ PlainSnapshot(disk[s].snap)
        /\ node[s].role # Follower => isVoter(InitialMembership, s)
        /\ node[s].role = Leader => node[s].electionMembership = InitialMembership
        /\ \A m \in pending[s].effects.send :
            m.type = "InstallSnapshot" => PlainSnapshot(m.snapshot)
    /\ \A m \in net : m.type = "InstallSnapshot" => PlainSnapshot(m.snapshot)

\* The invariant of logs under the histories h.
LogInv(h) ==
    /\ HistoriesAgree(h) /\ LogsFromHistory(h)
    /\ HistoryElected(h) /\ ConfigurationIsFixed(h)
-----------------------------------------------------------------------------
(* Commitment, while the configuration is the initial one.  a[t][x] is the *)
(* length of the history of term t that process x has had on its disk in   *)
(* term t: what it may have acknowledged to the leader of t.               *)

\* The leader of t made entry i of the history of t.
Own(h, t, i) == i \in 1..Len(h.full[t]) /\ h.full[t][i].term = t

\* The log d stands for, compacted or not, has an entry of term t at index i.
Includes(h, d, i, t) ==
    /\ i <= lastIndex(d)
    /\ i > d.snap.index => entryAt(d, i).term = t
    /\ i <= d.snap.index => h.full[d.snap.term][i].term = t

durableTerms == [x \in Server |-> disk[x].term]

\* A quorum has acknowledged entry i in term t: it is committed for good.
Chosen(a, t, i) ==
    \E Q \in SUBSET Server : quorum(InitialMembership, Q) /\ \A x \in Q : a[t][x] >= i

\* A quorum has acknowledged it or still may: its members that have not are
\* in no later term, according to d.
Choosable(a, d, t, i) ==
    \E Q \in SUBSET Server :
        quorum(InitialMembership, Q) /\ \A x \in Q : a[t][x] >= i \/ d[x] <= t

\* Terms grow along a history, up to the term it belongs to.
HistoryTerms(h) ==
    \A t \in Terms :
        /\ \A i \in 1..Len(h.full[t]) : \A j \in 1..i : h.full[t][j].term <= h.full[t][i].term
        /\ h.full[t] # <<>> => h.full[t][Len(h.full[t])].term = t

\* No log reaches into a later term than its process.
TermsBounded(d) == \A i \in d.snap.index..lastIndex(d) : termAt(d, i) <= d.term

\* An acknowledgement is of an entry of its term, and never taken back.
AcksOK(h, a) ==
    \A t \in Terms, x \in Server :
        /\ a[t][x] > 0 => Own(h, t, a[t][x]) /\ disk[x].term >= t
        /\ disk[x].term = t /\ lastTerm(disk[x]) = t => a[t][x] >= lastIndex(disk[x])

\* d, a state of x, keeps what x acknowledged, in the term of the
\* acknowledgement and as long as it may be chosen.
AcksHeld(h, a, x, d) ==
    \A t \in Terms : \A i \in 1..a[t][x] :
        Own(h, t, i) /\ (d.term = t \/ Choosable(a, durableTerms, t, i)) => Includes(h, d, i, t)

\* What may be chosen in a term is part of every later history, also of the
\* one that a leader is about to begin.
LaterHolds(h, a) ==
    /\ \A t, u \in Terms : \A i \in 1..Len(h.full[t]) :
        /\ t < u /\ h.full[u] # <<>>
        /\ Own(h, t, i) /\ Choosable(a, durableTerms, t, i)
        => i <= Len(h.full[u]) /\ h.full[u][i].term = t
    /\ \A s \in Server, t \in Terms : \A i \in 1..Len(h.full[t]) :
        /\ Unborn(h, s) /\ t < node[s].term
        /\ Own(h, t, i) /\ Choosable(a, [durableTerms EXCEPT ![s] = node[s].term], t, i)
        => Includes(h, node[s], i, t)

\* The log of a candidate is as far as anything a voter of its acknowledged
\* that may be chosen.
Asks(m) == m.type = "RequestVote"
Candidacy(c, u) == node[c].role = Candidate /\ node[c].term = u
AsFar(n, i, t) == lastTerm(n) > t \/ (lastTerm(n) = t /\ lastIndex(n) >= i)
VoterCovered(h, a, x, c) ==
    \A t \in Terms : \A i \in 1..a[t][x] :
        t < node[c].term /\ Own(h, t, i) /\ Choosable(a, durableTerms, t, i) => AsFar(node[c], i, t)
RequestOK(m) ==
    /\ m.term <= node[m.from].term
    /\ Candidacy(m.from, m.term) =>
        m.lastLogIndex = lastIndex(node[m.from]) /\ m.lastLogTerm = lastTerm(node[m.from])
VotesCovered(h, a) ==
    /\ \A x, c \in Server :
        /\ node[c].role = Candidate /\ Voted(x, c, node[c].term) => VoterCovered(h, a, x, c)
        /\ \A m \in pending[x].effects.send :
            Grant(m) /\ m.to = c => /\ m.term <= disk[c].term
                                    /\ Candidacy(c, m.term) => VoterCovered(h, a, x, c)
    /\ \A s \in Server : \A m \in pending[s].effects.send :
        Asks(m) => m.from = s /\ RequestOK(m)
    /\ \A m \in net : /\ Asks(m) => m.term <= disk[m.from].term /\ RequestOK(m)
                      /\ Grant(m) => m.term <= disk[m.to].term

\* What a process confirms to the leader of T, up to index j, it has
\* acknowledged, and keeps while it stays in that term.
Confirms(m) == m.type \in {"AppendEntriesResponse", "InstallSnapshotResponse"} /\ m.success
MatchOK(h, a, T, f, j) ==
    /\ j <= Len(h.full[T])
    /\ j > 0 =>
        /\ disk[f].term >= T
        /\ \A i \in 1..j : Own(h, T, i) => a[T][f] >= i
        /\ disk[f].term = T => Includes(h, disk[f], j, h.full[T][j].term)
        /\ node[f].term = T => Includes(h, node[f], j, h.full[T][j].term)
MatchesAcked(h, a) ==
    /\ \A s, f \in Server :
        node[s].role = Leader /\ f # s => MatchOK(h, a, node[s].term, f, node[s].matchIndex[f])
    /\ \A m \in net : Confirms(m) => MatchOK(h, a, m.term, m.from, m.matchIndex)
    /\ \A s \in Server : \A m \in pending[s].effects.send : Confirms(m) =>
        /\ m.from = s /\ m.term = node[s].term /\ m.matchIndex <= Len(h.full[m.term])
        /\ m.matchIndex > 0 => Includes(h, node[s], m.matchIndex, h.full[m.term][m.matchIndex].term)

\* Index c is at or below an entry chosen in a term up to T.
ChosenUpTo(h, a, T, c, e) ==
    \E t \in Terms : \E i \in 1..Len(h.full[t]) :
        t <= T /\ c <= i /\ Own(h, t, i) /\ Chosen(a, t, i) /\ h.full[t][c].term = e

\* The commit index of d is in its log, and chosen.
Committed(h, a, d) ==
    d.commit > 0 => \E e \in Terms :
        Includes(h, d, d.commit, e) /\ ChosenUpTo(h, a, d.term, d.commit, e)

\* A leader commits an entry of its own term that is acknowledged by a quorum
\* to which its own write, which records the commit index too, is added.
CommitsOwn(a, s) ==
    /\ pending[s].phase = "writing" /\ node[s].role = Leader
    /\ entryExists(node[s], node[s].commit)
    /\ termAt(node[s], node[s].commit) = node[s].term
    /\ \E Q \in SUBSET Server : /\ quorum(InitialMembership, Q)
                                /\ \A x \in Q \ {s} : a[node[s].term][x] >= node[s].commit

\* What a message carries is a part of the history of its term, and the commit
\* index, or the boundary of a snapshot, that it carries is chosen.
carriedCommit(m) == IF m.type = "AppendEntries" THEN m.leaderCommit ELSE m.snapshot.index
CarriedOK(h, a, m) ==
    /\ Within(carried(m), h.full[m.term]) /\ carriedCommit(m) <= lastIndex(carried(m))
    /\ carriedCommit(m) > 0 =>
        ChosenUpTo(h, a, m.term, carriedCommit(m), h.full[m.term][carriedCommit(m)].term)

\* A leader sends its log to the end, its commit index and its snapshot.
SendsLog(n, m) ==
    /\ n.role = Leader /\ m.term = n.term
    /\ m.type = "AppendEntries" => m.leaderCommit = n.commit /\ lastIndex(carried(m)) = lastIndex(n)
    /\ m.type = "InstallSnapshot" => m.snapshot = n.snap

\* The commit index lies in the log, at or above the snapshot.
CommitInLog(d) == d.snap.index <= d.commit /\ d.commit <= lastIndex(d)

CommitsChosen(h, a) ==
    /\ \A s \in Server :
        /\ TermsBounded(disk[s]) /\ TermsBounded(node[s])
        /\ CommitInLog(disk[s]) /\ CommitInLog(node[s])
        /\ Committed(h, a, disk[s])
        /\ Committed(h, a, node[s]) \/ CommitsOwn(a, s)
        /\ pending[s].phase # "writing" =>
            disk[s].log = node[s].log /\ disk[s].snap = node[s].snap /\ disk[s].commit = node[s].commit
        /\ \A m \in pending[s].effects.send : CarriesLog(m) => SendsLog(node[s], m)
    /\ \A m \in net : CarriesLog(m) => CarriedOK(h, a, m)

\* What the application was given, and what the pending effects still give it.
DeliveryOK(s) ==
    LET n == node[s]
        e == pending[s].effects
        base == IF e.install THEN n.snap.index ELSE store[s].applied
    IN  /\ e.install => store[s].applied <= n.snap.index
        /\ e.apply = (base + 1)..(IF up[s] THEN n.commit ELSE base)
        /\ up[s] => base <= n.commit /\ n.applied = n.commit
        /\ ~up[s] => n.applied = store[s].applied /\ pending[s] = NoPending
        /\ store[s].applied <= disk[s].commit
        /\ disk[s].commit <= n.commit /\ disk[s].snap.index <= n.snap.index

CommitInv(h, a) ==
    /\ HistoryTerms(h) /\ AcksOK(h, a)
    /\ \A x \in Server : AcksHeld(h, a, x, disk[x]) /\ AcksHeld(h, a, x, node[x])
    /\ LaterHolds(h, a) /\ VotesCovered(h, a) /\ MatchesAcked(h, a) /\ CommitsChosen(h, a)
    /\ \A s \in Server : DeliveryOK(s)
-----------------------------------------------------------------------------
(* Applications and checkpoints, while the configuration is the initial    *)
(* one.                                                                    *)

\* Index i is at or below an entry chosen in term t.
Settled(h, a, t, i) ==
    \E c \in 1..Len(h.full[t]) : i <= c /\ Own(h, t, c) /\ Chosen(a, t, c)

\* The commands of the first i entries of the history of t.
historyOf(h, t, i) == commandsOf(SubSeq(h.full[t], 1, i))

\* The state x is what the chosen entries up to index i make of an application.
Reached(h, a, i, x) ==
    IF i = 0 THEN x = <<>> ELSE \E t \in Terms : Settled(h, a, t, i) /\ x = historyOf(h, t, i)

\* Chosen entries, as an application receives them.
ChosenEntries(h, a) ==
    {e \in [index : Nat \ {0}, data : Command \cup {NoCommand}] :
        \E t \in Terms : Settled(h, a, t, e.index) /\ e.data = h.full[t][e.index].data}

SnapshotReached(h, a, p) == Reached(h, a, p.index, p.data)

StoreReached(h, a, st) ==
    /\ Reached(h, a, st.applied, st.history)
    /\ st.entries \in Seq(ChosenEntries(h, a))

\* The next entries for the application of s lie above its snapshot.
Attached(s) ==
    up[s] /\ ~pending[s].effects.install => node[s].snap.index <= store[s].applied

\* Every checkpoint, in memory, on disk or on its way, and every application
\* is what chosen entries made of it; stored entries are chosen ones.
ApplicationInv(h, a) ==
    /\ \A s \in Server :
        /\ SnapshotReached(h, a, disk[s].snap) /\ SnapshotReached(h, a, node[s].snap)
        /\ StoreReached(h, a, store[s]) /\ Attached(s)
    /\ \A m \in net : m.type = "InstallSnapshot" => SnapshotReached(h, a, m.snapshot)
=============================================================================
