------------------------- MODULE RaftElectionProofs -------------------------
(***************************************************************************)
(* Type correctness, votes and leaders, for every number of processes,     *)
(* every configuration and every bound, with configurations that change    *)
(* and processes that crash at any point of the persistence barrier.       *)
(*                                                                         *)
(* First the types: no term or index counter leaves its range, whatever    *)
(* messages, timers, crashes and restarts do.  A handler of the pure state *)
(* machine of raft/node.go that is given a well-typed node and a well-     *)
(* typed input returns a well-typed node and emits well-typed messages of  *)
(* its own. There is one lemma per handler, in the order of module         *)
(* RaftNode, and each rests on those of the helpers the handler calls.     *)
(* Then the cluster, where TypeOK alone is not inductive.  A leader        *)
(* subtracts one from nextIndex, a follower subtracts its snapshot         *)
(* boundary from indexes other processes sent: LogsAreBounded says why     *)
(* these stay in range, and PendingOK what the effects held back by the    *)
(* persistence barrier look like.                                          *)
(*                                                                         *)
(* Then the elections.  The argument follows a vote: the transition that   *)
(* gives it (VoteStep), the effects that wait for its write                *)
(* (PendingGrants), the write itself (WriteOK), and the places where       *)
(* another process may see it, a packet or the set of votes a candidate    *)
(* counts (Voted).  Whatever may be seen is on the voter's disk, and       *)
(* nothing else is ever seen for the same term.  VoteInv of RaftInvariant  *)
(* is inductive relative to TypeInv.  Quorums intersect, so one vote per   *)
(* term makes one leader.                                                  *)
(***************************************************************************)
EXTENDS RaftInvariant, FiniteSetTheorems, TLAPS, WellFoundedInduction

\* Every nonempty set of naturals has a least element.
LEMMA LeastElement ==
    ASSUME NEW T, T \subseteq Nat, T # {}
    PROVE  \E x \in T : \A y \in T : x <= y
<1>1. PICK x \in T : \A y \in T : ~(<<y, x>> \in OpToRel(<, Nat))
      BY WFMin, NatLessThanWellFounded
<1>2. \A y \in T : ~(y < x)
      BY <1>1 DEF OpToRel
<1> QED BY <1>2

\* A bounded nonempty set of naturals has a greatest element.
LEMMA GreatestElement ==
    ASSUME NEW T, T \subseteq Nat, T # {}, NEW k \in Nat, \A x \in T : x <= k
    PROVE  \E x \in T : \A y \in T : y <= x
<1> DEFINE D == {k - x : x \in T}
<1>1. D \subseteq Nat
      OBVIOUS
<1>2. D # {}
  <2>1. PICK x \in T : TRUE
        OBVIOUS
  <2> QED BY <2>1, k - x \in D
<1>3. PICK d \in D : \A e \in D : d <= e
      BY <1>1, <1>2, LeastElement
<1>4. PICK x \in T : d = k - x
      OBVIOUS
<1>5. ASSUME NEW y \in T PROVE y <= x
      BY <1>3, <1>4, k - y \in D
<1> QED BY <1>5

\* The first position handleAppendEntries picks is one of the positions.
LEMMA FirstOfType ==
    ASSUME NEW T, T \subseteq Nat, T # {}
    PROVE  firstOf(T) \in T /\ \A j \in T : firstOf(T) <= j
BY LeastElement DEF firstOf

\* The configuration the latest configuration entry prescribes is a
\* configuration (membershipAt scans the log for it).
LEMMA ConfigAfterType ==
    ASSUME NEW base \in Membership, NEW entries \in Seq(Entry),
           NEW k \in Int, k <= Len(entries)
    PROVE  configAfter(base, entries, k) \in Membership
<1> DEFINE configs == {j \in 1..k : isConfig(entries[j])}
<1>1. CASE configs = {}
      BY <1>1 DEF configAfter
<1>2. CASE configs # {}
  <2>1. configs \subseteq Nat /\ k \in Nat /\ \A x \in configs : x <= k
        BY <1>2
  <2>2. \E x \in configs : \A y \in configs : y <= x
        BY <2>1, <1>2, GreatestElement
  <2>3. PICK j \in configs : configAfter(base, entries, k) = entries[j].membership
        BY <1>2, <2>2 DEF configAfter
  <2>4. entries[j] \in Entry
        BY <2>3
  <2> QED BY <2>3, <2>4 DEF Entry
<1> QED BY <1>1, <1>2
-----------------------------------------------------------------------------
\* A well-typed node, with what its leader bookkeeping may refer to.
NodeInv(n) == NodeOK(n) /\ LogBounded(n) /\ ProgressBounded(n)

\* A well-typed message that its receiver can judge.
MessageInv(m) == MessageOK(m) /\ ProbeOK(m)

\* A list of effects that releases finitely many entries.
EffectsOK(e) ==
    /\ e = [f \in {"timers", "install", "apply", "send"} |-> e[f]]
    /\ e.install \in BOOLEAN /\ IsFiniteSet(e.apply)

\* Node id sends nothing in another node's name, and nothing ill-typed.
SendsOK(e, id) == \A m \in e.send : MessageInv(m) /\ m.from = id

\* What every transition r of node n establishes.
StepInv(n, r) ==
    /\ r = [f \in {"node", "dirty", "effects", "err"} |-> r[f]]
    /\ r.dirty \in BOOLEAN /\ r.err \in BOOLEAN
    /\ NodeInv(r.node) /\ r.node.id = n.id
    /\ EffectsOK(r.effects) /\ SendsOK(r.effects, n.id)

\* lastIndex is a natural number, at least the snapshot boundary.
LEMMA LastIndexType ==
    ASSUME NEW n, HardStateOK(n)
    PROVE  /\ lastIndex(n) \in Nat /\ n.snap.index \in Nat
           /\ Len(n.log) \in Nat /\ lastIndex(n) = n.snap.index + Len(n.log)
BY BoundAssumption DEF HardStateOK, SnapshotOK, lastIndex

\* entryAt on an index the log holds returns an entry of the log.
LEMMA EntryAtType ==
    ASSUME NEW n, HardStateOK(n), NEW i \in Nat, entryExists(n, i)
    PROVE  entryAt(n, i) \in Entry
<1>1. i - n.snap.index \in 1..Len(n.log)
      BY LastIndexType DEF entryExists
<1> QED BY <1>1 DEF entryAt, HardStateOK

\* termAt never leaves the range of terms, and is zero only where the log
\* holds nothing.
LEMMA TermAtType ==
    ASSUME NEW n, HardStateOK(n), NEW i \in Nat
    PROVE  /\ termAt(n, i) \in 0..MaxTerm
           /\ BoundaryOK(n.snap) /\ termAt(n, i) = 0 =>
                i = 0 \/ i < n.snap.index \/ i > lastIndex(n)
<1>1. entryExists(n, i) => entryAt(n, i).term \in 1..MaxTerm
      BY EntryAtType DEF Entry
<1>2. n.snap.term \in 0..MaxTerm /\ MaxTerm \in Nat
      BY BoundAssumption DEF HardStateOK, SnapshotOK
<1> QED BY <1>1, <1>2, LastIndexType DEF termAt, entryExists, BoundaryOK

\* A suffix of a sequence of entries is one, with the length left.
LEMMA SuffixType ==
    ASSUME NEW S, NEW s \in Seq(S), NEW from \in Nat, from > 0
    PROVE  /\ SubSeq(s, from, Len(s)) \in Seq(S)
           /\ Len(SubSeq(s, from, Len(s))) = IF from <= Len(s) THEN Len(s) - from + 1 ELSE 0
OBVIOUS

\* entriesFrom returns entries of the log, those from the index on.
LEMMA EntriesFromType ==
    ASSUME NEW n, HardStateOK(n), NEW i \in Nat
    PROVE  /\ entriesFrom(n, i) \in Seq(Entry)
           /\ n.snap.index < i /\ i <= lastIndex(n) + 1 =>
                Len(entriesFrom(n, i)) = lastIndex(n) + 1 - i
<1>1. n.log \in Seq(Entry)
      BY DEF HardStateOK
<1>2. CASE i <= n.snap.index
      BY <1>1, <1>2, LastIndexType DEF entriesFrom
<1>3. CASE ~(i <= n.snap.index)
  <2>1. i - n.snap.index \in Nat /\ i - n.snap.index > 0
        BY <1>3, LastIndexType
  <2>2. entriesFrom(n, i) = SubSeq(n.log, i - n.snap.index, Len(n.log))
        BY <1>3, Zenon DEF entriesFrom
  <2>3. /\ entriesFrom(n, i) \in Seq(Entry)
        /\ Len(entriesFrom(n, i)) = IF i - n.snap.index <= Len(n.log)
                                    THEN Len(n.log) - (i - n.snap.index) + 1 ELSE 0
        BY <1>1, <2>1, <2>2, SuffixType, Zenon
  <2>4. /\ n.snap.index \in Nat /\ Len(n.log) \in Nat
        /\ lastIndex(n) = n.snap.index + Len(n.log)
        BY LastIndexType
  <2>5. \A a, b \in Nat : a < i /\ i <= a + b + 1 =>
          (IF i - a <= b THEN b - (i - a) + 1 ELSE 0) = a + b + 1 - i
        OBVIOUS
  <2>6. \A a, b, x : /\ a \in Nat /\ b \in Nat /\ x = IF i - a <= b THEN b - (i - a) + 1 ELSE 0
                     => (a < i /\ i <= a + b + 1 => x = a + b + 1 - i)
        BY <2>5
  <2> QED BY <2>3, <2>4, <2>6, Zenon
<1> QED BY <1>2, <1>3

\* truncateFrom leaves a prefix of the log that ends before the index.
LEMMA TruncateFromType ==
    ASSUME NEW n, HardStateOK(n), NEW i \in Nat, i <= lastIndex(n) + 1
    PROVE  /\ truncateFrom(n, i) \in Seq(Entry)
           /\ n.snap.index < i => Len(truncateFrom(n, i)) = i - n.snap.index - 1
<1>1. n.log \in Seq(Entry)
      BY DEF HardStateOK
<1> QED BY <1>1, LastIndexType, SMTT(40) DEF truncateFrom

\* membershipAt returns a configuration at every index.
LEMMA MembershipAtType ==
    ASSUME NEW n, HardStateOK(n), NEW i \in Nat
    PROVE  membershipAt(n, i) \in Membership
<1>1. baseMembership(n) \in Membership /\ InitialMembership \in Membership
      BY InitialMembershipAssumption DEF baseMembership, HardStateOK, SnapshotOK
<1>2. ASSUME i >= n.snap.index
      PROVE  /\ minimum(i - n.snap.index, Len(n.log)) \in Int
             /\ minimum(i - n.snap.index, Len(n.log)) <= Len(n.log)
      BY <1>2, LastIndexType DEF minimum
<1>3. n.log \in Seq(Entry)
      BY DEF HardStateOK
<1> QED BY <1>1, <1>2, <1>3, LastIndexType, ConfigAfterType DEF membershipAt

\* refreshMembership changes the cached configuration and nothing else.
LEMMA RefreshType ==
    ASSUME NEW n, NodeInv(n)
    PROVE  /\ NodeInv(refreshMembership(n))
           /\ refreshMembership(n).id = n.id
           /\ refreshMembership(n).role = n.role
<1> DEFINE r == refreshMembership(n)
<1>1. HardStateOK(n)
      BY DEF NodeInv, NodeOK
<1>2. membershipAt(n, lastIndex(n)) \in Membership
      BY <1>1, LastIndexType, MembershipAtType
<1>3. r = [f \in NodeFields |-> IF f = "membership" THEN membershipAt(n, lastIndex(n)) ELSE n[f]]
      BY DEF NodeInv, NodeOK, refreshMembership, NodeFields
<1> HIDE DEF r
<1>4. /\ r = [f \in NodeFields |-> r[f]]
      /\ \A f \in NodeFields \ {"membership"} : r[f] = n[f]
      /\ r.membership \in Membership
      BY <1>2, <1>3 DEF NodeFields
<1>5. /\ r.term = n.term /\ r.votedFor = n.votedFor /\ r.commit = n.commit /\ r.snap = n.snap
      /\ r.log = n.log /\ r.id = n.id /\ r.role = n.role /\ r.leader = n.leader
      /\ r.applied = n.applied /\ r.electionMembership = n.electionMembership
      /\ r.votes = n.votes /\ r.electionVotes = n.electionVotes
      /\ r.nextIndex = n.nextIndex /\ r.matchIndex = n.matchIndex
      /\ r.appendSequence = n.appendSequence
      BY <1>4 DEF NodeFields
<1>6. NodeInv(r)
      BY <1>4, <1>5 DEF NodeInv, NodeOK, HardStateOK, LogBounded, ProgressBounded, lastIndex
<1> QED BY <1>5, <1>6 DEF r

\* The constants and zero values the handlers assign are in range.
LEMMA ConstantsType ==
    /\ NoMembership \in Membership /\ InitialMembership \in Membership
    /\ ZeroMap \in [Server -> 0..MaxIndex] /\ ZeroMap \in [Server -> Nat]
    /\ MaxTerm \in Nat /\ MaxIndex \in Nat /\ MaxTerm > 0 /\ MaxIndex > 0
BY BoundAssumption, InitialMembershipAssumption DEF NoMembership, Membership, ZeroMap

\* Returning no effect, or only a timer reset, is well-typed.
LEMMA NoEffectsType ==
    /\ EffectsOK(NoEffects) /\ EffectsOK(ResetElectionTimer)
    /\ NoEffects.send = {} /\ ResetElectionTimer.send = {}
BY FS_EmptySet DEF NoEffects, ResetElectionTimer, EffectsOK

\* So is returning messages.
LEMMA SendsType ==
    ASSUME NEW messages
    PROVE  EffectsOK(Sends(messages)) /\ Sends(messages).send = messages
BY FS_EmptySet DEF NoEffects, Sends, EffectsOK

\* So is appending one list of effects to another.
LEMMA ThenType ==
    ASSUME NEW e, NEW f, EffectsOK(e), EffectsOK(f)
    PROVE  EffectsOK(Then(e, f)) /\ Then(e, f).send = e.send \cup f.send
<1>1. IsFiniteSet(e.apply \cup f.apply)
      BY FS_Union DEF EffectsOK
<1> QED BY <1>1 DEF Then, EffectsOK

\* A well-typed node with well-typed effects is a well-typed transition.
LEMMA ResultType ==
    ASSUME NEW n, NEW k, NodeInv(k), k.id = n.id, NEW dirty \in BOOLEAN, NEW e,
           EffectsOK(e), SendsOK(e, n.id)
    PROVE  StepInv(n, Result(k, dirty, e))
BY DEF StepInv, Result

\* So is an error that leaves the node alone.
LEMMA FailureType ==
    ASSUME NEW n, NodeInv(n)
    PROVE  StepInv(n, Failure(n))
BY NoEffectsType DEF StepInv, Failure, SendsOK

\* becomeFollower at a term in range keeps the node well-typed, and the log.
LEMMA BecomeFollowerType ==
    ASSUME NEW n, NodeInv(n), NEW term \in 0..MaxTerm, NEW leader \in Server \cup {Nil}
    PROVE  LET b == becomeFollower(n, term, leader)
           IN  /\ NodeInv(b) /\ b.id = n.id /\ b.role = Follower
               /\ b.term = IF term > n.term THEN term ELSE n.term
               /\ b.snap = n.snap /\ b.log = n.log
<1> DEFINE b == becomeFollower(n, term, leader)
<1>1. /\ b = [f \in NodeFields |-> b[f]]
      /\ b.role = Follower /\ b.leader = leader
      /\ b.votes = {} /\ b.electionVotes = {} /\ b.electionMembership = NoMembership
      /\ b.nextIndex = ZeroMap /\ b.matchIndex = ZeroMap /\ b.appendSequence = ZeroMap
      /\ b.term = IF term > n.term THEN term ELSE n.term
      /\ b.votedFor = IF term > n.term THEN Nil ELSE n.votedFor
      /\ b.id = n.id /\ b.commit = n.commit /\ b.snap = n.snap /\ b.log = n.log
      /\ b.applied = n.applied /\ b.membership = n.membership
      BY DEF becomeFollower, NodeInv, NodeOK, NodeFields
<1> HIDE DEF b
<1>2. NodeInv(b)
      BY <1>1, ConstantsType
      DEF NodeInv, NodeOK, HardStateOK, LogBounded, ProgressBounded, lastIndex,
          Follower, Candidate, Leader
<1> QED BY <1>1, <1>2 DEF b

\* applyCommitted releases finitely many entries and changes only applied.
LEMMA ApplyCommittedType ==
    ASSUME NEW n, NodeInv(n)
    PROVE  LET r == applyCommitted(n)
           IN  /\ StepInv(n, r) /\ r.effects.send = {}
               /\ \A f \in NodeFields \ {"applied"} : r.node[f] = n[f]
<1> DEFINE k == [n EXCEPT !.applied = IF @ < n.commit THEN n.commit ELSE @]
           e == [NoEffects EXCEPT !.apply = (n.applied + 1)..n.commit]
<1>0. n.applied \in Nat /\ n.commit \in Nat /\ n = [f \in NodeFields |-> n[f]]
      BY ConstantsType DEF NodeInv, NodeOK, HardStateOK
<1>1. /\ k = [f \in NodeFields |-> k[f]]
      /\ \A f \in NodeFields \ {"applied"} : k[f] = n[f]
      /\ k.applied \in Nat
      BY <1>0 DEF NodeFields
<1>2. EffectsOK(e) /\ e.send = {}
  <2>1. n.applied + 1 \in Int /\ n.commit \in Int
        BY <1>0
  <2>2. IsFiniteSet((n.applied + 1)..n.commit)
        BY <2>1, FS_Interval
  <2> QED BY <2>2 DEF EffectsOK, NoEffects
<1>3. applyCommitted(n) = Result(k, FALSE, e)
      BY DEF applyCommitted
<1> HIDE DEF k, e
<1>4. NodeInv(k) /\ k.id = n.id
      BY <1>1
      DEF NodeInv, NodeOK, HardStateOK, LogBounded, ProgressBounded, lastIndex, NodeFields
<1>5. StepInv(n, Result(k, FALSE, e))
      BY <1>2, <1>4, ResultType DEF SendsOK
<1> QED BY <1>1, <1>2, <1>3, <1>5 DEF Result

\* advanceCommit keeps commit within the log's range, also when the leader
\* steps down because the committed configuration leaves it out.
LEMMA AdvanceCommitType ==
    ASSUME NEW n, NodeInv(n)
    PROVE  StepInv(n, advanceCommit(n)) /\ advanceCommit(n).effects.send = {}
<1> DEFINE index == CHOOSE i \in committable(n) : \A j \in committable(n) : j <= i
           committed == [n EXCEPT !.commit = index]
           applied == applyCommitted(committed)
           m == applied.node
           k == IF m.role = Leader /\ ~isVoter(m.membership, m.id)
                THEN becomeFollower(m, m.term, Nil) ELSE m
<1>1. CASE committable(n) = {}
  <2>1. advanceCommit(n) = Result(n, FALSE, NoEffects)
        BY <1>1 DEF advanceCommit
  <2>2. StepInv(n, Result(n, FALSE, NoEffects))
        BY ResultType, NoEffectsType DEF SendsOK
  <2> QED BY <2>1, <2>2, NoEffectsType DEF Result
<1>2. CASE committable(n) # {}
  <2>1. HardStateOK(n) /\ lastIndex(n) <= MaxIndex /\ n.commit \in Nat /\ MaxIndex \in Nat
        BY ConstantsType DEF NodeInv, NodeOK, LogBounded, HardStateOK
  <2>2. lastIndex(n) \in Nat
        BY <2>1, LastIndexType
  <2>3. committable(n) \subseteq Nat /\ \A i \in committable(n) : i <= lastIndex(n)
        BY <2>1, <2>2 DEF committable
  <2>4. index \in committable(n)
        BY <1>2, <2>2, <2>3, GreatestElement
  <2>5. index \in 0..MaxIndex
        BY <2>1, <2>2, <2>3, <2>4
  <2> HIDE DEF index
  <2>6. /\ committed = [f \in NodeFields |-> committed[f]]
        /\ \A f \in NodeFields \ {"commit"} : committed[f] = n[f]
        /\ committed.commit = index
        BY DEF NodeInv, NodeOK, NodeFields
  <2> HIDE DEF committed
  <2>7. NodeInv(committed) /\ committed.id = n.id
        BY <2>5, <2>6
        DEF NodeInv, NodeOK, HardStateOK, LogBounded, ProgressBounded, lastIndex, NodeFields
  <2>8. StepInv(committed, applied) /\ applied.effects.send = {}
        BY <2>7, ApplyCommittedType
  <2> HIDE DEF applied
  <2>9. NodeInv(m) /\ m.id = n.id /\ m.term \in 0..MaxTerm
        BY <2>7, <2>8 DEF StepInv, NodeInv, NodeOK, HardStateOK
  <2> HIDE DEF m
  <2>10. NodeInv(k) /\ k.id = n.id
        BY <2>9, BecomeFollowerType
  <2>11. advanceCommit(n) = Result(k, TRUE, applied.effects)
        BY <1>2 DEF advanceCommit, k, m, applied, committed, index
  <2> HIDE DEF k
  <2>12. EffectsOK(applied.effects) /\ SendsOK(applied.effects, n.id)
        BY <2>8 DEF StepInv, SendsOK
  <2>13. StepInv(n, Result(k, TRUE, applied.effects))
        BY <2>10, <2>12, ResultType
  <2> QED BY <2>8, <2>11, <2>13 DEF Result
<1> QED BY <1>1, <1>2

\* appendFor sends a well-typed append or snapshot: the index it subtracts one
\* from is positive, and only index 0 has the previous term 0.
LEMMA AppendMessageType ==
    ASSUME NEW n, NodeInv(n), n.role = Leader, NEW member \in Server, member # n.id
    PROVE  MessageInv(appendMessage(n, member)) /\ appendMessage(n, member).from = n.id
<1> DEFINE append(prev, entries) ==
              [type |-> "AppendEntries", from |-> n.id, to |-> member,
               term |-> n.term, sequence |-> n.appendSequence[member],
               prevLogIndex |-> prev, prevLogTerm |-> termAt(n, prev),
               entries |-> entries, leaderCommit |-> n.commit]
           next == n.nextIndex[member]
           install == [type |-> "InstallSnapshot", from |-> n.id, to |-> member,
                       term |-> n.term, sequence |-> n.appendSequence[member],
                       snapshot |-> n.snap]
<1>1. /\ HardStateOK(n) /\ n.id \in Server /\ n.term \in 1..MaxTerm
      /\ n.commit \in 0..MaxIndex /\ MaxIndex \in Nat /\ BoundaryOK(n.snap) /\ SnapshotOK(n.snap)
      /\ lastIndex(n) <= MaxIndex
      BY ConstantsType
      DEF NodeInv, NodeOK, HardStateOK, ProgressBounded, LogBounded, Leader, Follower
<1>2. /\ next \in 1..(lastIndex(n) + 1) /\ next \in 0..MaxIndex
      /\ n.matchIndex[member] \in 0..MaxIndex /\ n.matchIndex[member] <= lastIndex(n)
      BY DEF NodeInv, NodeOK, ProgressBounded
<1>3. lastIndex(n) \in Nat /\ n.snap.index \in Nat /\ n.snap.index <= lastIndex(n)
      BY <1>1, LastIndexType
<1>4. ASSUME NEW prev \in Nat, NEW entries \in Seq(Entry),
             n.snap.index <= prev, prev <= lastIndex(n)
      PROVE  MessageInv(append(prev, entries)) /\ append(prev, entries).from = n.id
  <2>1. termAt(n, prev) \in 0..MaxTerm /\ (termAt(n, prev) = 0 => prev = 0)
        BY <1>1, <1>3, <1>4, TermAtType
  <2>2. prev \in 0..MaxIndex
        BY <1>1, <1>3, <1>4
  <2> QED BY <1>1, <2>1, <2>2 DEF MessageInv, MessageOK, MessageTypes, ProbeOK
<1>5. MessageInv(install) /\ install.from = n.id
      BY <1>1 DEF MessageInv, MessageOK, MessageTypes, ProbeOK
<1>6. appendMessage(n, member) =
        IF n.matchIndex[member] = MaxIndex THEN append(MaxIndex, <<>>)
        ELSE IF next <= n.snap.index THEN install
        ELSE append(next - 1, entriesFrom(n, next))
      BY <1>2, <1>3 DEF appendMessage
<1>7. n.matchIndex[member] = MaxIndex => MaxIndex = lastIndex(n)
      BY <1>1, <1>2, <1>3
<1>8. ~(next <= n.snap.index) => next - 1 \in Nat /\ n.snap.index <= next - 1 /\ next - 1 <= lastIndex(n)
      BY <1>2, <1>3
<1>9. <<>> \in Seq(Entry) /\ entriesFrom(n, next) \in Seq(Entry)
  <2>1. next \in Nat
        BY <1>2, <1>3
  <2>2. entriesFrom(n, next) \in Seq(Entry)
        BY <1>1, <2>1, EntriesFromType
  <2> QED BY <2>2
<1> HIDE DEF append, next, install
<1>10. CASE n.matchIndex[member] = MaxIndex
      BY <1>1, <1>3, <1>4, <1>6, <1>7, <1>9, <1>10
<1>11. CASE n.matchIndex[member] # MaxIndex /\ next <= n.snap.index
      BY <1>5, <1>6, <1>11
<1>12. CASE n.matchIndex[member] # MaxIndex /\ ~(next <= n.snap.index)
  <2>1. appendMessage(n, member) = append(next - 1, entriesFrom(n, next))
        BY <1>6, <1>12
  <2> QED BY <1>4, <1>8, <1>9, <1>12, <2>1
<1> QED BY <1>10, <1>11, <1>12

\* Sending an append to some members counts it and is well-typed.
LEMMA AppendToType ==
    ASSUME NEW n, NodeInv(n), n.role = Leader, NEW members \in SUBSET (Server \ {n.id})
    PROVE  StepInv(n, appendTo(n, members))
<1> DEFINE sequence == [s \in Server |-> IF s \in members THEN n.appendSequence[s] + 1
                                         ELSE n.appendSequence[s]]
           m == [n EXCEPT !.appendSequence = sequence]
           messages == {appendMessage(m, s) : s \in members}
<1>1. sequence \in [Server -> Nat]
      BY DEF NodeInv, NodeOK
<1> HIDE DEF sequence
<1>2. /\ m = [f \in NodeFields |-> m[f]]
      /\ \A f \in NodeFields \ {"appendSequence"} : m[f] = n[f]
      /\ m.appendSequence = sequence
      BY DEF NodeInv, NodeOK, NodeFields
<1>3. appendTo(n, members) = Result(m, FALSE, Sends(messages))
      BY DEF appendTo, sequence
<1> HIDE DEF m
<1>4. NodeInv(m) /\ m.id = n.id /\ m.role = Leader
      BY <1>1, <1>2
      DEF NodeInv, NodeOK, HardStateOK, LogBounded, ProgressBounded, lastIndex, NodeFields
<1>5. EffectsOK(Sends(messages)) /\ SendsOK(Sends(messages), n.id)
  <2>1. \A s \in members : MessageInv(appendMessage(m, s)) /\ appendMessage(m, s).from = n.id
        BY <1>4, AppendMessageType
  <2> QED BY <2>1, SendsType DEF SendsOK
<1> QED BY <1>3, <1>4, <1>5, ResultType

\* So is broadcastAppend.
LEMMA BroadcastType ==
    ASSUME NEW n, NodeInv(n), n.role = Leader
    PROVE  StepInv(n, broadcastAppend(n))
BY AppendToType DEF broadcastAppend

\* A handler that ignores its input is well-typed.
LEMMA QuietType ==
    ASSUME NEW n, NodeInv(n)
    PROVE  StepInv(n, Result(n, FALSE, NoEffects))
BY ResultType, NoEffectsType DEF SendsOK

\* Appending the effects of a second result to a first one.
LEMMA ThenStepType ==
    ASSUME NEW n, NEW r, NEW q, StepInv(n, r), StepInv(r.node, q), NEW dirty \in BOOLEAN
    PROVE  StepInv(n, Result(q.node, dirty, Then(r.effects, q.effects)))
<1>1. /\ EffectsOK(r.effects) /\ EffectsOK(q.effects)
      /\ SendsOK(r.effects, n.id) /\ SendsOK(q.effects, n.id)
      /\ NodeInv(q.node) /\ q.node.id = n.id
      BY DEF StepInv
<1>2. EffectsOK(Then(r.effects, q.effects)) /\ SendsOK(Then(r.effects, q.effects), n.id)
      BY <1>1, ThenType DEF SendsOK
<1> QED BY <1>1, <1>2, ResultType

\* What a leader does after appending to its own log is well-typed.
LEMMA ReplicateType ==
    ASSUME NEW n, NodeInv(n), n.role = Leader
    PROVE  StepInv(n, replicate(n))
<1> DEFINE matched == [n EXCEPT !.matchIndex[n.id] = lastIndex(n)]
           advanced == advanceCommit(matched)
           sent == IF advanced.node.role = Leader THEN broadcastAppend(advanced.node)
                   ELSE Result(advanced.node, FALSE, NoEffects)
<1>1. lastIndex(n) \in 0..MaxIndex /\ n.id \in Server
      BY LastIndexType, ConstantsType DEF NodeInv, NodeOK, LogBounded
<1>2. /\ matched = [f \in NodeFields |-> matched[f]]
      /\ \A f \in NodeFields \ {"matchIndex"} : matched[f] = n[f]
      /\ matched.matchIndex = [n.matchIndex EXCEPT ![n.id] = lastIndex(n)]
      BY DEF NodeInv, NodeOK, NodeFields
<1> HIDE DEF matched
<1>3. /\ matched.matchIndex \in [Server -> 0..MaxIndex]
      /\ \A f \in Server : matched.matchIndex[f] <= lastIndex(n)
      BY <1>1, <1>2, SMTT(40) DEF NodeInv, NodeOK, ProgressBounded
<1>4. NodeInv(matched) /\ matched.id = n.id
      BY <1>2, <1>3
      DEF NodeInv, NodeOK, HardStateOK, LogBounded, ProgressBounded, lastIndex, NodeFields
<1>5. StepInv(matched, advanced)
      BY <1>4, AdvanceCommitType
<1>6. replicate(n) = Result(sent.node, TRUE, Then(advanced.effects, sent.effects))
      BY DEF replicate, matched
<1> HIDE DEF advanced
<1>7. StepInv(n, advanced)
      BY <1>4, <1>5 DEF StepInv
<1>8. NodeInv(advanced.node)
      BY <1>7 DEF StepInv
<1>9. StepInv(advanced.node, sent)
      BY <1>8, BroadcastType, QuietType
<1> HIDE DEF sent
<1> QED BY <1>6, <1>7, <1>9, ThenStepType

\* A leader whose log is not full may append an entry of its own term.
LEMMA LogEntryType ==
    ASSUME NEW n, NodeInv(n), n.role = Leader, lastIndex(n) # MaxIndex,
           NEW type \in EntryTypes, NEW data \in Command \cup {NoCommand},
           NEW membership \in Membership
    PROVE  LET k == [n EXCEPT !.log = Append(@, newEntry(n, type, data, membership))]
           IN  NodeInv(k) /\ k.id = n.id /\ k.role = Leader
<1> DEFINE e == newEntry(n, type, data, membership)
           k == [n EXCEPT !.log = Append(@, e)]
<1>1. n.log \in Seq(Entry) /\ HardStateOK(n) /\ n.term \in 1..MaxTerm
      BY ConstantsType
      DEF NodeInv, NodeOK, HardStateOK, ProgressBounded, Leader, Follower
<1>2. /\ lastIndex(n) \in Nat /\ lastIndex(n) + 1 <= MaxIndex /\ n.snap.index \in Nat
      /\ lastIndex(n) = n.snap.index + Len(n.log)
      BY <1>1, LastIndexType, ConstantsType DEF NodeInv, LogBounded
<1>3. e \in Entry
      BY <1>1 DEF newEntry, Entry
<1>4. /\ k = [f \in NodeFields |-> k[f]]
      /\ \A f \in NodeFields \ {"log"} : k[f] = n[f]
      /\ k.log = Append(n.log, e)
      BY DEF NodeInv, NodeOK, NodeFields
<1> HIDE DEF e, k
<1>5. k.log = Append(n.log, e)
      BY <1>4
<1>6. k.log \in Seq(Entry)
      BY <1>1, <1>3, <1>5
<1>7. Len(k.log) = Len(n.log) + 1
      BY <1>1, <1>3, <1>5
<1>8. /\ k.snap = n.snap /\ k.term = n.term /\ k.role = n.role /\ k.id = n.id
      /\ k.nextIndex = n.nextIndex /\ k.matchIndex = n.matchIndex
      BY <1>4 DEF NodeFields
<1>9. lastIndex(k) = lastIndex(n) + 1
  <2>1. lastIndex(k) = n.snap.index + Len(k.log)
        BY <1>8 DEF lastIndex
  <2>2. Len(n.log) \in Nat
        BY <1>1
  <2> QED BY <1>2, <1>7, <2>1, <2>2
<1>10. NodeOK(k)
      BY <1>4, <1>6 DEF NodeInv, NodeOK, HardStateOK, NodeFields
<1>11. LogBounded(k)
      BY <1>2, <1>8, <1>9 DEF NodeInv, LogBounded
<1>12. ProgressBounded(k)
  <2>1. ASSUME NEW f \in Server
        PROVE  n.nextIndex[f] \in 1..(lastIndex(n) + 1) /\ n.matchIndex[f] <= lastIndex(n)
        BY DEF NodeInv, ProgressBounded
  <2>2. ASSUME NEW f \in Server
        PROVE  n.matchIndex[f] \in Nat
        BY ConstantsType DEF NodeInv, NodeOK
  <2>3. k.term > 0
        BY <1>1, <1>8
  <2> QED BY <1>2, <1>8, <1>9, <2>1, <2>2, <2>3 DEF ProgressBounded
<1> QED BY <1>8, <1>10, <1>11, <1>12 DEF NodeInv, k, e

\* The leader becomeLeader makes of a candidate, before it replicates.
elect(n) ==
    [n EXCEPT !.role = Leader, !.leader = n.id,
              !.electionVotes = n.votes,
              !.electionMembership = n.membership,
              !.nextIndex = [s \in Server |-> lastIndex(n) + 1],
              !.matchIndex = ZeroMap,
              !.appendSequence = ZeroMap,
              !.log = Append(@, newEntry(n, "noop", NoCommand, NoMembership))]

\* It is well-typed unless the log is full, and has one entry more.
LEMMA ElectType ==
    ASSUME NEW n, NodeInv(n), n.role = Candidate, lastIndex(n) # MaxIndex
    PROVE  LET k == elect(n)
               e == newEntry(n, "noop", NoCommand, NoMembership)
           IN  /\ NodeInv(k) /\ k.id = n.id /\ k.role = Leader /\ k.term = n.term
               /\ k.snap = n.snap /\ k.membership = n.membership
               /\ k.electionMembership = n.membership
               /\ e \in Entry /\ k.log = Append(n.log, e)
<1> DEFINE start == [n EXCEPT !.role = Leader, !.leader = n.id,
                              !.electionVotes = n.votes,
                              !.electionMembership = n.membership,
                              !.nextIndex = [s \in Server |-> lastIndex(n) + 1],
                              !.matchIndex = ZeroMap,
                              !.appendSequence = ZeroMap]
           e == newEntry(start, "noop", NoCommand, NoMembership)
           elected == [start EXCEPT !.log = Append(@, e)]
<1>1. /\ lastIndex(n) \in Nat /\ lastIndex(n) + 1 \in 0..MaxIndex /\ n.term > 0
      /\ n.term \in 1..MaxTerm
  <2>1. /\ lastIndex(n) \in Nat /\ lastIndex(n) + 1 \in 0..MaxIndex /\ n.term > 0
        BY LastIndexType, ConstantsType
        DEF NodeInv, NodeOK, LogBounded, ProgressBounded, Candidate, Follower
  <2>2. n.term \in 0..MaxTerm /\ MaxTerm \in Nat
        BY ConstantsType DEF NodeInv, NodeOK, HardStateOK
  <2> QED BY <2>1, <2>2
<1>2. /\ start = [f \in NodeFields |-> start[f]]
      /\ \A f \in NodeFields \ {"role", "leader", "electionVotes", "electionMembership",
                                "nextIndex", "matchIndex", "appendSequence"} : start[f] = n[f]
      /\ start.role = Leader /\ start.leader = n.id /\ start.electionVotes = n.votes
      /\ start.electionMembership = n.membership
      /\ start.nextIndex = [s \in Server |-> lastIndex(n) + 1]
      /\ start.matchIndex = ZeroMap /\ start.appendSequence = ZeroMap
      BY DEF NodeInv, NodeOK, NodeFields
<1>3. elect(n) = elected /\ e = newEntry(n, "noop", NoCommand, NoMembership)
      BY DEF elect, NodeInv, NodeOK, NodeFields, newEntry
<1> HIDE DEF start
<1>4. NodeOK(start) /\ start.id = n.id
      BY <1>1, <1>2, ConstantsType DEF NodeInv, NodeOK, HardStateOK, NodeFields
<1>5. LogBounded(start) /\ lastIndex(start) = lastIndex(n)
      BY <1>2 DEF NodeInv, LogBounded, lastIndex, NodeFields
<1>6. ProgressBounded(start)
      BY <1>1, <1>2, <1>5 DEF ProgressBounded, ZeroMap, NodeFields, NodeInv
<1>7. NodeInv(start) /\ start.role = Leader /\ lastIndex(start) # MaxIndex
      BY <1>2, <1>4, <1>5, <1>6 DEF NodeInv
<1>8. /\ "noop" \in EntryTypes /\ NoCommand \in Command \cup {NoCommand}
      /\ NoMembership \in Membership
      BY ConstantsType DEF EntryTypes
<1>9. NodeInv(elected) /\ elected.id = n.id /\ elected.role = Leader
  <2>1. NodeInv(elected) /\ elected.id = start.id /\ elected.role = Leader
        BY <1>7, <1>8, LogEntryType, Zenon
  <2> HIDE DEF elected
  <2> QED BY <1>4, <2>1
<1>10. newEntry(n, "noop", NoCommand, NoMembership) \in Entry
      BY <1>1, <1>8, Zenon DEF newEntry, Entry
<1> HIDE DEF e
<1>11. /\ elected.term = n.term /\ elected.snap = n.snap /\ elected.membership = n.membership
       /\ elected.electionMembership = n.membership /\ elected.log = Append(n.log, e)
      BY <1>2 DEF NodeFields
<1> HIDE DEF elected
<1> QED BY <1>3, <1>9, <1>10, <1>11

\* A candidate with a quorum becomes a well-typed leader, unless its log is
\* full (becomeLeader returns ErrIndexExhausted).
LEMMA BecomeLeaderType ==
    ASSUME NEW n, NodeInv(n), n.role = Candidate
    PROVE  StepInv(n, becomeLeader(n))
<1> DEFINE r == replicate(elect(n))
<1>1. CASE lastIndex(n) = MaxIndex
      BY <1>1, FailureType DEF becomeLeader
<1>2. CASE lastIndex(n) # MaxIndex
  <2>1. becomeLeader(n) = Result(r.node, TRUE, [r.effects EXCEPT !.timers = {"heartbeat"}])
        BY <1>2 DEF becomeLeader, elect
  <2>2. NodeInv(elect(n)) /\ elect(n).id = n.id /\ elect(n).role = Leader
        BY <1>2, ElectType
  <2>3. StepInv(n, r)
        BY <2>2, ReplicateType DEF StepInv
  <2> HIDE DEF r
  <2>4. LET e == [r.effects EXCEPT !.timers = {"heartbeat"}]
        IN  EffectsOK(e) /\ SendsOK(e, n.id)
        BY <2>3 DEF StepInv, EffectsOK, SendsOK
  <2>5. NodeInv(r.node) /\ r.node.id = n.id
        BY <2>3 DEF StepInv
  <2> QED BY <2>1, <2>4, <2>5, ResultType
<1> QED BY <1>1, <1>2

\* An election timeout keeps the node well-typed: the exhaustion check stops
\* the term counter from wrapping.
LEMMA ElectionTimeoutType ==
    ASSUME NEW n, NodeInv(n)
    PROVE  StepInv(n, electionTimeout(n))
<1> DEFINE c == [n EXCEPT !.role = Candidate, !.leader = Nil, !.term = @ + 1,
                          !.votedFor = n.id, !.votes = {n.id}, !.electionVotes = {},
                          !.nextIndex = ZeroMap, !.matchIndex = ZeroMap,
                          !.appendSequence = ZeroMap]
           request(s) == [type |-> "RequestVote", from |-> n.id, to |-> s,
                          term |-> c.term, lastLogIndex |-> lastIndex(c),
                          lastLogTerm |-> lastTerm(c)]
           requests == {request(s) : s \in voterUnion(c.membership) \ {n.id}}
<1>1. CASE ~isVoter(n.membership, n.id) \/ n.term = MaxTerm
      BY <1>1, FailureType, QuietType DEF electionTimeout
<1>2. CASE isVoter(n.membership, n.id) /\ n.term # MaxTerm
  <2>1. n.term + 1 \in 1..MaxTerm /\ n.term \in Nat
    <3>1. n.term \in 0..MaxTerm /\ MaxTerm \in Nat
          BY ConstantsType DEF NodeInv, NodeOK, HardStateOK
    <3> QED BY <1>2, <3>1
  <2>2. /\ c = [f \in NodeFields |-> c[f]]
        /\ \A f \in NodeFields \ {"role", "leader", "term", "votedFor", "votes",
                "electionVotes", "nextIndex", "matchIndex", "appendSequence"} : c[f] = n[f]
        /\ c.role = Candidate /\ c.leader = Nil /\ c.term = n.term + 1 /\ c.votedFor = n.id
        /\ c.votes = {n.id} /\ c.electionVotes = {} /\ c.nextIndex = ZeroMap
        /\ c.matchIndex = ZeroMap /\ c.appendSequence = ZeroMap
        BY DEF NodeInv, NodeOK, NodeFields
  <2>3. electionTimeout(n) =
            IF quorum(c.membership, {n.id})
            THEN IF lastIndex(n) = MaxIndex THEN Failure(n)
                 ELSE [becomeLeader(c) EXCEPT !.effects = Then(ResetElectionTimer, @)]
            ELSE Result(c, TRUE, Then(ResetElectionTimer, Sends(requests)))
        BY <1>2 DEF electionTimeout, startElection
  <2> HIDE DEF c
  <2>4. NodeOK(c) /\ c.id = n.id
    <3>1. /\ c.id = n.id /\ c.commit = n.commit /\ c.snap = n.snap /\ c.log = n.log
          /\ c.applied = n.applied /\ c.membership = n.membership
          /\ c.electionMembership = n.electionMembership
          BY <2>2 DEF NodeFields
    <3>2. c.term \in 0..MaxTerm
          BY <2>1, <2>2, ConstantsType
    <3> QED BY <2>2, <3>1, <3>2, ConstantsType DEF NodeInv, NodeOK, HardStateOK
  <2>5. LogBounded(c) /\ ProgressBounded(c)
    <3>1. c.snap = n.snap /\ c.log = n.log /\ c.role = Candidate /\ c.term > 0
          BY <2>1, <2>2 DEF NodeFields
    <3> QED BY <3>1 DEF NodeInv, LogBounded, ProgressBounded, lastIndex, Leader, Candidate
  <2>6. StepInv(n, Result(c, TRUE, Then(ResetElectionTimer, Sends(requests))))
    <3>1. ASSUME NEW s \in voterUnion(c.membership) \ {n.id}
          PROVE  MessageInv(request(s)) /\ request(s).from = n.id
      <4>1. s \in Server \ {n.id} /\ n.id \in Server
            BY <2>4 DEF voterUnion, NodeOK, Membership
      <4>2. c.term \in 1..MaxTerm
            BY <2>1, <2>2
      <4> QED BY <4>1, <4>2 DEF MessageInv, MessageOK, MessageTypes, ProbeOK
    <3>2. \A m \in requests : MessageInv(m) /\ m.from = n.id
          BY <3>1
    <3> HIDE DEF requests
    <3>3. LET e == Then(ResetElectionTimer, Sends(requests))
          IN  EffectsOK(e) /\ SendsOK(e, n.id)
          BY <3>2, NoEffectsType, SendsType, ThenType DEF SendsOK
    <3> QED BY <2>4, <2>5, <3>3, ResultType DEF NodeInv
  <2>7. StepInv(n, [becomeLeader(c) EXCEPT !.effects = Then(ResetElectionTimer, @)])
    <3> DEFINE r == becomeLeader(c)
    <3>1. StepInv(n, r)
          BY <2>2, <2>4, <2>5, BecomeLeaderType DEF NodeInv, StepInv
    <3> HIDE DEF r
    <3>2. LET e == Then(ResetElectionTimer, r.effects)
          IN  EffectsOK(e) /\ SendsOK(e, n.id)
          BY <3>1, NoEffectsType, ThenType DEF SendsOK, StepInv
    <3>3. StepInv(n, [r EXCEPT !.effects = Then(ResetElectionTimer, @)])
          BY <3>1, <3>2 DEF StepInv
    <3> QED BY <3>3 DEF r
  <2> QED BY <2>3, <2>6, <2>7, FailureType
<1> QED BY <1>1, <1>2

\* So does a heartbeat timeout.
LEMMA HeartbeatTimeoutType ==
    ASSUME NEW n, NodeInv(n)
    PROVE  StepInv(n, heartbeatTimeout(n))
<1> DEFINE r == broadcastAppend(n)
<1>1. CASE n.role # Leader
      BY <1>1, QuietType DEF heartbeatTimeout
<1>2. CASE n.role = Leader
  <2>1. StepInv(n, r)
        BY <1>2, BroadcastType
  <2>2. heartbeatTimeout(n) = [r EXCEPT !.effects.timers = {"heartbeat"}]
        BY <1>2 DEF heartbeatTimeout
  <2> HIDE DEF r
  <2> QED BY <2>1, <2>2 DEF StepInv, EffectsOK, SendsOK
<1> QED BY <1>1, <1>2

\* So does a proposal.
LEMMA ProposalType ==
    ASSUME NEW n, NodeInv(n), NEW command \in Command
    PROVE  StepInv(n, proposal(n, command))
<1> DEFINE refused == \/ n.role # Leader
                      \/ ~isVoter(n.membership, n.id)
                      \/ hasUncommittedConfiguration(n)
                      \/ lastIndex(n) = MaxIndex
           k == [n EXCEPT !.log = Append(@, newEntry(n, "command", command, NoMembership))]
<1>1. CASE refused
      BY <1>1, FailureType DEF proposal
<1>2. CASE ~refused
  <2>1. /\ "command" \in EntryTypes /\ command \in Command \cup {NoCommand}
        /\ NoMembership \in Membership /\ n.role = Leader /\ lastIndex(n) # MaxIndex
        BY <1>2, ConstantsType DEF EntryTypes
  <2>2. NodeInv(k) /\ k.id = n.id /\ k.role = Leader
        BY <2>1, LogEntryType, Zenon
  <2>3. proposal(n, command) = replicate(k)
        BY <1>2 DEF proposal
  <2> HIDE DEF k
  <2> QED BY <2>2, <2>3, ReplicateType DEF StepInv
<1> QED BY <1>1, <1>2

\* So does appending a configuration entry.
LEMMA AppendMembershipType ==
    ASSUME NEW n, NodeInv(n), n.role = Leader, lastIndex(n) # MaxIndex,
           NEW type \in {"joint", "final"}, NEW membership \in Membership
    PROVE  StepInv(n, appendMembershipEntry(n, type, membership))
<1> DEFINE k == [n EXCEPT !.log = Append(@, newEntry(n, type, NoCommand, membership))]
           r == refreshMembership(k)
<1>1. type \in EntryTypes /\ NoCommand \in Command \cup {NoCommand}
      BY DEF EntryTypes
<1>2. NodeInv(k) /\ k.id = n.id /\ k.role = Leader
      BY <1>1, LogEntryType, Zenon
<1>3. \/ appendMembershipEntry(n, type, membership) = Failure(n)
      \/ appendMembershipEntry(n, type, membership) = replicate(r)
      BY Zenon DEF appendMembershipEntry
<1> HIDE DEF k
<1>4. NodeInv(r) /\ r.id = n.id /\ r.role = Leader
      BY <1>2, RefreshType
<1> HIDE DEF r
<1> QED BY <1>3, <1>4, FailureType, ReplicateType DEF StepInv

\* So does beginning a membership change.
LEMMA BeginMembershipType ==
    ASSUME NEW n, NodeInv(n), NEW voters \in SUBSET Server, NEW learners \in SUBSET Server
    PROVE  StepInv(n, beginMembership(n, voters, learners))
<1> DEFINE joint == [voters |-> voters, outgoing |-> n.membership.voters,
                     learners |-> learners \ n.membership.voters,
                     learnersNext |-> learners]
<1>1. joint \in Membership
      BY DEF NodeInv, NodeOK, Membership
<1>2. \/ beginMembership(n, voters, learners) = Failure(n)
      \/ /\ n.role = Leader /\ lastIndex(n) # MaxIndex
         /\ beginMembership(n, voters, learners) = appendMembershipEntry(n, "joint", joint)
      BY Zenon DEF beginMembership
<1> HIDE DEF joint
<1> QED BY <1>1, <1>2, FailureType, AppendMembershipType

\* So does finalizing one.
LEMMA FinalizeMembershipType ==
    ASSUME NEW n, NodeInv(n)
    PROVE  StepInv(n, finalizeMembership(n))
<1> DEFINE final == stableMembership(n.membership.voters, n.membership.learnersNext)
<1>1. final \in Membership
      BY DEF NodeInv, NodeOK, Membership, stableMembership
<1>2. \/ finalizeMembership(n) = Failure(n)
      \/ /\ n.role = Leader /\ lastIndex(n) # MaxIndex
         /\ finalizeMembership(n) = appendMembershipEntry(n, "final", final)
      BY Zenon DEF finalizeMembership
<1> HIDE DEF final
<1> QED BY <1>1, <1>2, FailureType, AppendMembershipType

\* So does compacting the log through an applied index.
LEMMA TakeSnapshotType ==
    ASSUME NEW n, NodeInv(n), NEW index \in Nat, NEW data
    PROVE  StepInv(n, takeSnapshot(n, index, data))
<1> DEFINE refused == \/ index = 0 \/ index <= n.snap.index \/ index > n.applied
                      \/ index > n.commit \/ termAt(n, index) = 0
           snap == [index |-> index, term |-> termAt(n, index),
                    membership |-> membershipAt(n, index), data |-> data]
           log == entriesFrom(n, index + 1)
           k == [n EXCEPT !.snap = snap, !.log = log]
<1>1. CASE refused
      BY <1>1, FailureType DEF takeSnapshot
<1>2. CASE ~refused
  <2>1. HardStateOK(n) /\ lastIndex(n) <= MaxIndex
        BY DEF NodeInv, NodeOK, LogBounded
  <2>2. /\ lastIndex(n) \in Nat /\ n.snap.index \in Nat /\ MaxIndex \in Nat /\ MaxTerm \in Nat
        /\ termAt(n, index) \in 0..MaxTerm
        BY <2>1, LastIndexType, TermAtType, ConstantsType
  <2>3. index > n.snap.index /\ index <= lastIndex(n)
    <3>1. index # n.snap.index /\ index # 0 /\ termAt(n, index) # 0 /\ index > n.snap.index
          BY <1>2, <2>2
    <3>2. entryExists(n, index)
          BY <3>1 DEF termAt
    <3> QED BY <3>1, <3>2 DEF entryExists
  <2>4. log \in Seq(Entry) /\ Len(log) = lastIndex(n) - index
    <3>1. index + 1 \in Nat /\ n.snap.index < index + 1 /\ index + 1 <= lastIndex(n) + 1
          BY <2>2, <2>3
    <3>2. log \in Seq(Entry) /\ Len(log) = lastIndex(n) + 1 - (index + 1)
          BY <2>1, <3>1, EntriesFromType
    <3> QED BY <2>2, <3>2
  <2>5. SnapshotOK(snap) /\ BoundaryOK(snap) /\ snap.index = index
    <3>1. membershipAt(n, index) \in Membership
          BY <2>1, MembershipAtType
    <3>2. index \in 0..MaxIndex
          BY <2>1, <2>2, <2>3
    <3>3. termAt(n, index) > 0 /\ index > 0
          BY <1>2, <2>2
    <3>4. snap.index = index /\ snap.term = termAt(n, index)
          /\ snap.membership = membershipAt(n, index)
          OBVIOUS
    <3>5. BoundaryOK(snap)
          BY <3>3, <3>4 DEF BoundaryOK
    <3>6. SnapshotOK(snap)
          BY <2>2, <3>1, <3>2, <3>4 DEF SnapshotOK
    <3> QED BY <3>4, <3>5, <3>6
  <2>6. takeSnapshot(n, index, data) = Result(refreshMembership(k), TRUE, NoEffects)
        BY <1>2, Zenon DEF takeSnapshot
  <2> HIDE DEF snap, log
  <2>7. /\ k = [f \in NodeFields |-> k[f]]
        /\ \A f \in NodeFields \ {"snap", "log"} : k[f] = n[f]
        /\ k.snap = snap /\ k.log = log
        BY DEF NodeInv, NodeOK, NodeFields
  <2> HIDE DEF k
  <2>8. lastIndex(k) = lastIndex(n)
        BY <2>2, <2>4, <2>5, <2>7 DEF lastIndex
  <2>9. NodeOK(k) /\ k.id = n.id
        BY <2>4, <2>5, <2>7 DEF NodeInv, NodeOK, HardStateOK, NodeFields
  <2>10. LogBounded(k)
        BY <2>1, <2>5, <2>7, <2>8 DEF LogBounded
  <2>11. ProgressBounded(k)
    <3>1. /\ k.role = n.role /\ k.term = n.term /\ k.nextIndex = n.nextIndex
          /\ k.matchIndex = n.matchIndex
          BY <2>7 DEF NodeFields
    <3> QED BY <2>8, <3>1 DEF NodeInv, ProgressBounded
  <2>12. NodeInv(refreshMembership(k)) /\ refreshMembership(k).id = n.id
        BY <2>9, <2>10, <2>11, RefreshType DEF NodeInv
  <2> QED BY <2>6, <2>12, NoEffectsType, ResultType DEF SendsOK
<1> QED BY <1>1, <1>2

\* One answer, after a reset of the election timer or not.
LEMMA AnswerType ==
    ASSUME NEW n, NEW answer, MessageInv(answer), answer.from = n.id
    PROVE  /\ EffectsOK(Sends({answer})) /\ SendsOK(Sends({answer}), n.id)
           /\ EffectsOK(Then(ResetElectionTimer, Sends({answer})))
           /\ SendsOK(Then(ResetElectionTimer, Sends({answer})), n.id)
           /\ EffectsOK(Then(NoEffects, Sends({answer})))
           /\ SendsOK(Then(NoEffects, Sends({answer})), n.id)
BY NoEffectsType, SendsType, ThenType DEF SendsOK

\* So does a vote request.
LEMMA HandleRequestVoteType ==
    ASSUME NEW n, NodeInv(n), NEW m, MessageInv(m), m.to = n.id, m.term <= n.term
    PROVE  StepInv(n, handleRequestVote(n, m))
<1> DEFINE granted == voteGranted(n, m)
           voted == IF granted THEN [n EXCEPT !.votedFor = m.from] ELSE n
           response == [type |-> "RequestVoteResponse", from |-> n.id, to |-> m.from,
                        term |-> n.term, voteGranted |-> granted]
           effects == Then(IF granted THEN ResetElectionTimer ELSE NoEffects, Sends({response}))
           dirty == granted /\ n.votedFor # m.from
<1>1. /\ m.from \in Server /\ n.id \in Server \ {m.from} /\ n.term \in 1..MaxTerm
      BY ConstantsType DEF MessageInv, MessageOK, NodeInv, NodeOK, HardStateOK
<1>2. granted \in BOOLEAN
      BY DEF voteGranted
<1>3. MessageInv(response) /\ response.from = n.id
      BY <1>1, <1>2 DEF MessageInv, MessageOK, MessageTypes, ProbeOK
<1>4. NodeInv(voted) /\ voted.id = n.id
  <2>1. CASE granted
    <3>1. /\ voted = [f \in NodeFields |-> voted[f]]
          /\ \A f \in NodeFields \ {"votedFor"} : voted[f] = n[f]
          /\ voted.votedFor = m.from
          BY <2>1 DEF NodeInv, NodeOK, NodeFields
    <3> HIDE DEF voted
    <3> QED BY <1>1, <3>1
        DEF NodeInv, NodeOK, HardStateOK, LogBounded, ProgressBounded, lastIndex, NodeFields
  <2>2. CASE ~granted
        BY <2>2
  <2> QED BY <2>1, <2>2
<1>5. handleRequestVote(n, m) = Result(voted, dirty, effects)
      BY DEF handleRequestVote
<1> HIDE DEF voted, response, granted
<1>6. EffectsOK(effects) /\ SendsOK(effects, n.id)
      BY <1>3, AnswerType
<1>7. dirty \in BOOLEAN
      BY <1>2
<1> HIDE DEF effects, dirty
<1> QED BY <1>4, <1>5, <1>6, <1>7, ResultType

\* So does a vote, also the one that completes a quorum.
LEMMA HandleRequestVoteResponseType ==
    ASSUME NEW n, NodeInv(n), NEW m, MessageInv(m)
    PROVE  StepInv(n, handleRequestVoteResponse(n, m))
<1> DEFINE counted == [n EXCEPT !.votes = @ \cup {m.from}]
<1>1. \/ handleRequestVoteResponse(n, m) = Result(n, FALSE, NoEffects)
      \/ n.role = Candidate /\ handleRequestVoteResponse(n, m) = becomeLeader(counted)
      \/ handleRequestVoteResponse(n, m) = Result(counted, FALSE, NoEffects)
      BY Zenon DEF handleRequestVoteResponse
<1>2. /\ counted = [f \in NodeFields |-> counted[f]]
      /\ \A f \in NodeFields \ {"votes"} : counted[f] = n[f]
      /\ counted.votes = n.votes \cup {m.from}
      BY DEF NodeInv, NodeOK, NodeFields
<1>3. m.from \in Server
      BY DEF MessageInv, MessageOK
<1> HIDE DEF counted
<1>4. NodeInv(counted) /\ counted.id = n.id /\ counted.role = n.role
      BY <1>2, <1>3
      DEF NodeInv, NodeOK, HardStateOK, LogBounded, ProgressBounded, lastIndex, NodeFields
<1>5. StepInv(n, Result(counted, FALSE, NoEffects))
      BY <1>4, NoEffectsType, ResultType DEF SendsOK
<1>6. n.role = Candidate => StepInv(n, becomeLeader(counted))
      BY <1>4, BecomeLeaderType DEF StepInv
<1> QED BY <1>1, <1>5, <1>6, QuietType

\* Following the sender of an append keeps term and log.
LEMMA FollowSenderType ==
    ASSUME NEW n, NodeInv(n), NEW m, MessageInv(m), m.term <= n.term
    PROVE  LET f == followSender(n, m)
           IN  /\ NodeInv(f) /\ f.id = n.id /\ f.role = Follower /\ f.term = n.term
               /\ f.snap = n.snap /\ f.log = n.log
<1>1. m.term \in 0..MaxTerm /\ m.from \in Server \cup {Nil} /\ m.term \in Nat
      BY ConstantsType DEF MessageInv, MessageOK
<1>2. ~(m.term > n.term)
  <2>1. n.term \in Nat
        BY ConstantsType DEF NodeInv, NodeOK, HardStateOK
  <2> QED BY <1>1, <2>1
<1>3. \/ followSender(n, m) = becomeFollower(n, m.term, m.from)
      \/ followSender(n, m) = n /\ n.role = Follower
      BY Zenon DEF followSender
<1> QED BY <1>1, <1>2, <1>3, BecomeFollowerType

\* nextIndexAfter saturates at the largest index.
LEMMA NextIndexAfterType ==
    ASSUME NEW i \in 0..MaxIndex
    PROVE  nextIndexAfter(i) \in 0..MaxIndex /\ nextIndexAfter(i) > 0
BY ConstantsType DEF nextIndexAfter

\* The length of a log whose tail is replaced by the tail of a message.
LEMMA SpliceLength ==
    ASSUME NEW prev \in Nat, NEW first \in Nat, NEW boundary \in Nat, NEW length \in Nat
    PROVE  ((prev + first) - boundary - 1) + (length - first + 1) = (prev - boundary) + length
OBVIOUS

\* Storing the entries of an append that matches leaves a log without gap, no
\* longer than the message or the log it had.
LEMMA StoreEntriesType ==
    ASSUME NEW n, NodeInv(n), n.role = Follower,
           NEW m, MessageInv(m), m.type = "AppendEntries",
           n.snap.index <= m.prevLogIndex, previousMatches(n, m),
           Len(m.entries) <= MaxIndex - m.prevLogIndex
    PROVE  LET k == storeEntries(n, m)
           IN  NodeInv(k) /\ k.id = n.id /\ k.role = Follower /\ k.term = n.term
<1> DEFINE first == firstOf(newEntries(n, m))
           kept == truncateFrom(n, m.prevLogIndex + first)
           added == SubSeq(m.entries, first, Len(m.entries))
           k == [n EXCEPT !.log = kept \o added]
<1>1. /\ m.entries \in Seq(Entry) /\ m.prevLogIndex \in Nat /\ m.prevLogTerm \in Nat
      /\ m.prevLogTerm = 0 => m.prevLogIndex = 0
      BY ConstantsType DEF MessageInv, MessageOK, ProbeOK
<1>2. HardStateOK(n) /\ BoundaryOK(n.snap)
      BY DEF NodeInv, NodeOK, LogBounded
<1>3. /\ lastIndex(n) \in Nat /\ n.snap.index \in Nat /\ Len(n.log) \in Nat
      /\ lastIndex(n) = n.snap.index + Len(n.log) /\ MaxIndex \in Nat /\ Len(m.entries) \in Nat
      BY <1>1, <1>2, LastIndexType, ConstantsType
<1>4. m.prevLogIndex <= lastIndex(n)
  <2>1. CASE m.prevLogTerm = 0
        BY <1>1, <1>3, <2>1
  <2>2. CASE m.prevLogTerm # 0
    <3>1. termAt(n, m.prevLogIndex) # 0
          BY <2>2 DEF previousMatches
    <3>2. m.prevLogIndex = n.snap.index \/ entryExists(n, m.prevLogIndex)
          BY <3>1 DEF termAt
    <3> QED BY <1>3, <3>2 DEF entryExists
  <2> QED BY <2>1, <2>2
<1>5. CASE newEntries(n, m) = {}
      BY <1>5 DEF storeEntries
<1>6. CASE newEntries(n, m) # {}
  <2>1. newEntries(n, m) \subseteq 1..Len(m.entries)
        BY DEF newEntries
  <2>2. first \in newEntries(n, m) /\ \A j \in newEntries(n, m) : first <= j
        BY <1>3, <1>6, <2>1, FirstOfType
  <2>3. storeEntries(n, m) = refreshMembership(k)
        BY <1>6, Zenon DEF storeEntries
  <2> HIDE DEF first
  <2>4. first \in Nat /\ first > 0 /\ first <= Len(m.entries)
        BY <1>3, <2>1, <2>2
  <2>5. m.prevLogIndex + first <= lastIndex(n) + 1
    <3>1. CASE first = 1
          BY <1>1, <1>3, <1>4, <3>1
    <3>2. CASE first > 1
      <4>1. first - 1 \in 1..Len(m.entries)
            BY <1>3, <2>4, <3>2
      <4>2. first - 1 \notin newEntries(n, m)
            BY <2>2, <2>4
      <4>3. ~(m.prevLogIndex + (first - 1) > lastIndex(n))
            BY <4>1, <4>2 DEF newEntries
      <4> QED BY <1>1, <1>3, <2>4, <4>3
    <3> QED BY <2>4, <3>1, <3>2
  <2>6. kept \in Seq(Entry) /\ Len(kept) = (m.prevLogIndex + first) - n.snap.index - 1
    <3>1. m.prevLogIndex + first \in Nat /\ n.snap.index < m.prevLogIndex + first
          BY <1>1, <1>3, <2>4, SMTT(40)
    <3>2. kept \in Seq(Entry)
          BY <1>2, <2>5, <3>1, TruncateFromType, Zenon
    <3>3. Len(kept) = (m.prevLogIndex + first) - n.snap.index - 1
          BY <1>2, <2>5, <3>1, TruncateFromType, Zenon
    <3> QED BY <3>2, <3>3
  <2>7. added \in Seq(Entry) /\ Len(added) = Len(m.entries) - first + 1
    <3>1. /\ added \in Seq(Entry)
          /\ Len(added) = IF first <= Len(m.entries) THEN Len(m.entries) - first + 1 ELSE 0
          BY <1>1, <2>4, SuffixType, Zenon
    <3> HIDE DEF added
    <3> QED BY <2>4, <3>1
  <2> HIDE DEF kept, added
  <2>8. kept \o added \in Seq(Entry) /\ Len(kept \o added) = Len(kept) + Len(added)
        BY <2>6, <2>7
  <2>9. /\ k = [f \in NodeFields |-> k[f]]
        /\ \A f \in NodeFields \ {"log"} : k[f] = n[f]
        /\ k.log = kept \o added
        BY DEF NodeInv, NodeOK, NodeFields
  <2> HIDE DEF k
  <2>10. /\ k.snap = n.snap /\ k.role = n.role /\ k.id = n.id /\ k.term = n.term
        BY <2>9 DEF NodeFields
  <2>11. lastIndex(k) <= MaxIndex
    <3>1. Len(k.log) = ((m.prevLogIndex + first) - n.snap.index - 1) + (Len(m.entries) - first + 1)
          BY <2>6, <2>7, <2>8, <2>9, Zenon
    <3>2. Len(k.log) = (m.prevLogIndex - n.snap.index) + Len(m.entries)
      <4>1. /\ m.prevLogIndex \in Nat /\ first \in Nat /\ n.snap.index \in Nat
            /\ Len(m.entries) \in Nat
            BY <1>1, <1>3, <2>4
      <4>2. ((m.prevLogIndex + first) - n.snap.index - 1) + (Len(m.entries) - first + 1)
                = (m.prevLogIndex - n.snap.index) + Len(m.entries)
            BY <4>1, SpliceLength
      <4> QED BY <3>1, <4>2, Zenon
    <3>3. lastIndex(k) = n.snap.index + Len(k.log)
          BY <2>10 DEF lastIndex
    <3> QED BY <1>1, <1>3, <3>2, <3>3, SMTT(40)
  <2>12. NodeOK(k)
        BY <2>8, <2>9 DEF NodeInv, NodeOK, HardStateOK, NodeFields
  <2>13. NodeInv(k)
        BY <1>2, <2>10, <2>11, <2>12
        DEF NodeInv, LogBounded, ProgressBounded, Follower, Leader
  <2>14. refreshMembership(k).term = k.term
        BY <2>9 DEF refreshMembership, NodeFields
  <2> QED BY <2>3, <2>10, <2>13, <2>14, RefreshType
<1> QED BY <1>5, <1>6

\* Accepting them moves commit no further than the end of that log.
LEMMA AcceptEntriesType ==
    ASSUME NEW n, NodeInv(n), n.role = Follower,
           NEW m, MessageInv(m), m.type = "AppendEntries",
           n.snap.index <= m.prevLogIndex, previousMatches(n, m),
           Len(m.entries) <= MaxIndex - m.prevLogIndex
    PROVE  LET r == acceptEntries(n, m)
           IN  StepInv(n, r) /\ r.effects.send = {} /\ r.node.term = n.term
<1> DEFINE stored == storeEntries(n, m)
           commit == minimum(m.leaderCommit, lastIndex(stored))
           raised == [stored EXCEPT !.commit = commit]
           committed == IF m.leaderCommit > n.commit THEN applyCommitted(raised)
                        ELSE Result(stored, FALSE, NoEffects)
           dirty == newEntries(n, m) # {} \/ m.leaderCommit > n.commit
<1>1. NodeInv(stored) /\ stored.id = n.id /\ stored.role = Follower /\ stored.term = n.term
      BY StoreEntriesType
<1>2. acceptEntries(n, m) = Result(committed.node, dirty, committed.effects)
      BY DEF acceptEntries
<1> HIDE DEF stored
<1>3. commit \in 0..MaxIndex
  <2>1. m.leaderCommit \in 0..MaxIndex /\ MaxIndex \in Nat
        BY ConstantsType DEF MessageInv, MessageOK
  <2>2. lastIndex(stored) \in 0..MaxIndex
        BY <1>1, <2>1, LastIndexType DEF NodeInv, NodeOK, LogBounded
  <2> QED BY <2>1, <2>2 DEF minimum
<1> HIDE DEF commit
<1>4. /\ raised = [f \in NodeFields |-> raised[f]]
      /\ \A f \in NodeFields \ {"commit"} : raised[f] = stored[f]
      /\ raised.commit = commit
      BY <1>1 DEF NodeInv, NodeOK, NodeFields
<1> HIDE DEF raised
<1>5. NodeInv(raised) /\ raised.id = n.id /\ raised.term = n.term
      BY <1>1, <1>3, <1>4
      DEF NodeInv, NodeOK, HardStateOK, LogBounded, ProgressBounded, lastIndex, NodeFields
<1>6. /\ StepInv(n, committed) /\ committed.effects.send = {}
      /\ committed.node.term = n.term
  <2>1. CASE m.leaderCommit > n.commit
    <3>1. /\ StepInv(raised, committed) /\ committed.effects.send = {}
          /\ committed.node.term = raised.term
          BY <1>5, <2>1, ApplyCommittedType DEF NodeFields
    <3> QED BY <1>5, <3>1 DEF StepInv
  <2>2. CASE ~(m.leaderCommit > n.commit)
    <3>1. committed = Result(stored, FALSE, NoEffects)
          BY <2>2
    <3>2. StepInv(stored, committed)
          BY <1>1, <3>1, QuietType
    <3>3. committed.node = stored /\ committed.effects = NoEffects
          BY <3>1 DEF Result
    <3> HIDE DEF committed
    <3>4. StepInv(n, committed)
          BY <1>1, <3>2 DEF StepInv
    <3> QED BY <1>1, <3>3, <3>4, NoEffectsType
  <2> QED BY <2>1, <2>2
<1> HIDE DEF committed
<1>7. dirty \in BOOLEAN
      OBVIOUS
<1> HIDE DEF dirty
<1>8. /\ NodeInv(committed.node) /\ committed.node.id = n.id
      /\ EffectsOK(committed.effects) /\ SendsOK(committed.effects, n.id)
      BY <1>6 DEF StepInv
<1>9. StepInv(n, Result(committed.node, dirty, committed.effects))
      BY <1>7, <1>8, ResultType
<1> QED BY <1>2, <1>6, <1>9 DEF Result

\* The log of a well-typed node ends within the range of indexes.
LEMMA LastIndexBounded ==
    ASSUME NEW n, NodeInv(n)
    PROVE  lastIndex(n) \in 0..MaxIndex /\ n.snap.index \in 0..MaxIndex
<1>1. HardStateOK(n) /\ lastIndex(n) <= MaxIndex /\ MaxIndex \in Nat
      BY ConstantsType DEF NodeInv, NodeOK, LogBounded
<1>2. n.snap.index \in 0..MaxIndex
      BY <1>1 DEF HardStateOK, SnapshotOK
<1> QED BY <1>1, <1>2, LastIndexType

\* The answer to an append is well-typed.
LEMMA AppendResponseType ==
    ASSUME NEW n, NodeInv(n), NEW m, MessageInv(m), m.to = n.id, m.term <= n.term,
           NEW matched \in 0..MaxIndex, NEW hint \in 0..MaxIndex
    PROVE  /\ LET a == appendResponse(n, m, TRUE, matched, hint)
              IN  MessageInv(a) /\ a.from = n.id
           /\ LET a == appendResponse(n, m, FALSE, matched, hint)
              IN  MessageInv(a) /\ a.from = n.id
<1>1. m.from \in Server /\ n.id \in Server \ {m.from} /\ n.term \in 1..MaxTerm
      BY ConstantsType DEF MessageInv, MessageOK, NodeInv, NodeOK, HardStateOK
<1> QED BY <1>1 DEF appendResponse, MessageInv, MessageOK, MessageTypes, ProbeOK

\* handleAppendEntries keeps the node well-typed on every path: a stale term,
\* a compacted prefix, a mismatch, an oversized or malformed batch, success.
LEMMA HandleAppendEntriesType ==
    ASSUME NEW n, NodeInv(n), NEW m, MessageInv(m), m.type = "AppendEntries",
           m.to = n.id, m.term <= n.term
    PROVE  StepInv(n, handleAppendEntries(n, m))
<1> DEFINE f == followSender(n, m)
           reject(g, hint) == Sends({appendResponse(g, m, FALSE, 0, hint)})
           refuse(hint) == Result(f, FALSE, Then(ResetElectionTimer, reject(f, hint)))
           accepted == acceptEntries(f, m)
           confirm == Sends({appendResponse(accepted.node, m, TRUE,
                                            m.prevLogIndex + Len(m.entries), 0)})
           effects == Then(Then(ResetElectionTimer, accepted.effects), confirm)
           prevHint == IF m.prevLogIndex = 0 THEN 1
                       ELSE minimum(m.prevLogIndex, nextIndexAfter(lastIndex(f)))
           entryHint == m.prevLogIndex + firstOf(refusedEntries(f, m))
<1>1. /\ NodeInv(f) /\ f.id = n.id /\ f.role = Follower /\ f.term = n.term
      BY FollowSenderType
<1>2. \/ handleAppendEntries(n, m) =
            Result(n, FALSE, reject(n, nextIndexAfter(lastIndex(n))))
      \/ handleAppendEntries(n, m) = refuse(nextIndexAfter(f.snap.index))
      \/ handleAppendEntries(n, m) = refuse(prevHint)
      \/ handleAppendEntries(n, m) = refuse(nextIndexAfter(lastIndex(f)))
      \/ /\ ~(Len(m.entries) > MaxIndex - m.prevLogIndex)
         /\ refusedEntries(f, m) # {}
         /\ handleAppendEntries(n, m) = refuse(entryHint)
      \/ /\ ~(m.prevLogIndex < f.snap.index) /\ previousMatches(f, m)
         /\ ~(Len(m.entries) > MaxIndex - m.prevLogIndex)
         /\ handleAppendEntries(n, m) = Result(accepted.node, accepted.dirty, effects)
      BY Zenon DEF handleAppendEntries
<1>3. /\ m.prevLogIndex \in 0..MaxIndex /\ m.entries \in Seq(Entry) /\ MaxIndex \in Nat
      /\ MaxIndex > 0 /\ Len(m.entries) \in Nat
      BY ConstantsType DEF MessageInv, MessageOK
<1>4. /\ lastIndex(n) \in 0..MaxIndex /\ lastIndex(f) \in 0..MaxIndex
      /\ f.snap.index \in 0..MaxIndex
      BY <1>1, LastIndexBounded
<1> HIDE DEF f
<1>5. ASSUME NEW hint \in 0..MaxIndex
      PROVE  StepInv(n, refuse(hint))
  <2>1. LET a == appendResponse(f, m, FALSE, 0, hint) IN MessageInv(a) /\ a.from = n.id
    <3>1. m.to = f.id /\ m.term <= f.term /\ 0 \in 0..MaxIndex
          BY <1>1, <1>3
    <3>2. LET a == appendResponse(f, m, FALSE, 0, hint) IN MessageInv(a) /\ a.from = f.id
          BY <1>1, <3>1, AppendResponseType, Zenon
    <3> QED BY <1>1, <3>2
  <2>2. LET e == Then(ResetElectionTimer, reject(f, hint)) IN EffectsOK(e) /\ SendsOK(e, n.id)
        BY <2>1, AnswerType
  <2> QED BY <1>1, <2>2, ResultType
<1>6. StepInv(n, Result(n, FALSE, reject(n, nextIndexAfter(lastIndex(n)))))
  <2>1. LET a == appendResponse(n, m, FALSE, 0, nextIndexAfter(lastIndex(n)))
        IN  MessageInv(a) /\ a.from = n.id
    <3>1. 0 \in 0..MaxIndex /\ nextIndexAfter(lastIndex(n)) \in 0..MaxIndex
          BY <1>3, <1>4, NextIndexAfterType
    <3> QED BY <3>1, AppendResponseType, Zenon
  <2>2. LET e == reject(n, nextIndexAfter(lastIndex(n))) IN EffectsOK(e) /\ SendsOK(e, n.id)
        BY <2>1, AnswerType
  <2> QED BY <2>2, ResultType
<1>7. /\ nextIndexAfter(f.snap.index) \in 0..MaxIndex /\ nextIndexAfter(lastIndex(f)) \in 0..MaxIndex
      BY <1>4, NextIndexAfterType
<1>8. prevHint \in 0..MaxIndex
      BY <1>3, <1>7 DEF minimum
<1>9. ASSUME ~(Len(m.entries) > MaxIndex - m.prevLogIndex), refusedEntries(f, m) # {}
      PROVE  entryHint \in 0..MaxIndex
  <2>1. refusedEntries(f, m) \subseteq 1..Len(m.entries)
        BY DEF refusedEntries
  <2>2. firstOf(refusedEntries(f, m)) \in 1..Len(m.entries)
        BY <1>3, <1>9, <2>1, FirstOfType
  <2> HIDE DEF firstOf
  <2> QED BY <1>3, <1>9, <2>2
<1>10. ASSUME ~(m.prevLogIndex < f.snap.index), previousMatches(f, m),
              ~(Len(m.entries) > MaxIndex - m.prevLogIndex)
       PROVE  StepInv(n, Result(accepted.node, accepted.dirty, effects))
  <2>1. f.snap.index <= m.prevLogIndex /\ Len(m.entries) <= MaxIndex - m.prevLogIndex
        BY <1>3, <1>4, <1>10
  <2>2. /\ StepInv(f, accepted) /\ accepted.effects.send = {} /\ accepted.node.term = n.term
        BY <1>1, <1>10, <2>1, AcceptEntriesType
  <2> HIDE DEF accepted
  <2>3. /\ NodeInv(accepted.node) /\ accepted.node.id = n.id /\ accepted.dirty \in BOOLEAN
        /\ EffectsOK(accepted.effects)
        BY <1>1, <2>2 DEF StepInv
  <2>4. m.prevLogIndex + Len(m.entries) \in 0..MaxIndex /\ 0 \in 0..MaxIndex
        BY <1>3, <2>1
  <2>5. LET a == appendResponse(accepted.node, m, TRUE, m.prevLogIndex + Len(m.entries), 0)
        IN  MessageInv(a) /\ a.from = n.id
    <3>1. m.to = accepted.node.id /\ m.term <= accepted.node.term
          BY <2>2, <2>3
    <3>2. LET a == appendResponse(accepted.node, m, TRUE, m.prevLogIndex + Len(m.entries), 0)
          IN  MessageInv(a) /\ a.from = accepted.node.id
          BY <2>3, <2>4, <3>1, AppendResponseType, Zenon
    <3> QED BY <2>3, <3>2
  <2>6. EffectsOK(confirm) /\ SendsOK(confirm, n.id)
        BY <2>5, AnswerType
  <2> HIDE DEF confirm
  <2>7. EffectsOK(effects) /\ SendsOK(effects, n.id)
        BY <2>2, <2>3, <2>6, NoEffectsType, ThenType DEF SendsOK
  <2> HIDE DEF effects
  <2> QED BY <2>3, <2>7, ResultType
<1> HIDE DEF refuse, reject, prevHint, entryHint, accepted, effects
<1> QED BY <1>2, <1>5, <1>6, <1>7, <1>8, <1>9, <1>10

\* The answer to a snapshot is well-typed.
LEMMA SnapshotResponseType ==
    ASSUME NEW n, NodeInv(n), NEW m, MessageInv(m), m.to = n.id, m.term <= n.term,
           NEW matched \in 0..MaxIndex
    PROVE  /\ LET a == snapshotResponse(n, m, TRUE, matched)
              IN  MessageInv(a) /\ a.from = n.id
           /\ LET a == snapshotResponse(n, m, FALSE, matched)
              IN  MessageInv(a) /\ a.from = n.id
<1>1. m.from \in Server /\ n.id \in Server \ {m.from} /\ n.term \in 1..MaxTerm
      BY ConstantsType DEF MessageInv, MessageOK, NodeInv, NodeOK, HardStateOK
<1> QED BY <1>1 DEF snapshotResponse, MessageInv, MessageOK, MessageTypes, ProbeOK

\* Installing a snapshot leaves a log that starts at its boundary.
LEMMA InstallSnapshotType ==
    ASSUME NEW n, NodeInv(n), n.role = Follower, NEW s, SnapshotOK(s), s.index # 0, s.term # 0
    PROVE  LET k == installSnapshot(n, s)
           IN  NodeInv(k) /\ k.id = n.id /\ k.term = n.term
<1> DEFINE log == retainedSuffix(n, s)
           k == [n EXCEPT !.snap = s, !.log = log, !.commit = s.index, !.applied = s.index]
<1>1. /\ HardStateOK(n) /\ lastIndex(n) <= MaxIndex /\ MaxIndex \in Nat
      BY ConstantsType DEF NodeInv, NodeOK, LogBounded
<1>2. lastIndex(n) \in Nat /\ n.snap.index \in Nat /\ n.snap.index <= lastIndex(n)
      BY <1>1, LastIndexType
<1>3. s.index \in 0..MaxIndex /\ s.index \in Nat /\ s.term \in Nat
      BY ConstantsType DEF SnapshotOK
<1>4. log \in Seq(Entry) /\ s.index + Len(log) <= MaxIndex
  <2>1. CASE termAt(n, s.index) = s.term
    <3>1. n.snap.index <= s.index /\ s.index <= lastIndex(n)
      <4>1. s.index = n.snap.index \/ entryExists(n, s.index)
            BY <2>1 DEF termAt
      <4> QED BY <1>2, <1>3, <4>1 DEF entryExists
    <3>2. s.index + 1 \in Nat /\ n.snap.index < s.index + 1 /\ s.index + 1 <= lastIndex(n) + 1
          BY <1>2, <1>3, <3>1
    <3>3. log = entriesFrom(n, s.index + 1)
          BY <2>1 DEF retainedSuffix
    <3>4. log \in Seq(Entry) /\ Len(log) = lastIndex(n) + 1 - (s.index + 1)
          BY <1>1, <3>2, <3>3, EntriesFromType
    <3> HIDE DEF log
    <3> QED BY <1>1, <1>2, <1>3, <3>4
  <2>2. CASE termAt(n, s.index) # s.term
    <3>1. log = <<>>
          BY <2>2 DEF retainedSuffix
    <3> HIDE DEF log
    <3> QED BY <1>3, <3>1
  <2> QED BY <2>1, <2>2
<1>5. installSnapshot(n, s) = refreshMembership(k)
      BY DEF installSnapshot
<1> HIDE DEF log
<1>6. /\ k = [f \in NodeFields |-> k[f]]
      /\ \A f \in NodeFields \ {"snap", "log", "commit", "applied"} : k[f] = n[f]
      /\ k.snap = s /\ k.log = log /\ k.commit = s.index /\ k.applied = s.index
      BY DEF NodeInv, NodeOK, NodeFields
<1> HIDE DEF k
<1>7. k.id = n.id /\ k.role = n.role /\ k.term = n.term
      BY <1>6 DEF NodeFields
<1>8. NodeOK(k)
      BY <1>3, <1>4, <1>6 DEF NodeInv, NodeOK, HardStateOK, NodeFields
<1>9. LogBounded(k) /\ ProgressBounded(k)
      BY <1>3, <1>4, <1>6, <1>7
      DEF LogBounded, lastIndex, BoundaryOK, ProgressBounded, Leader, Follower
<1>10. refreshMembership(k).term = k.term
      BY <1>6 DEF refreshMembership, NodeFields
<1> QED BY <1>5, <1>7, <1>8, <1>9, <1>10, RefreshType DEF NodeInv

\* handleInstallSnapshot keeps the node well-typed on every path.
LEMMA HandleInstallSnapshotType ==
    ASSUME NEW n, NodeInv(n), NEW m, MessageInv(m), m.type = "InstallSnapshot",
           m.to = n.id, m.term <= n.term
    PROVE  StepInv(n, handleInstallSnapshot(n, m))
<1> DEFINE f == followSender(n, m)
           s == m.snapshot
           answer(g, success, index) == Sends({snapshotResponse(g, m, success, index)})
           keep(success, index) ==
                Result(f, FALSE, Then(ResetElectionTimer, answer(f, success, index)))
           installed == installSnapshot(f, s)
           effects == [Then(ResetElectionTimer, answer(installed, TRUE, s.index))
                            EXCEPT !.install = TRUE]
<1>1. NodeInv(f) /\ f.id = n.id /\ f.role = Follower /\ f.term = n.term
      BY FollowSenderType
<1>2. \/ handleInstallSnapshot(n, m) = Result(n, FALSE, answer(n, FALSE, n.snap.index))
      \/ handleInstallSnapshot(n, m) = keep(FALSE, f.snap.index)
      \/ handleInstallSnapshot(n, m) = keep(TRUE, s.index)
      \/ /\ s.index # 0 /\ s.term # 0
         /\ handleInstallSnapshot(n, m) = Result(installed, TRUE, effects)
      BY Zenon DEF handleInstallSnapshot
<1>3. SnapshotOK(s) /\ s.index \in 0..MaxIndex
      BY DEF MessageInv, MessageOK, SnapshotOK
<1> HIDE DEF f, s
<1>4. n.snap.index \in 0..MaxIndex /\ f.snap.index \in 0..MaxIndex
      BY <1>1, LastIndexBounded
<1>5. StepInv(n, Result(n, FALSE, answer(n, FALSE, n.snap.index)))
  <2>1. LET a == snapshotResponse(n, m, FALSE, n.snap.index) IN MessageInv(a) /\ a.from = n.id
        BY <1>4, SnapshotResponseType, Zenon
  <2>2. LET e == answer(n, FALSE, n.snap.index) IN EffectsOK(e) /\ SendsOK(e, n.id)
        BY <2>1, AnswerType
  <2> QED BY <2>2, ResultType
<1>6. ASSUME NEW index \in 0..MaxIndex
      PROVE  StepInv(n, keep(TRUE, index)) /\ StepInv(n, keep(FALSE, index))
  <2>1. m.to = f.id /\ m.term <= f.term
        BY <1>1
  <2>2. LET a == snapshotResponse(f, m, TRUE, index) IN MessageInv(a) /\ a.from = f.id
        BY <1>1, <2>1, SnapshotResponseType, Zenon
  <2>3. LET a == snapshotResponse(f, m, FALSE, index) IN MessageInv(a) /\ a.from = f.id
        BY <1>1, <2>1, SnapshotResponseType, Zenon
  <2>4. LET e == Then(ResetElectionTimer, answer(f, TRUE, index))
        IN  EffectsOK(e) /\ SendsOK(e, n.id)
        BY <1>1, <2>2, AnswerType
  <2>5. LET e == Then(ResetElectionTimer, answer(f, FALSE, index))
        IN  EffectsOK(e) /\ SendsOK(e, n.id)
        BY <1>1, <2>3, AnswerType
  <2> QED BY <1>1, <2>4, <2>5, ResultType
<1>7. ASSUME s.index # 0, s.term # 0
      PROVE  StepInv(n, Result(installed, TRUE, effects))
  <2>1. NodeInv(installed) /\ installed.id = f.id /\ installed.term = f.term
        BY <1>1, <1>3, <1>7, InstallSnapshotType, Zenon
  <2> HIDE DEF installed
  <2>2. m.to = installed.id /\ m.term <= installed.term
        BY <1>1, <2>1
  <2>3. LET a == snapshotResponse(installed, m, TRUE, s.index)
        IN  MessageInv(a) /\ a.from = installed.id
        BY <1>3, <2>1, <2>2, SnapshotResponseType, Zenon
  <2>4. LET e == Then(ResetElectionTimer, answer(installed, TRUE, s.index))
        IN  EffectsOK(e) /\ SendsOK(e, n.id)
        BY <1>1, <2>1, <2>3, AnswerType
  <2> HIDE DEF answer
  <2>5. EffectsOK(effects) /\ SendsOK(effects, n.id)
        BY <2>4 DEF EffectsOK, SendsOK
  <2> HIDE DEF effects
  <2> QED BY <1>1, <2>1, <2>5, ResultType
<1> HIDE DEF answer, keep, installed, effects
<1> QED BY <1>2, <1>3, <1>4, <1>5, <1>6, <1>7

\* A leader may move a follower's progress within its own log.
LEMMA ProgressUpdateType ==
    ASSUME NEW n, NodeInv(n), n.role = Leader,
           NEW k, k = [f \in NodeFields |-> k[f]],
           \A f \in NodeFields \ {"matchIndex", "nextIndex"} : k[f] = n[f],
           k.matchIndex \in [Server -> 0..MaxIndex], k.nextIndex \in [Server -> 0..MaxIndex],
           \A f \in Server : /\ k.nextIndex[f] \in 1..(lastIndex(n) + 1)
                             /\ k.matchIndex[f] <= lastIndex(n)
    PROVE  NodeInv(k) /\ k.id = n.id /\ k.role = Leader
<1>1. NodeOK(k) /\ k.id = n.id /\ k.role = Leader
      BY DEF NodeInv, NodeOK, HardStateOK, NodeFields
<1>2. k.snap = n.snap /\ k.log = n.log /\ k.term = n.term
      BY DEF NodeFields
<1> QED BY <1>1, <1>2 DEF NodeInv, LogBounded, ProgressBounded, lastIndex

\* What a leader's bookkeeping looks like before an update.
LEMMA ProgressType ==
    ASSUME NEW n, NodeInv(n), n.role = Leader
    PROVE  /\ n.matchIndex \in [Server -> 0..MaxIndex] /\ n.nextIndex \in [Server -> 0..MaxIndex]
           /\ \A f \in Server : /\ n.nextIndex[f] \in 1..(lastIndex(n) + 1)
                                 /\ n.matchIndex[f] <= lastIndex(n)
BY DEF NodeInv, NodeOK, ProgressBounded

\* Recording a follower's progress, and what it lets the leader commit and
\* send, is well-typed: matchIndex is clamped to the leader's own log.
LEMMA RecordProgressType ==
    ASSUME NEW n, NodeInv(n), n.role = Leader, NEW m, MessageInv(m), m.to = n.id,
           m.matchIndex \in 0..MaxIndex
    PROVE  StepInv(n, recordProgress(n, m))
<1> DEFINE last == minimum(m.matchIndex, lastIndex(n))
           next == nextIndexAfter(last)
           updated == [n EXCEPT !.matchIndex[m.from] = last, !.nextIndex[m.from] = next]
           recorded == IF m.matchIndex > n.matchIndex[m.from] THEN updated ELSE n
           advanced == advanceCommit(recorded)
           lagging == /\ advanced.node.role = Leader
                      /\ advanced.node.matchIndex[m.from] < lastIndex(advanced.node)
           sent == IF lagging THEN appendTo(advanced.node, {m.from})
                   ELSE Result(advanced.node, FALSE, NoEffects)
<1>1. m.from \in Server /\ m.from # n.id
      BY DEF MessageInv, MessageOK
<1>2. lastIndex(n) \in 0..MaxIndex /\ MaxIndex \in Nat /\ MaxIndex > 0
      BY LastIndexBounded, ConstantsType
<1>3. /\ last \in Nat /\ last <= lastIndex(n)
      /\ next \in Nat /\ next > 0 /\ next <= lastIndex(n) + 1 /\ next <= MaxIndex
      BY <1>2 DEF minimum, nextIndexAfter
<1>4. recordProgress(n, m) = Result(sent.node, advanced.effects.apply # {},
                                    Then(advanced.effects, sent.effects))
      BY DEF recordProgress
<1> HIDE DEF last, next
<1>5. NodeInv(updated) /\ updated.id = n.id
  <2>1. /\ updated = [f \in NodeFields |-> updated[f]]
        /\ \A f \in NodeFields \ {"matchIndex", "nextIndex"} : updated[f] = n[f]
        /\ updated.matchIndex = [n.matchIndex EXCEPT ![m.from] = last]
        /\ updated.nextIndex = [n.nextIndex EXCEPT ![m.from] = next]
        BY DEF NodeInv, NodeOK, NodeFields
  <2> HIDE DEF updated
  <2>2. /\ updated.matchIndex \in [Server -> 0..MaxIndex]
        /\ updated.nextIndex \in [Server -> 0..MaxIndex]
        /\ \A f \in Server : /\ updated.nextIndex[f] \in 1..(lastIndex(n) + 1)
                              /\ updated.matchIndex[f] <= lastIndex(n)
        BY <1>1, <1>2, <1>3, <2>1, ProgressType
  <2> QED BY <2>1, <2>2, ProgressUpdateType
<1> HIDE DEF updated
<1>6. NodeInv(recorded) /\ recorded.id = n.id
      BY <1>5
<1> HIDE DEF recorded
<1>7. StepInv(n, advanced)
      BY <1>6, AdvanceCommitType DEF StepInv
<1> HIDE DEF advanced
<1>8. NodeInv(advanced.node) /\ advanced.node.id = n.id
      BY <1>7 DEF StepInv
<1>9. StepInv(advanced.node, sent)
  <2>1. {m.from} \in SUBSET (Server \ {advanced.node.id})
        BY <1>1, <1>8
  <2> QED BY <1>8, <2>1, AppendToType, QuietType
<1> HIDE DEF sent
<1> QED BY <1>4, <1>7, <1>9, ThenStepType

\* So is the answer to a snapshot at the leader.
LEMMA HandleInstallSnapshotResponseType ==
    ASSUME NEW n, NodeInv(n), NEW m, MessageInv(m), m.type = "InstallSnapshotResponse",
           m.to = n.id
    PROVE  StepInv(n, handleInstallSnapshotResponse(n, m))
<1>1. \/ handleInstallSnapshotResponse(n, m) = Result(n, FALSE, NoEffects)
      \/ n.role = Leader /\ handleInstallSnapshotResponse(n, m) = recordProgress(n, m)
      BY Zenon DEF handleInstallSnapshotResponse
<1>2. m.matchIndex \in 0..MaxIndex
      BY DEF MessageInv, MessageOK
<1> QED BY <1>1, <1>2, QuietType, RecordProgressType

\* So is the answer to an append: backing off never takes nextIndex below 1.
LEMMA HandleAppendEntriesResponseType ==
    ASSUME NEW n, NodeInv(n), NEW m, MessageInv(m), m.type = "AppendEntriesResponse",
           m.to = n.id
    PROVE  StepInv(n, handleAppendEntriesResponse(n, m))
<1> DEFINE next == n.nextIndex[m.from]
           back == IF next > 1 THEN next - 1 ELSE next
           hinted == IF m.rejectHint > 0 /\ m.rejectHint < back THEN m.rejectHint ELSE back
           resume == IF hinted < 1 THEN 1 ELSE hinted
           k == [n EXCEPT !.nextIndex[m.from] = resume]
<1>1. \/ handleAppendEntriesResponse(n, m) = Result(n, FALSE, NoEffects)
      \/ n.role = Leader /\ handleAppendEntriesResponse(n, m) = recordProgress(n, m)
      \/ n.role = Leader /\ handleAppendEntriesResponse(n, m) = appendTo(k, {m.from})
      BY Zenon DEF handleAppendEntriesResponse
<1>2. /\ m.matchIndex \in 0..MaxIndex /\ m.rejectHint \in 0..MaxIndex
      /\ m.from \in Server /\ m.from # n.id
      BY DEF MessageInv, MessageOK
<1>3. ASSUME n.role = Leader
      PROVE  StepInv(n, appendTo(k, {m.from}))
  <2>1. lastIndex(n) \in 0..MaxIndex /\ MaxIndex \in Nat /\ MaxIndex > 0
        BY LastIndexBounded, ConstantsType
  <2>2. next \in 1..(lastIndex(n) + 1) /\ next \in 0..MaxIndex
        BY <1>2, <1>3 DEF NodeInv, NodeOK, ProgressBounded
  <2>3. /\ resume \in Nat /\ resume > 0 /\ resume <= lastIndex(n) + 1 /\ resume <= MaxIndex
        BY <1>2, <2>1, <2>2
  <2> HIDE DEF resume
  <2>4. /\ k = [f \in NodeFields |-> k[f]]
        /\ \A f \in NodeFields \ {"matchIndex", "nextIndex"} : k[f] = n[f]
        /\ k.matchIndex = n.matchIndex
        /\ k.nextIndex = [n.nextIndex EXCEPT ![m.from] = resume]
        BY DEF NodeInv, NodeOK, NodeFields
  <2> HIDE DEF k
  <2>5. /\ k.matchIndex \in [Server -> 0..MaxIndex] /\ k.nextIndex \in [Server -> 0..MaxIndex]
        /\ \A f \in Server : /\ k.nextIndex[f] \in 1..(lastIndex(n) + 1)
                              /\ k.matchIndex[f] <= lastIndex(n)
        BY <1>2, <1>3, <2>1, <2>3, <2>4, ProgressType
  <2>6. NodeInv(k) /\ k.id = n.id /\ k.role = Leader
        BY <1>3, <2>4, <2>5, ProgressUpdateType
  <2>7. {m.from} \in SUBSET (Server \ {k.id})
        BY <1>2, <2>6
  <2> QED BY <2>6, <2>7, AppendToType DEF StepInv
<1> HIDE DEF k
<1> QED BY <1>1, <1>2, <1>3, QuietType, RecordProgressType

\* Every message handler is well-typed.
LEMMA HandleMessageType ==
    ASSUME NEW n, NodeInv(n), NEW m, MessageInv(m), m.to = n.id, m.term <= n.term
    PROVE  StepInv(n, handleMessage(n, m))
<1>1. m.type \in MessageTypes
      BY DEF MessageInv, MessageOK
<1>2. CASE m.type = "RequestVote"
      BY <1>2, HandleRequestVoteType DEF handleMessage
<1>3. CASE m.type = "RequestVoteResponse"
      BY <1>3, HandleRequestVoteResponseType DEF handleMessage
<1>4. CASE m.type = "AppendEntries"
      BY <1>4, HandleAppendEntriesType DEF handleMessage
<1>5. CASE m.type = "AppendEntriesResponse"
      BY <1>5, HandleAppendEntriesResponseType DEF handleMessage
<1>6. CASE m.type = "InstallSnapshot"
      BY <1>6, HandleInstallSnapshotType DEF handleMessage
<1>7. CASE m.type = "InstallSnapshotResponse"
      BY <1>7, HandleInstallSnapshotResponseType DEF handleMessage
<1> QED BY <1>1, <1>2, <1>3, <1>4, <1>5, <1>6, <1>7 DEF MessageTypes

\* Step is well-typed on every message, the step-down to a higher term included.
LEMMA StepMessageType ==
    ASSUME NEW n, NodeInv(n), NEW m, MessageInv(m), m.to = n.id
    PROVE  StepInv(n, stepMessage(n, m))
<1> DEFINE higher == m.term > n.term
           k == IF higher THEN becomeFollower(n, m.term, Nil) ELSE n
           r == handleMessage(k, m)
<1>1. m.term \in 0..MaxTerm /\ m.term \in Nat /\ n.term \in Nat
  <2>1. m.term \in 1..MaxTerm /\ MaxTerm \in Nat
        BY ConstantsType DEF MessageInv, MessageOK
  <2>2. n.term \in 0..MaxTerm
        BY DEF NodeInv, NodeOK, HardStateOK
  <2> QED BY <2>1, <2>2
<1>2. stepMessage(n, m) = [r EXCEPT !.dirty = @ \/ higher]
      BY DEF stepMessage
<1>3. NodeInv(k) /\ k.id = n.id /\ m.term <= k.term
  <2>1. CASE higher
        BY <1>1, <2>1, BecomeFollowerType
  <2>2. CASE ~higher
        BY <1>1, <2>2
  <2> QED BY <2>1, <2>2
<1> HIDE DEF k
<1>4. StepInv(n, r)
      BY <1>3, HandleMessageType DEF StepInv
<1> HIDE DEF r
<1>5. higher \in BOOLEAN
      OBVIOUS
<1> HIDE DEF higher
<1> QED BY <1>2, <1>4, <1>5 DEF StepInv

\* New builds a well-typed follower from well-typed durable state.
LEMMA NewType ==
    ASSUME NEW s \in Server, NEW d, HardStateOK(d), LogBounded(d), NEW applied \in Nat
    PROVE  NodeInv(New(s, d, applied)) /\ New(s, d, applied).id = s
<1> DEFINE k == [id |-> s, role |-> Follower, leader |-> Nil,
                 term |-> d.term, votedFor |-> d.votedFor,
                 commit |-> d.commit, snap |-> d.snap, log |-> d.log,
                 applied |-> applied, membership |-> NoMembership,
                 votes |-> {}, electionVotes |-> {}, electionMembership |-> NoMembership,
                 nextIndex |-> ZeroMap, matchIndex |-> ZeroMap, appendSequence |-> ZeroMap]
<1>1. k = [f \in NodeFields |-> k[f]]
      BY DEF NodeFields
<1>2. NodeOK(k)
      BY <1>1, ConstantsType DEF NodeOK, HardStateOK
<1>3. LogBounded(k) /\ ProgressBounded(k)
      BY DEF LogBounded, lastIndex, ProgressBounded, Follower, Leader
<1>4. New(s, d, applied) = refreshMembership(k)
      BY DEF New
<1>5. NodeInv(k) /\ k.id = s
      BY <1>2, <1>3 DEF NodeInv
<1> HIDE DEF k
<1> QED BY <1>4, <1>5, RefreshType

\* Start keeps it well-typed.
LEMMA StartType ==
    ASSUME NEW n, NodeInv(n)
    PROVE  StepInv(n, Start(n)) /\ Start(n).effects.send = {}
<1> DEFINE behind == n.applied < n.snap.index
           installed == IF behind THEN [n EXCEPT !.applied = n.snap.index] ELSE n
           applied == applyCommitted(installed)
           effects == [applied.effects EXCEPT
                        !.install = behind,
                        !.timers = IF isVoter(n.membership, n.id) THEN {"election"} ELSE {}]
<1>1. Start(n) = Result(applied.node, FALSE, effects)
      BY DEF Start
<1>2. NodeInv(installed) /\ installed.id = n.id
  <2>1. CASE behind
    <3>1. /\ installed = [f \in NodeFields |-> installed[f]]
          /\ \A f \in NodeFields \ {"applied"} : installed[f] = n[f]
          /\ installed.applied = n.snap.index
          BY <2>1 DEF NodeInv, NodeOK, NodeFields
    <3>2. n.snap.index \in Nat
          BY LastIndexBounded, ConstantsType
    <3> HIDE DEF installed
    <3> QED BY <3>1, <3>2
        DEF NodeInv, NodeOK, HardStateOK, LogBounded, ProgressBounded, lastIndex, NodeFields
  <2>2. CASE ~behind
        BY <2>2
  <2> QED BY <2>1, <2>2
<1> HIDE DEF installed
<1>3. StepInv(n, applied) /\ applied.effects.send = {}
      BY <1>2, ApplyCommittedType DEF StepInv
<1> HIDE DEF applied
<1>4. behind \in BOOLEAN
      OBVIOUS
<1> HIDE DEF behind
<1>5. EffectsOK(effects) /\ effects.send = {}
      BY <1>3, <1>4 DEF StepInv, EffectsOK
<1> HIDE DEF effects
<1>6. StepInv(n, Result(applied.node, FALSE, effects))
  <2>1. NodeInv(applied.node) /\ applied.node.id = n.id
        BY <1>3 DEF StepInv
  <2>2. SendsOK(effects, n.id)
        BY <1>5 DEF SendsOK
  <2> QED BY <1>5, <2>1, <2>2, ResultType
<1> QED BY <1>1, <1>5, <1>6 DEF Result

-----------------------------------------------------------------------------
(* The cluster.                                                            *)

\* The effects of a step that waits for its write.
PendingOK(p) == p = [f \in {"phase", "effects"} |-> p[f]] /\ EffectsOK(p.effects)

\* The inductive invariant.
TypeInv == TypeOK /\ LogsAreBounded /\ \A s \in Server : PendingOK(pending[s])

Timers == [election : BOOLEAN, heartbeat : BOOLEAN]

\* processEffects leaves a natural number in AppliedIndex, whether it applies
\* entries, installs a snapshot or both.
LEMMA ApplyEffectsType ==
    ASSUME NEW st, st.applied \in Nat, NEW n, NodeInv(n), NEW e, EffectsOK(e)
    PROVE  applyEffects(st, n, e).applied \in Nat
<1>1. Cardinality(e.apply) \in Nat
      BY FS_CardinalityType DEF EffectsOK
<1>2. n.snap.index \in Nat
      BY LastIndexBounded, ConstantsType
<1> QED BY <1>1, <1>2 DEF applyEffects

\* Recovery leaves AppliedIndex alone.
LEMMA RecoveryType ==
    ASSUME NEW st, st.applied \in Nat, NEW d
    PROVE  recoverApplication(d, st).applied \in Nat
BY DEF recoverApplication

\* Rearming and cancelling timers (resetElectionTimer, resetHeartbeatTimer,
\* syncRoleTimers) yields timers.
LEMMA TimersType ==
    ASSUME NEW t \in Timers, NEW n, NEW e, NEW before, NEW after
    PROVE  rearm(t, n, e) \in Timers /\ syncRoleTimers(t, before, after) \in Timers
<1>1. rearm(t, n, e).election \in BOOLEAN
      BY Zenon DEF rearm, Timers, isVoter
<1> QED BY DEF rearm, syncRoleTimers, Timers, isVoter

\* A bootstrapped cluster satisfies the invariant.
LEMMA InitType == Init => TypeInv
<1> SUFFICES ASSUME Init PROVE TypeInv
    OBVIOUS
<1>1. HardStateOK(EmptyState) /\ LogBounded(EmptyState)
      BY ConstantsType
      DEF EmptyState, HardStateOK, SnapshotOK, NoSnapshot, LogBounded, BoundaryOK, lastIndex
<1>2. \A s \in Server : NodeInv(New(s, EmptyState, 0)) /\ New(s, EmptyState, 0).id = s
      BY <1>1, NewType
<1>3. PendingOK(NoPending) /\ NoPending.phase = "none" /\ NoPending.effects.send = {}
      BY NoEffectsType DEF PendingOK, NoPending
<1>4. \A s \in Server : [NoTimers EXCEPT !.election = isVoter(InitialMembership, s)] \in Timers
      BY DEF NoTimers, Timers, isVoter
<1>5. TypeOK
      BY <1>1, <1>2, <1>3, <1>4, RunBoundAssumption
      DEF Init, TypeOK, PerServer, NodeInv, Timers
<1>6. LogsAreBounded
      BY <1>1, <1>2, <1>3 DEF Init, LogsAreBounded, NodeInv
<1> QED BY <1>3, <1>5, <1>6 DEF Init, TypeInv

\* What the invariant says of one process, and of the network.
LEMMA TypeInvAt ==
    ASSUME TypeInv, NEW s \in Server
    PROVE  /\ NodeInv(node[s]) /\ node[s].id = s
           /\ HardStateOK(disk[s]) /\ LogBounded(disk[s])
           /\ store[s].applied \in Nat
           /\ PendingOK(pending[s])
           /\ \A m \in pending[s].effects.send : MessageInv(m)
           /\ timer[s] \in Timers
BY DEF TypeInv, TypeOK, LogsAreBounded, NodeInv, MessageInv, Timers

\* Cluster.submit of a well-typed transition keeps the invariant, both when
\* the effects are released at once and when they wait for a write.
LEMMA SubmitType ==
    ASSUME TypeInv, NEW s \in Server, NEW r, StepInv(node[s], r),
           NEW inFlight \in SUBSET net, NEW t \in Timers, Submit(s, r, inFlight, t)
    PROVE  TypeInv'
<1>1. /\ NodeInv(r.node) /\ r.node.id = s /\ EffectsOK(r.effects)
      /\ \A m \in r.effects.send : MessageInv(m)
      BY TypeInvAt DEF StepInv, SendsOK
<1>2. node' = [node EXCEPT ![s] = r.node] /\ UNCHANGED <<up, disk, crashes>>
      BY DEF Submit
<1>3. PerServer(node)' /\ \A u \in Server : (NodeInv(node[u]) /\ node[u].id = u)'
      BY <1>1, <1>2, TypeInvAt DEF TypeInv, TypeOK, PerServer
<1>4. /\ PerServer(pending)'
      /\ \A u \in Server : /\ PendingOK(pending[u])'
                           /\ pending'[u].phase \in {"none", "writing", "written"}
                           /\ \A m \in pending'[u].effects.send : MessageInv(m)
  <2> DEFINE p == [phase |-> "writing", effects |-> r.effects]
  <2>1. pending' = pending \/ pending' = [pending EXCEPT ![s] = p]
        BY DEF Submit
  <2>2. /\ PendingOK(p) /\ p.phase = "writing" /\ \A m \in p.effects.send : MessageInv(m)
        BY <1>1 DEF PendingOK
  <2>3. /\ PerServer(pending)
        /\ \A u \in Server : /\ PendingOK(pending[u])
                             /\ pending[u].phase \in {"none", "writing", "written"}
                             /\ \A m \in pending[u].effects.send : MessageInv(m)
        BY TypeInvAt DEF TypeInv, TypeOK
  <2> HIDE DEF p
  <2>4. CASE pending' = pending
        BY <2>3, <2>4 DEF PerServer
  <2>5. CASE pending' = [pending EXCEPT ![s] = p]
    <3>1. \A u \in Server : pending'[u] = IF u = s THEN p ELSE pending[u]
          BY <2>3, <2>5 DEF PerServer
    <3>2. PerServer(pending)'
          BY <2>3, <2>5 DEF PerServer
    <3> QED BY <2>2, <2>3, <3>1, <3>2
  <2> QED BY <2>1, <2>4, <2>5
<1>5. PerServer(store)' /\ \A u \in Server : store'[u].applied \in Nat
  <2>1. store' = store \/ store' = [store EXCEPT ![s] = applyEffects(store[s], r.node, r.effects)]
        BY DEF Submit
  <2>2. applyEffects(store[s], r.node, r.effects).applied \in Nat
        BY <1>1, TypeInvAt, ApplyEffectsType
  <2> QED BY <2>1, <2>2 DEF TypeInv, TypeOK, PerServer
<1>6. timer' \in [Server -> Timers]
  <2>1. \/ timer' = [timer EXCEPT ![s] = syncRoleTimers(t, node[s].role, r.node.role)]
        \/ timer' = [timer EXCEPT ![s] = syncRoleTimers(rearm(t, r.node, r.effects),
                                                        node[s].role, r.node.role)]
        BY DEF Submit
  <2>2. /\ syncRoleTimers(t, node[s].role, r.node.role) \in Timers
        /\ syncRoleTimers(rearm(t, r.node, r.effects), node[s].role, r.node.role) \in Timers
        BY TimersType
  <2> QED BY <2>1, <2>2 DEF TypeInv, TypeOK, Timers
<1>7. \A m \in net' : MessageInv(m)
  <2>1. net' \subseteq net \cup r.effects.send
        BY DEF Submit, Send
  <2> QED BY <1>1, <2>1 DEF TypeInv, TypeOK, LogsAreBounded, MessageInv
<1>8. TypeOK'
      BY <1>2, <1>3, <1>4, <1>5, <1>6, <1>7
      DEF TypeInv, TypeOK, NodeInv, MessageInv, PerServer, Timers
<1>9. LogsAreBounded'
      BY <1>2, <1>3, <1>4, <1>7 DEF TypeInv, LogsAreBounded, NodeInv, MessageInv
<1> QED BY <1>4, <1>8, <1>9 DEF TypeInv

\* Timer expirations and client requests keep the invariant.
LEMMA InputsType ==
    ASSUME TypeInv, NEW s \in Server,
           \/ ElectionTimeout(s) \/ HeartbeatTimeout(s)
           \/ Snapshot(s) \/ FinalizeMembershipChange(s)
           \/ \E c \in Command : Propose(s, c)
           \/ \E target \in Target : BeginMembershipChange(s, target)
    PROVE  TypeInv'
<1>1. NodeInv(node[s]) /\ timer[s] \in Timers /\ store[s].applied \in Nat /\ net \in SUBSET net
      BY TypeInvAt
<1>2. /\ [timer[s] EXCEPT !.election = FALSE] \in Timers
      /\ [timer[s] EXCEPT !.heartbeat = FALSE] \in Timers
      BY <1>1 DEF Timers
<1>3. CASE ElectionTimeout(s)
  <2>1. CASE Submit(s, electionTimeout(node[s]), net, [timer[s] EXCEPT !.election = FALSE])
        BY <1>1, <1>2, <2>1, ElectionTimeoutType, SubmitType
  <2>2. CASE /\ timer' = [timer EXCEPT ![s] = [timer[s] EXCEPT !.election = FALSE]]
             /\ UNCHANGED <<node, up, disk, store, pending, net, crashes>>
    <3>1. timer' \in [Server -> Timers]
          BY <1>2, <2>2 DEF TypeInv, TypeOK, Timers
    <3> QED BY <2>2, <3>1 DEF TypeInv, TypeOK, LogsAreBounded, PerServer, Timers
  <2> QED BY <1>3, <2>1, <2>2 DEF ElectionTimeout
<1>4. CASE HeartbeatTimeout(s)
      BY <1>1, <1>2, <1>4, HeartbeatTimeoutType, SubmitType DEF HeartbeatTimeout
<1>5. CASE Snapshot(s)
  <2>1. StepInv(node[s], takeSnapshot(node[s], store[s].applied, store[s].history))
        BY <1>1, TakeSnapshotType
  <2> QED BY <1>1, <1>5, <2>1, SubmitType DEF Snapshot
<1>6. CASE FinalizeMembershipChange(s)
      BY <1>1, <1>6, FinalizeMembershipType, SubmitType DEF FinalizeMembershipChange
<1>7. CASE \E c \in Command : Propose(s, c)
      BY <1>1, <1>7, ProposalType, SubmitType DEF Propose
<1>8. CASE \E target \in Target : BeginMembershipChange(s, target)
  <2>1. PICK target \in Target : BeginMembershipChange(s, target)
        BY <1>8
  <2>2. target[1] \in SUBSET Server /\ target[2] \in SUBSET Server
        BY InputAssumption
  <2>3. StepInv(node[s], beginMembership(node[s], target[1], target[2]))
        BY <1>1, <2>2, BeginMembershipType
  <2> QED BY <1>1, <2>1, <2>3, SubmitType DEF BeginMembershipChange
<1> QED BY <1>3, <1>4, <1>5, <1>6, <1>7, <1>8

\* So does a packet that is delivered or lost.
LEMMA MessagesType ==
    ASSUME TypeInv, NEW m \in net, Receive(m) \/ Drop(m)
    PROVE  TypeInv'
<1>1. MessageInv(m) /\ m.to \in Server
      BY DEF TypeInv, TypeOK, LogsAreBounded, MessageInv, MessageOK
<1>2. CASE Receive(m)
  <2>1. StepInv(node[m.to], stepMessage(node[m.to], m))
        BY <1>1, TypeInvAt, StepMessageType
  <2>2. timer[m.to] \in Timers /\ net \ {m} \in SUBSET net
        BY <1>1, TypeInvAt
  <2> QED BY <1>1, <1>2, <2>1, <2>2, SubmitType DEF Receive
<1>3. CASE Drop(m)
      BY <1>3 DEF Drop, TypeInv, TypeOK, LogsAreBounded, PerServer
<1> QED BY <1>2, <1>3

\* So do the two halves of the persistence barrier.
LEMMA BarrierType ==
    ASSUME TypeInv, NEW s \in Server, CompleteWrite(s) \/ AcknowledgeWrite(s)
    PROVE  TypeInv'
<1>1. /\ NodeInv(node[s]) /\ PendingOK(pending[s]) /\ store[s].applied \in Nat
      /\ \A m \in pending[s].effects.send : MessageInv(m)
      /\ timer[s] \in Timers
      BY TypeInvAt
<1>2. CASE CompleteWrite(s)
  <2>1. HardStateOK(persistentState(node[s])) /\ LogBounded(persistentState(node[s]))
        BY <1>1 DEF NodeInv, NodeOK, HardStateOK, persistentState, LogBounded, lastIndex
  <2>2. PerServer(disk)' /\ \A u \in Server : HardStateOK(disk'[u]) /\ LogBounded(disk'[u])
        BY <1>2, <2>1, TypeInvAt DEF CompleteWrite, TypeInv, TypeOK, PerServer
  <2> DEFINE p == [pending[s] EXCEPT !.phase = "written"]
  <2>3. PendingOK(p) /\ p.phase = "written" /\ p.effects = pending[s].effects
        BY <1>1 DEF PendingOK
  <2>4. pending' = [pending EXCEPT ![s] = p]
        BY <1>2 DEF CompleteWrite
  <2> HIDE DEF p
  <2>5. PerServer(pending)' /\ \A u \in Server : pending'[u] = IF u = s THEN p ELSE pending[u]
        BY <2>4 DEF TypeInv, TypeOK, PerServer
  <2>6. UNCHANGED <<node, up, store, timer, net, crashes>>
        BY <1>2 DEF CompleteWrite
  <2> QED BY <2>2, <2>3, <2>5, <2>6 DEF TypeInv, TypeOK, LogsAreBounded, PerServer
<1>3. CASE AcknowledgeWrite(s)
  <2> DEFINE e == pending[s].effects
  <2>1. EffectsOK(e)
        BY <1>1 DEF PendingOK
  <2>2. PerServer(store)' /\ \A u \in Server : store'[u].applied \in Nat
    <3>1. applyEffects(store[s], node[s], e).applied \in Nat
          BY <1>1, <2>1, ApplyEffectsType
    <3> QED BY <1>3, <3>1 DEF AcknowledgeWrite, TypeInv, TypeOK, PerServer
  <2>3. timer' \in [Server -> Timers]
    <3>1. rearm(timer[s], node[s], e) \in Timers
          BY <1>1, TimersType
    <3> QED BY <1>3, <3>1 DEF AcknowledgeWrite, TypeInv, TypeOK, Timers
  <2>4. \A m \in net' : MessageInv(m)
    <3>1. net' \subseteq net \cup e.send
          BY <1>3 DEF AcknowledgeWrite, Send
    <3> QED BY <1>1, <3>1 DEF TypeInv, TypeOK, LogsAreBounded, MessageInv
  <2>5. PendingOK(NoPending) /\ NoPending.phase = "none" /\ NoPending.effects.send = {}
        BY NoEffectsType DEF PendingOK, NoPending
  <2>6. /\ PerServer(pending)'
        /\ \A u \in Server : pending'[u] = IF u = s THEN NoPending ELSE pending[u]
        BY <1>3 DEF AcknowledgeWrite, TypeInv, TypeOK, PerServer
  <2>7. UNCHANGED <<node, up, disk, crashes>>
        BY <1>3 DEF AcknowledgeWrite
  <2>8. TypeOK'
        BY <2>2, <2>3, <2>4, <2>5, <2>6, <2>7
        DEF TypeInv, TypeOK, PerServer, MessageInv, Timers
  <2>9. LogsAreBounded'
        BY <2>4, <2>5, <2>6, <2>7 DEF TypeInv, LogsAreBounded, MessageInv
  <2> QED BY <2>5, <2>6, <2>8, <2>9 DEF TypeInv
<1> QED BY <1>2, <1>3

\* So do crashes and restarts: a node rebuilt from disk is a well-typed node.
LEMMA CrashType ==
    ASSUME TypeInv, NEW s \in Server, Crash(s) \/ Restart(s)
    PROVE  TypeInv'
<1>1. /\ NodeInv(node[s]) /\ node[s].id = s /\ store[s].applied \in Nat /\ timer[s] \in Timers
      /\ HardStateOK(disk[s]) /\ LogBounded(disk[s])
      BY TypeInvAt
<1>2. CASE Crash(s)
  <2>1. LET n == New(s, disk[s], store[s].applied) IN NodeInv(n) /\ n.id = s
        BY <1>1, NewType
  <2>2. PerServer(node)' /\ \A u \in Server : (NodeInv(node[u]) /\ node[u].id = u)'
        BY <1>2, <2>1, TypeInvAt DEF Crash, TypeInv, TypeOK, PerServer
  <2>3. PendingOK(NoPending) /\ NoPending.phase = "none" /\ NoPending.effects.send = {}
        BY NoEffectsType DEF PendingOK, NoPending
  <2>4. /\ PerServer(pending)'
        /\ \A u \in Server : pending'[u] = IF u = s THEN NoPending ELSE pending[u]
        BY <1>2 DEF Crash, TypeInv, TypeOK, PerServer
  <2>5. timer' \in [Server -> Timers] /\ up' \in [Server -> BOOLEAN]
        BY <1>2 DEF Crash, TypeInv, TypeOK, Timers, NoTimers
  <2>6. crashes' \in 0..MaxCrashes
        BY <1>2, RunBoundAssumption DEF Crash, TypeInv, TypeOK
  <2>7. UNCHANGED <<disk, store, net>>
        BY <1>2 DEF Crash
  <2>8. TypeOK'
        BY <2>2, <2>3, <2>4, <2>5, <2>6, <2>7
        DEF TypeInv, TypeOK, PerServer, NodeInv, Timers
  <2>9. LogsAreBounded'
        BY <2>2, <2>3, <2>4, <2>7 DEF TypeInv, LogsAreBounded, NodeInv
  <2> QED BY <2>3, <2>4, <2>8, <2>9 DEF TypeInv
<1>3. CASE Restart(s)
  <2> DEFINE r == Start(node[s])
  <2>1. StepInv(node[s], r)
        BY <1>1, StartType
  <2>2. /\ node' = [node EXCEPT ![s] = r.node]
        /\ store' = [store EXCEPT ![s] =
                        applyEffects(recoverApplication(disk[s], store[s]), r.node, r.effects)]
        /\ timer' = [timer EXCEPT ![s] = rearm(@, r.node, r.effects)]
        /\ up' = [up EXCEPT ![s] = TRUE]
        /\ UNCHANGED <<disk, pending, net, crashes>>
        BY <1>3 DEF Restart
  <2> HIDE DEF r
  <2>3. NodeInv(r.node) /\ r.node.id = s /\ EffectsOK(r.effects)
        BY <1>1, <2>1 DEF StepInv
  <2>4. PerServer(node)' /\ \A u \in Server : (NodeInv(node[u]) /\ node[u].id = u)'
        BY <2>2, <2>3, TypeInvAt DEF TypeInv, TypeOK, PerServer
  <2>5. PerServer(store)' /\ \A u \in Server : store'[u].applied \in Nat
    <3> DEFINE recovered == recoverApplication(disk[s], store[s])
    <3>1. recovered.applied \in Nat
          BY <1>1, RecoveryType
    <3> HIDE DEF recovered
    <3>2. applyEffects(recovered, r.node, r.effects).applied \in Nat
          BY <2>3, <3>1, ApplyEffectsType
    <3> QED BY <2>2, <3>2 DEF recovered, TypeInv, TypeOK, PerServer
  <2>6. timer' \in [Server -> Timers] /\ up' \in [Server -> BOOLEAN]
    <3>1. rearm(timer[s], r.node, r.effects) \in Timers
          BY <1>1, TimersType
    <3> QED BY <2>2, <3>1 DEF TypeInv, TypeOK, Timers
  <2>7. TypeOK'
        BY <2>2, <2>4, <2>5, <2>6 DEF TypeInv, TypeOK, PerServer, NodeInv, Timers
  <2>8. LogsAreBounded'
        BY <2>2, <2>4 DEF TypeInv, LogsAreBounded, NodeInv
  <2> QED BY <2>2, <2>7, <2>8 DEF TypeInv
<1> QED BY <1>2, <1>3

\* Every reachable state of the cluster satisfies the inductive invariant.
THEOREM TypeCorrect == Spec => []TypeInv
<1>1. Init => TypeInv
      BY InitType
<1>2. TypeInv /\ [Next]_vars => TypeInv'
  <2> SUFFICES ASSUME TypeInv, [Next]_vars PROVE TypeInv'
      OBVIOUS
  <2>1. CASE UNCHANGED vars
        BY <2>1 DEF vars, TypeInv, TypeOK, LogsAreBounded, PerServer
  <2>2. CASE Next
        BY <2>2, InputsType, MessagesType, BarrierType, CrashType DEF Next
  <2> QED BY <2>1, <2>2
<1> QED BY <1>1, <1>2, PTL DEF Spec

\* Every variable of the cluster keeps its type: no step of raft.Node or of
\* the harness lets a term, an index or a progress counter wrap around.
THEOREM TypesAreKept == Spec => []TypeOK
BY TypeCorrect, PTL DEF TypeInv

\* Logs stay within their bounds in memory and on disk, leaders probe at most
\* one past their own log, and no probe on its way has a gap pass for a match.
THEOREM LogsStayBounded == Spec => []LogsAreBounded
BY TypeCorrect, PTL DEF TypeInv

-----------------------------------------------------------------------------
(* Why joint consensus is safe: quorums that can be in force at the same   *)
(* time always share a voter.                                              *)

\* Two majorities of one finite set of voters share a member.
LEMMA MajoritiesIntersect ==
    ASSUME NEW voters, IsFiniteSet(voters), NEW A, NEW B,
           majorityMatches(voters, A), majorityMatches(voters, B)
    PROVE  voters \cap A \cap B # {}
<1> DEFINE VA == voters \cap A
           VB == voters \cap B
<1>1. IsFiniteSet(VA) /\ IsFiniteSet(VB) /\ IsFiniteSet(VA \cup VB)
      BY FS_Subset, VA \subseteq voters, VB \subseteq voters, VA \cup VB \subseteq voters
<1>2. Cardinality(voters) \in Nat /\ Cardinality(VA) \in Nat /\ Cardinality(VB) \in Nat
      BY <1>1, FS_CardinalityType
<1>3. Cardinality(VA \cup VB) <= Cardinality(voters)
      BY FS_Subset, VA \cup VB \subseteq voters
<1>4. Cardinality(VA \cup VB)
        = Cardinality(VA) + Cardinality(VB) - Cardinality(VA \cap VB)
      BY <1>1, FS_Union
<1>5. /\ Cardinality(VA) >= Cardinality(voters) \div 2 + 1
      /\ Cardinality(VB) >= Cardinality(voters) \div 2 + 1
      BY DEF majorityMatches
<1>6. SUFFICES ASSUME VA \cap VB = {} PROVE FALSE
      OBVIOUS
<1>7. Cardinality(VA \cap VB) = 0
      BY <1>6, FS_EmptySet
<1> HIDE DEF VA, VB
<1> QED BY <1>2, <1>3, <1>4, <1>5, <1>7

\* Every role set of a configuration is finite, because the universe is.
LEMMA VotersAreFinite ==
    ASSUME NEW m \in Membership
    PROVE  IsFiniteSet(m.voters) /\ IsFiniteSet(m.outgoing)
BY ServerAssumption, FS_Subset DEF Membership

\* Two quorums of one configuration, joint or not, share a voter: what makes
\* a single vote per term enough for a single leader per term.
THEOREM QuorumsIntersect ==
    ASSUME NEW m \in Membership, NEW A, NEW B, quorum(m, A), quorum(m, B)
    PROVE  m.voters \cap A \cap B # {}
BY VotersAreFinite, MajoritiesIntersect DEF quorum

\* A quorum of a stable configuration and a quorum of the joint configuration
\* that transitionMembership lets follow it share a voter, so no two leaders
\* or commits can be decided on either side of the change.
THEOREM JointQuorumsIntersect ==
    ASSUME NEW current \in Membership, NEW next \in Membership, NEW A, NEW B,
           jointTransitionOK(current, next), quorum(current, A), quorum(next, B)
    PROVE  current.voters \cap A \cap B # {}
<1>1. majorityMatches(current.voters, A)
      BY DEF quorum
<1>2. majorityMatches(current.voters, B)
      BY DEF quorum, jointTransitionOK
<1> QED BY <1>1, <1>2, VotersAreFinite, MajoritiesIntersect

\* The same for the final configuration and the joint one that it leaves.
THEOREM FinalQuorumsIntersect ==
    ASSUME NEW current \in Membership, NEW next \in Membership, NEW A, NEW B,
           finalTransitionOK(current, next), quorum(current, A), quorum(next, B)
    PROVE  next.voters \cap A \cap B # {}
<1>1. majorityMatches(next.voters, A)
      BY DEF quorum, finalTransitionOK
<1>2. majorityMatches(next.voters, B)
      BY DEF quorum
<1> QED BY <1>1, <1>2, VotersAreFinite, MajoritiesIntersect

-----------------------------------------------------------------------------
(* Votes.                                                                  *)

\* n is a record with the fields of a node.
Shape(n) == n = [f \in NodeFields |-> n[f]]

\* The fields elections depend on.
VoteFields == {"id", "role", "term", "votedFor", "votes", "electionVotes", "electionMembership"}

\* k differs from n in nothing that matters to elections, except that it may
\* have stepped down.
KeepsVote(n, k) ==
    /\ Shape(k)
    /\ k.id = n.id /\ k.term = n.term /\ k.votedFor = n.votedFor
    /\ \/ k.role = Follower
       \/ /\ k.role = n.role /\ k.votes = n.votes
          /\ k.electionVotes = n.electionVotes
          /\ k.electionMembership = n.electionMembership

\* No vote is granted among the messages of e.
NoGrant(e) == \A m \in e.send : m.type # "RequestVoteResponse"

\* A transition without a vote.
Keeps(n, r) == KeepsVote(n, r.node) /\ NoGrant(r.effects)

\* Two transitions without a vote make one.
LEMMA KeepsTransitive ==
    ASSUME NEW n, NEW k, NEW l, KeepsVote(n, k), KeepsVote(k, l)
    PROVE  KeepsVote(n, l)
BY DEF KeepsVote

\* Assigning other fields is no vote.
LEMMA KeepsOthers ==
    ASSUME NEW n, NEW k, Shape(k), \A f \in VoteFields : k[f] = n[f]
    PROVE  KeepsVote(n, k)
BY DEF KeepsVote, VoteFields

\* Changing nothing is no vote.
LEMMA KeepsSelf ==
    ASSUME NEW n, Shape(n)
    PROVE  KeepsVote(n, n)
BY DEF KeepsVote

\* Lists of effects without a granted vote can be appended to each other.
LEMMA NoGrants ==
    /\ NoGrant(NoEffects) /\ NoGrant(ResetElectionTimer)
    /\ \A e, f : NoGrant(e) /\ NoGrant(f) => NoGrant(Then(e, f))
BY DEF NoGrant, NoEffects, ResetElectionTimer, Then

\* A transition to such a node, without a granted vote, is one without a vote.
LEMMA KeepsResult ==
    ASSUME NEW n, NEW k, NEW dirty, NEW e, KeepsVote(n, k), NoGrant(e)
    PROVE  Keeps(n, Result(k, dirty, e))
BY DEF Keeps, Result

\* So is an error.
LEMMA KeepsFailure ==
    ASSUME NEW n, Shape(n)
    PROVE  Keeps(n, Failure(n))
BY KeepsSelf, NoGrants DEF Keeps, Failure

\* refreshMembership changes the cached configuration only.
LEMMA KeepsRefresh ==
    ASSUME NEW n, Shape(n)
    PROVE  KeepsVote(n, refreshMembership(n))
<1> DEFINE k == refreshMembership(n)
<1>1. Shape(k) /\ \A f \in VoteFields : k[f] = n[f]
      BY DEF Shape, refreshMembership, NodeFields, VoteFields
<1> QED BY <1>1, KeepsOthers

\* becomeFollower forgets a vote only when it is given a higher term.
LEMMA KeepsStepDown ==
    ASSUME NEW n, Shape(n), NEW term, NEW leader, ~(term > n.term)
    PROVE  /\ KeepsVote(n, becomeFollower(n, term, leader))
           /\ becomeFollower(n, term, leader).role = Follower
<1> DEFINE k == becomeFollower(n, term, leader)
<1>1. Shape(k)
      BY DEF Shape, becomeFollower, NodeFields
<1>2. k.id = n.id /\ k.term = n.term /\ k.votedFor = n.votedFor /\ k.role = Follower
      BY DEF Shape, becomeFollower, NodeFields
<1> QED BY <1>1, <1>2 DEF KeepsVote

\* applyCommitted changes the applied index only and sends nothing.
LEMMA KeepsApply ==
    ASSUME NEW n, Shape(n)
    PROVE  Keeps(n, applyCommitted(n)) /\ applyCommitted(n).node.role = n.role
           /\ applyCommitted(n).effects.send = {}
<1> DEFINE k == [n EXCEPT !.applied = IF @ < n.commit THEN n.commit ELSE @]
           e == [NoEffects EXCEPT !.apply = (n.applied + 1)..n.commit]
<1>1. Shape(k) /\ \A f \in VoteFields : k[f] = n[f]
      BY DEF Shape, NodeFields, VoteFields
<1>2. e.send = {}
      BY DEF NoEffects
<1>3. applyCommitted(n) = Result(k, FALSE, e)
      BY DEF applyCommitted
<1> HIDE DEF k, e
<1> QED BY <1>1, <1>2, <1>3, KeepsOthers DEF Keeps, NoGrant, Result, VoteFields

\* advanceCommit may make the leader step down, within its term.
LEMMA KeepsAdvance ==
    ASSUME NEW n, Shape(n), n.term \in Nat
    PROVE  Keeps(n, advanceCommit(n))
<1> DEFINE index == CHOOSE i \in committable(n) : \A j \in committable(n) : j <= i
           committed == [n EXCEPT !.commit = index]
           applied == applyCommitted(committed)
           m == applied.node
           k == IF m.role = Leader /\ ~isVoter(m.membership, m.id)
                THEN becomeFollower(m, m.term, Nil) ELSE m
<1>1. CASE committable(n) = {}
  <2>1. advanceCommit(n) = Result(n, FALSE, NoEffects)
        BY <1>1 DEF advanceCommit
  <2> QED BY <2>1, KeepsSelf, KeepsResult, NoGrants
<1>2. CASE committable(n) # {}
  <2>1. advanceCommit(n) = Result(k, TRUE, applied.effects)
        BY <1>2 DEF advanceCommit
  <2> HIDE DEF index
  <2>2. Shape(committed) /\ \A f \in VoteFields : committed[f] = n[f]
        BY DEF Shape, NodeFields, VoteFields
  <2> HIDE DEF committed
  <2>3. KeepsVote(n, committed) /\ Shape(committed)
        BY <2>2, KeepsOthers
  <2>4. Keeps(committed, applied)
        BY <2>3, KeepsApply
  <2> HIDE DEF applied
  <2>5. KeepsVote(n, m) /\ Shape(m) /\ m.term = n.term /\ NoGrant(applied.effects)
        BY <2>3, <2>4, KeepsTransitive DEF Keeps, KeepsVote
  <2> HIDE DEF m
  <2>6. KeepsVote(m, becomeFollower(m, m.term, Nil))
        BY <2>5, KeepsStepDown
  <2>7. KeepsVote(n, k)
        BY <2>5, <2>6, KeepsTransitive
  <2> HIDE DEF k
  <2> QED BY <2>1, <2>5, <2>7, KeepsResult
<1> QED BY <1>1, <1>2

\* appendFor sends no vote.
LEMMA AppendIsNoGrant ==
    ASSUME NEW n, NEW member
    PROVE  appendMessage(n, member).type # "RequestVoteResponse"
BY Zenon DEF appendMessage

\* Neither does sending appends to a set of members.
LEMMA KeepsAppendTo ==
    ASSUME NEW n, Shape(n), NEW members
    PROVE  Keeps(n, appendTo(n, members)) /\ appendTo(n, members).node.role = n.role
<1> DEFINE m == [n EXCEPT !.appendSequence =
                    [s \in Server |-> IF s \in members THEN @[s] + 1 ELSE @[s]]]
           messages == {appendMessage(m, s) : s \in members}
<1>1. appendTo(n, members) = Result(m, FALSE, Sends(messages))
      BY DEF appendTo
<1>2. Shape(m) /\ \A f \in VoteFields : m[f] = n[f]
      BY DEF Shape, NodeFields, VoteFields
<1> HIDE DEF m
<1>3. NoGrant(Sends(messages))
      BY AppendIsNoGrant DEF NoGrant, Sends, NoEffects
<1>4. KeepsVote(n, m) /\ m.role = n.role
      BY <1>2, KeepsOthers DEF VoteFields
<1> QED BY <1>1, <1>3, <1>4, KeepsResult DEF Result

\* Neither does what a leader does after appending to its own log.
LEMMA KeepsReplicate ==
    ASSUME NEW n, Shape(n), n.term \in Nat
    PROVE  Keeps(n, replicate(n))
<1> DEFINE local == [n EXCEPT !.matchIndex[n.id] = lastIndex(n)]
           advanced == advanceCommit(local)
           sent == IF advanced.node.role = Leader THEN broadcastAppend(advanced.node)
                   ELSE Result(advanced.node, FALSE, NoEffects)
<1>1. replicate(n) = Result(sent.node, TRUE, Then(advanced.effects, sent.effects))
      BY DEF replicate
<1>2. Shape(local) /\ \A f \in VoteFields : local[f] = n[f]
      BY DEF Shape, NodeFields, VoteFields
<1> HIDE DEF local
<1>3. KeepsVote(n, local) /\ local.term \in Nat
      BY <1>2, KeepsOthers DEF VoteFields
<1>4. Keeps(local, advanced)
      BY <1>2, <1>3, KeepsAdvance
<1> HIDE DEF advanced
<1>5. KeepsVote(n, advanced.node) /\ Shape(advanced.node) /\ NoGrant(advanced.effects)
      BY <1>3, <1>4, KeepsTransitive DEF Keeps, KeepsVote
<1>6. Keeps(advanced.node, sent)
      BY <1>5, KeepsAppendTo, KeepsSelf, KeepsResult, NoGrants DEF broadcastAppend
<1> HIDE DEF sent
<1>7. KeepsVote(n, sent.node) /\ NoGrant(sent.effects)
      BY <1>5, <1>6, KeepsTransitive DEF Keeps
<1> QED BY <1>1, <1>5, <1>7, NoGrants, KeepsResult

-----------------------------------------------------------------------------
(* Client requests, appends and snapshots have no part in elections.       *)

\* Appending an entry to the log is no vote.
LEMMA KeepsLogEntry ==
    ASSUME NEW n, Shape(n), n.term \in Nat, NEW entry
    PROVE  LET k == [n EXCEPT !.log = Append(@, entry)]
           IN  Shape(k) /\ KeepsVote(n, k) /\ k.term \in Nat
<1> DEFINE k == [n EXCEPT !.log = Append(@, entry)]
<1>1. Shape(k) /\ \A f \in VoteFields : k[f] = n[f]
      BY DEF Shape, NodeFields, VoteFields
<1> HIDE DEF k
<1>2. KeepsVote(n, k)
      BY <1>1, KeepsOthers
<1> QED BY <1>1, <1>2 DEF k, KeepsVote

\* The heartbeat timeout gives no vote.
LEMMA KeepsHeartbeat ==
    ASSUME NEW n, Shape(n)
    PROVE  Keeps(n, heartbeatTimeout(n))
<1> DEFINE r == broadcastAppend(n)
           q == [r EXCEPT !.effects.timers = {"heartbeat"}]
<1>1. Keeps(n, r)
      BY KeepsAppendTo DEF broadcastAppend
<1>2. q.node = r.node /\ q.effects.send = r.effects.send
      BY DEF broadcastAppend, appendTo, Result, Sends, NoEffects
<1> HIDE DEF r
<1>3. Keeps(n, q)
      BY <1>1, <1>2 DEF Keeps, NoGrant
<1>4. Keeps(n, Result(n, FALSE, NoEffects))
      BY KeepsSelf, KeepsResult, NoGrants
<1> QED BY <1>3, <1>4 DEF heartbeatTimeout, r

\* A proposal gives no vote.
LEMMA KeepsProposal ==
    ASSUME NEW n, Shape(n), n.term \in Nat, NEW command
    PROVE  Keeps(n, proposal(n, command))
<1> DEFINE k == [n EXCEPT !.log = Append(@, newEntry(n, "command", command, NoMembership))]
<1>1. Shape(k) /\ KeepsVote(n, k) /\ k.term \in Nat
      BY KeepsLogEntry
<1>2. proposal(n, command) = Failure(n) \/ proposal(n, command) = replicate(k)
      BY DEF proposal
<1> HIDE DEF k
<1>3. Keeps(n, replicate(k))
      BY <1>1, KeepsReplicate, KeepsTransitive DEF Keeps
<1> QED BY <1>2, <1>3, KeepsFailure

\* appendMembershipEntry gives no vote, whatever the configuration.
LEMMA KeepsAppendMembership ==
    ASSUME NEW n, Shape(n), n.term \in Nat, NEW type, NEW membership
    PROVE  Keeps(n, appendMembershipEntry(n, type, membership))
<1> DEFINE k == [n EXCEPT !.log = Append(@, newEntry(n, type, NoCommand, membership))]
           l == refreshMembership(k)
<1>1. Shape(k) /\ KeepsVote(n, k) /\ k.term \in Nat
      BY KeepsLogEntry
<1>2. \/ appendMembershipEntry(n, type, membership) = Failure(n)
      \/ appendMembershipEntry(n, type, membership) = replicate(l)
      BY DEF appendMembershipEntry
<1> HIDE DEF k
<1>3. KeepsVote(n, l) /\ Shape(l) /\ l.term \in Nat
      BY <1>1, KeepsRefresh, KeepsTransitive DEF KeepsVote
<1> HIDE DEF l
<1>4. Keeps(n, replicate(l))
      BY <1>3, KeepsReplicate, KeepsTransitive DEF Keeps
<1> QED BY <1>2, <1>4, KeepsFailure

\* Neither do the two inputs that call it.
LEMMA KeepsMembershipInputs ==
    ASSUME NEW n, Shape(n), n.term \in Nat, NEW voters, NEW learners
    PROVE  Keeps(n, beginMembership(n, voters, learners)) /\ Keeps(n, finalizeMembership(n))
<1>1. \/ beginMembership(n, voters, learners) = Failure(n)
      \/ \E m : beginMembership(n, voters, learners) = appendMembershipEntry(n, "joint", m)
      BY Zenon DEF beginMembership
<1>2. \/ finalizeMembership(n) = Failure(n)
      \/ \E m : finalizeMembership(n) = appendMembershipEntry(n, "final", m)
      BY Zenon DEF finalizeMembership
<1> QED BY <1>1, <1>2, KeepsFailure, KeepsAppendMembership

\* Compaction gives no vote.
LEMMA KeepsSnapshot ==
    ASSUME NEW n, Shape(n), NEW index, NEW data
    PROVE  Keeps(n, takeSnapshot(n, index, data))
<1> DEFINE snap == [index |-> index, term |-> termAt(n, index),
                    membership |-> membershipAt(n, index), data |-> data]
           log == entriesFrom(n, index + 1)
           k == [n EXCEPT !.snap = snap, !.log = log]
<1>1. \/ takeSnapshot(n, index, data) = Failure(n)
      \/ takeSnapshot(n, index, data) = Result(refreshMembership(k), TRUE, NoEffects)
      BY DEF takeSnapshot
<1> HIDE DEF snap, log
<1>2. Shape(k) /\ \A f \in VoteFields : k[f] = n[f]
      BY DEF Shape, NodeFields, VoteFields
<1> HIDE DEF k
<1>3. KeepsVote(n, refreshMembership(k))
      BY <1>2, KeepsOthers, KeepsRefresh, KeepsTransitive
<1> QED BY <1>1, <1>3, KeepsResult, KeepsFailure, NoGrants

\* Following the sender of a message of the same term keeps the vote.
LEMMA KeepsFollowSender ==
    ASSUME NEW n, Shape(n), NEW m, ~(m.term > n.term)
    PROVE  KeepsVote(n, followSender(n, m))
BY KeepsStepDown, KeepsSelf DEF followSender

\* Storing entries keeps the vote.
LEMMA KeepsStore ==
    ASSUME NEW n, Shape(n), NEW m
    PROVE  KeepsVote(n, storeEntries(n, m))
<1> DEFINE log == truncateFrom(n, m.prevLogIndex + firstOf(newEntries(n, m)))
                    \o SubSeq(m.entries, firstOf(newEntries(n, m)), Len(m.entries))
           k == [n EXCEPT !.log = log]
<1>1. storeEntries(n, m) = n \/ storeEntries(n, m) = refreshMembership(k)
      BY DEF storeEntries
<1> HIDE DEF log
<1>2. Shape(k) /\ \A f \in VoteFields : k[f] = n[f]
      BY DEF Shape, NodeFields, VoteFields
<1> HIDE DEF k
<1> QED BY <1>1, <1>2, KeepsSelf, KeepsOthers, KeepsRefresh, KeepsTransitive

\* So does accepting them.
LEMMA KeepsAccept ==
    ASSUME NEW n, Shape(n), NEW m
    PROVE  Keeps(n, acceptEntries(n, m))
<1> DEFINE stored == storeEntries(n, m)
           commit == minimum(m.leaderCommit, lastIndex(stored))
           k == [stored EXCEPT !.commit = commit]
           committed == IF m.leaderCommit > n.commit THEN applyCommitted(k)
                        ELSE Result(stored, FALSE, NoEffects)
           dirty == newEntries(n, m) # {} \/ m.leaderCommit > n.commit
<1>1. acceptEntries(n, m) = Result(committed.node, dirty, committed.effects)
      BY DEF acceptEntries
<1>2. KeepsVote(n, stored) /\ Shape(stored)
      BY KeepsStore DEF KeepsVote
<1> HIDE DEF stored, commit, dirty
<1>3. Shape(k) /\ \A f \in VoteFields : k[f] = stored[f]
      BY <1>2 DEF Shape, NodeFields, VoteFields
<1> HIDE DEF k
<1>4. Keeps(n, applyCommitted(k))
  <2>1. KeepsVote(n, k)
        BY <1>2, <1>3, KeepsOthers, KeepsTransitive
  <2> QED BY <1>3, <2>1, KeepsApply, KeepsTransitive DEF Keeps
<1>5. Keeps(n, Result(stored, FALSE, NoEffects))
      BY <1>2, KeepsResult, NoGrants
<1>6. Keeps(n, committed)
      BY <1>4, <1>5
<1> HIDE DEF committed
<1> QED BY <1>1, <1>6, KeepsResult DEF Keeps

\* handleAppendEntries gives no vote and takes none back, on all its paths.
LEMMA KeepsAppendEntries ==
    ASSUME NEW n, Shape(n), NEW m, ~(m.term > n.term)
    PROVE  Keeps(n, handleAppendEntries(n, m))
<1> DEFINE f == followSender(n, m)
           reject(g, hint) == Sends({appendResponse(g, m, FALSE, 0, hint)})
           refuse(hint) == Result(f, FALSE, Then(ResetElectionTimer, reject(f, hint)))
           accepted == acceptEntries(f, m)
           confirm == Sends({appendResponse(accepted.node, m, TRUE,
                                            m.prevLogIndex + Len(m.entries), 0)})
           done == Result(accepted.node, accepted.dirty,
                          Then(Then(ResetElectionTimer, accepted.effects), confirm))
<1>1. \/ \E hint : handleAppendEntries(n, m) = Result(n, FALSE, reject(n, hint))
      \/ \E hint : handleAppendEntries(n, m) = refuse(hint)
      \/ handleAppendEntries(n, m) = done
      BY Zenon DEF handleAppendEntries
<1>2. \A g, hint : NoGrant(reject(g, hint))
      BY DEF NoGrant, Sends, NoEffects, appendResponse
<1>3. NoGrant(confirm)
      BY DEF NoGrant, Sends, NoEffects, appendResponse
<1>4. KeepsVote(n, f) /\ Shape(f)
      BY KeepsFollowSender DEF KeepsVote
<1>5. KeepsVote(n, accepted.node) /\ NoGrant(accepted.effects)
      BY <1>4, KeepsAccept, KeepsTransitive DEF Keeps
<1> HIDE DEF f, accepted, confirm, reject
<1>6. Keeps(n, done)
      BY <1>3, <1>5, NoGrants, KeepsResult
<1>7. \A hint : Keeps(n, refuse(hint)) /\ Keeps(n, Result(n, FALSE, reject(n, hint)))
      BY <1>2, <1>4, NoGrants, KeepsResult, KeepsSelf
<1> QED BY <1>1, <1>6, <1>7

\* The same for handleInstallSnapshot.
LEMMA KeepsInstall ==
    ASSUME NEW n, Shape(n), NEW m, ~(m.term > n.term)
    PROVE  Keeps(n, handleInstallSnapshot(n, m))
<1> DEFINE f == followSender(n, m)
           s == m.snapshot
           answer(g, success, index) == Sends({snapshotResponse(g, m, success, index)})
           keep(success, index) ==
               Result(f, FALSE, Then(ResetElectionTimer, answer(f, success, index)))
           installed == installSnapshot(f, s)
           effects == [Then(ResetElectionTimer, answer(installed, TRUE, s.index))
                            EXCEPT !.install = TRUE]
<1>1. \/ handleInstallSnapshot(n, m) = Result(n, FALSE, answer(n, FALSE, n.snap.index))
      \/ \E success, index : handleInstallSnapshot(n, m) = keep(success, index)
      \/ handleInstallSnapshot(n, m) = Result(installed, TRUE, effects)
      BY Zenon DEF handleInstallSnapshot
<1>2. \A g, success, index : NoGrant(answer(g, success, index))
      BY DEF NoGrant, Sends, NoEffects, snapshotResponse
<1>3. KeepsVote(n, f) /\ Shape(f)
      BY KeepsFollowSender DEF KeepsVote
<1>4. KeepsVote(f, installed)
  <2> DEFINE suffix == retainedSuffix(f, s)
             k == [f EXCEPT !.snap = s, !.log = suffix,
                            !.commit = s.index, !.applied = s.index]
  <2>1. installed = refreshMembership(k)
        BY DEF installSnapshot
  <2> HIDE DEF suffix, f, s
  <2>2. Shape(k) /\ \A x \in VoteFields : k[x] = f[x]
        BY <1>3 DEF Shape, NodeFields, VoteFields
  <2> HIDE DEF k
  <2> QED BY <2>1, <2>2, KeepsOthers, KeepsRefresh, KeepsTransitive
<1>5. NoGrant(effects)
  <2>1. effects.send = Then(ResetElectionTimer, answer(installed, TRUE, s.index)).send
        BY DEF Then
  <2> QED BY <1>2, <2>1, NoGrants DEF NoGrant
<1> HIDE DEF f, installed, effects, answer
<1>6. Keeps(n, Result(installed, TRUE, effects))
      BY <1>3, <1>4, <1>5, KeepsTransitive, KeepsResult
<1>7. \A success, index : Keeps(n, keep(success, index))
      BY <1>2, <1>3, NoGrants, KeepsResult
<1>8. Keeps(n, Result(n, FALSE, answer(n, FALSE, n.snap.index)))
      BY <1>2, KeepsSelf, KeepsResult
<1> QED BY <1>1, <1>6, <1>7, <1>8

\* The same for what a leader does with an acknowledgement.
LEMMA KeepsProgress ==
    ASSUME NEW n, Shape(n), n.term \in Nat, NEW m
    PROVE  Keeps(n, recordProgress(n, m))
<1> DEFINE last == minimum(m.matchIndex, lastIndex(n))
           updated == [n EXCEPT !.matchIndex[m.from] = last,
                                !.nextIndex[m.from] = nextIndexAfter(last)]
           recorded == IF m.matchIndex > n.matchIndex[m.from] THEN updated ELSE n
           advanced == advanceCommit(recorded)
           lagging == /\ advanced.node.role = Leader
                      /\ advanced.node.matchIndex[m.from] < lastIndex(advanced.node)
           sent == IF lagging THEN appendTo(advanced.node, {m.from})
                   ELSE Result(advanced.node, FALSE, NoEffects)
<1>1. recordProgress(n, m) = Result(sent.node, advanced.effects.apply # {},
                                    Then(advanced.effects, sent.effects))
      BY DEF recordProgress
<1> HIDE DEF last
<1>2. Shape(updated) /\ \A f \in VoteFields : updated[f] = n[f]
      BY DEF Shape, NodeFields, VoteFields
<1> HIDE DEF updated
<1>3. KeepsVote(n, recorded) /\ Shape(recorded) /\ recorded.term \in Nat
      BY <1>2, KeepsOthers, KeepsSelf DEF VoteFields
<1> HIDE DEF recorded
<1>4. Keeps(recorded, advanced)
      BY <1>3, KeepsAdvance
<1> HIDE DEF advanced
<1>5. KeepsVote(n, advanced.node) /\ Shape(advanced.node) /\ NoGrant(advanced.effects)
      BY <1>3, <1>4, KeepsTransitive DEF Keeps, KeepsVote
<1> HIDE DEF lagging
<1>6. Keeps(advanced.node, sent)
      BY <1>5, KeepsAppendTo, KeepsSelf, KeepsResult, NoGrants
<1> HIDE DEF sent
<1>7. KeepsVote(n, sent.node) /\ NoGrant(sent.effects)
      BY <1>5, <1>6, KeepsTransitive DEF Keeps
<1> QED BY <1>1, <1>5, <1>7, NoGrants, KeepsResult

\* The same for the two response handlers.
LEMMA KeepsResponses ==
    ASSUME NEW n, Shape(n), n.term \in Nat, NEW m
    PROVE  /\ Keeps(n, handleAppendEntriesResponse(n, m))
           /\ Keeps(n, handleInstallSnapshotResponse(n, m))
<1>1. Keeps(n, Result(n, FALSE, NoEffects)) /\ Keeps(n, recordProgress(n, m))
      BY KeepsSelf, KeepsResult, NoGrants, KeepsProgress
<1>2. \A index : Keeps(n, appendTo([n EXCEPT !.nextIndex[m.from] = index], {m.from}))
  <2> TAKE index
  <2> DEFINE k == [n EXCEPT !.nextIndex[m.from] = index]
  <2>1. Shape(k) /\ \A f \in VoteFields : k[f] = n[f]
        BY DEF Shape, NodeFields, VoteFields
  <2> HIDE DEF k
  <2>2. Keeps(n, appendTo(k, {m.from}))
        BY <2>1, KeepsOthers, KeepsAppendTo, KeepsTransitive DEF Keeps
  <2> QED BY <2>2 DEF k
<1>3. \/ handleAppendEntriesResponse(n, m) = Result(n, FALSE, NoEffects)
      \/ handleAppendEntriesResponse(n, m) = recordProgress(n, m)
      \/ \E index : handleAppendEntriesResponse(n, m) =
                        appendTo([n EXCEPT !.nextIndex[m.from] = index], {m.from})
      BY Zenon DEF handleAppendEntriesResponse
<1>4. \/ handleInstallSnapshotResponse(n, m) = Result(n, FALSE, NoEffects)
      \/ handleInstallSnapshotResponse(n, m) = recordProgress(n, m)
      BY DEF handleInstallSnapshotResponse
<1> QED BY <1>1, <1>2, <1>3, <1>4

-----------------------------------------------------------------------------
\* The servers whose votes the message m gives to node n.
GrantedBy(n, m) == IF Grant(m) /\ m.term = n.term THEN {m.from} ELSE {}

\* What a transition r of node n does to its votes; X holds the servers whose
\* votes come with the input.
VoteStep(n, X, r) ==
    /\ VoteOK(r.node)
    /\ r.node.term >= n.term
    /\ r.node.term = n.term /\ n.votedFor # Nil => r.node.votedFor = n.votedFor
    /\ ~r.dirty => r.node.term = n.term /\ r.node.votedFor = n.votedFor
    /\ r.node.role # Follower => \A v \in r.node.votes \ {n.id} :
            n.role # Follower /\ r.node.term = n.term /\ v \in n.votes \cup X
    /\ \A m \in r.effects.send : Grant(m) => m.term = r.node.term /\ m.to = r.node.votedFor

\* A transition without a vote respects votes.
LEMMA KeepsIsVoteStep ==
    ASSUME NEW n, VoteOK(n), n.term \in Nat, NEW r, Keeps(n, r), NEW X
    PROVE  VoteStep(n, X, r)
<1>1. r.node.term = n.term /\ r.node.votedFor = n.votedFor /\ r.node.id = n.id
      BY DEF Keeps, KeepsVote
<1>2. r.node.role # Follower =>
        /\ r.node.role = n.role /\ r.node.votes = n.votes
        /\ r.node.electionVotes = n.electionVotes
        /\ r.node.electionMembership = n.electionMembership
      BY DEF Keeps, KeepsVote
<1>3. \A m \in r.effects.send : ~Grant(m)
      BY DEF Keeps, NoGrant, Grant
<1>4. VoteOK(r.node)
      BY <1>1, <1>2 DEF VoteOK, Leader, Follower
<1> QED BY <1>1, <1>2, <1>3, <1>4 DEF VoteStep

\* A node that wins has the votes it counted as a candidate, and a quorum.
LEMMA BecomeLeaderVotes ==
    ASSUME NEW n, Shape(n), n.term \in Nat, n.votedFor = n.id,
           quorum(n.membership, n.votes), ~becomeLeader(n).err
    PROVE  LET r == becomeLeader(n)
           IN  /\ VoteOK(r.node) /\ r.dirty /\ NoGrant(r.effects)
               /\ r.node.term = n.term /\ r.node.votedFor = n.id
               /\ r.node.role # Follower => r.node.votes = n.votes
<1> DEFINE log == Append(n.log, newEntry(n, "noop", NoCommand, NoMembership))
           next == [s \in Server |-> lastIndex(n) + 1]
           k == [n EXCEPT !.role = Leader, !.leader = n.id,
                          !.electionVotes = n.votes,
                          !.electionMembership = n.membership,
                          !.nextIndex = next,
                          !.matchIndex = ZeroMap,
                          !.appendSequence = ZeroMap,
                          !.log = log]
           q == replicate(k)
           e == [q.effects EXCEPT !.timers = {"heartbeat"}]
<1>1. becomeLeader(n) = Result(q.node, TRUE, e)
  <2>1. becomeLeader(n) = IF lastIndex(n) = MaxIndex THEN Failure(n) ELSE Result(q.node, TRUE, e)
        BY DEF becomeLeader
  <2>2. Failure(n).err
        BY DEF Failure
  <2> QED BY <2>1, <2>2
<1> HIDE DEF log, next
<1>2. /\ Shape(k) /\ k.id = n.id /\ k.term = n.term /\ k.votedFor = n.votedFor
      /\ k.votes = n.votes /\ k.electionVotes = n.votes
      /\ k.electionMembership = n.membership
      BY DEF Shape, NodeFields
<1> HIDE DEF k
<1>3. Keeps(k, q)
      BY <1>2, KeepsReplicate
<1>4. e.send = q.effects.send
      BY DEF replicate, Result, Then
<1> HIDE DEF q, e
<1>5. VoteOK(k)
      BY <1>2 DEF VoteOK
<1>6. VoteStep(k, {}, q)
      BY <1>2, <1>3, <1>5, KeepsIsVoteStep
<1>7. VoteOK(q.node) /\ q.node.term = n.term /\ q.node.votedFor = n.id
      BY <1>2, <1>3, <1>6 DEF VoteStep, Keeps, KeepsVote
<1>8. q.node.role # Follower => q.node.votes = n.votes
      BY <1>2, <1>3 DEF Keeps, KeepsVote
<1>9. NoGrant(e)
      BY <1>3, <1>4 DEF Keeps, NoGrant
<1> QED BY <1>1, <1>7, <1>8, <1>9 DEF Result

\* An election timeout opens a new term with a vote for itself, which a crash
\* before the write takes back together with the term.
LEMMA ElectionTimeoutVotes ==
    ASSUME NEW n, Shape(n), VoteOK(n), n.term \in Nat, ~electionTimeout(n).err, NEW X
    PROVE  VoteStep(n, X, electionTimeout(n))
<1> DEFINE c == [n EXCEPT !.role = Candidate, !.leader = Nil, !.term = @ + 1,
                          !.votedFor = n.id, !.votes = {n.id}, !.electionVotes = {},
                          !.nextIndex = ZeroMap, !.matchIndex = ZeroMap,
                          !.appendSequence = ZeroMap]
           request(s) == [type |-> "RequestVote", from |-> n.id, to |-> s,
                          term |-> c.term, lastLogIndex |-> lastIndex(c),
                          lastLogTerm |-> lastTerm(c)]
           asked == Then(ResetElectionTimer,
                        Sends({request(s) : s \in voterUnion(c.membership) \ {n.id}}))
           won == [becomeLeader(c) EXCEPT !.effects = Then(ResetElectionTimer, @)]
<1>1. \/ electionTimeout(n) = Result(n, FALSE, NoEffects)
      \/ quorum(c.membership, {n.id}) /\ electionTimeout(n) = won
      \/ electionTimeout(n) = Result(c, TRUE, asked)
  <2>1. Failure(n).err
        BY DEF Failure
  <2>2. electionTimeout(n) # Failure(n)
        BY <2>1
  <2> QED BY <2>2, Zenon DEF electionTimeout, startElection
<1>2. /\ Shape(c) /\ c.id = n.id /\ c.term = n.term + 1 /\ c.votedFor = n.id
      /\ c.votes = {n.id} /\ c.role = Candidate
      BY DEF Shape, NodeFields
<1>3. \A m \in asked.send : ~Grant(m)
      BY DEF Then, Sends, NoEffects, ResetElectionTimer, Grant
<1> HIDE DEF c, asked
<1>4. CASE electionTimeout(n) = Result(n, FALSE, NoEffects)
      BY <1>4, KeepsSelf, NoGrants, KeepsResult, KeepsIsVoteStep
<1>5. CASE electionTimeout(n) = Result(c, TRUE, asked)
  <2>1. VoteOK(c)
        BY <1>2 DEF VoteOK, Candidate, Leader
  <2> QED BY <1>2, <1>3, <1>5, <2>1 DEF VoteStep, Result
<1>6. CASE quorum(c.membership, {n.id}) /\ electionTimeout(n) = won
  <2> DEFINE r == becomeLeader(c)
  <2>1. /\ won.node = r.node /\ won.dirty = r.dirty /\ won.err = r.err
        /\ won.effects = Then(ResetElectionTimer, r.effects)
    <3>1. \E x, y, z, w : r = [node |-> x, dirty |-> y, effects |-> z, err |-> w]
          BY DEF becomeLeader, Failure, Result
    <3> HIDE DEF r
    <3> QED BY <3>1 DEF r
  <2>2. ~r.err
        BY <1>6, <2>1
  <2>3. /\ VoteOK(r.node) /\ r.dirty /\ NoGrant(r.effects)
        /\ r.node.term = n.term + 1 /\ r.node.votedFor = n.id
        /\ r.node.role # Follower => r.node.votes = {n.id}
    <3>1. c.term \in Nat /\ c.votedFor = c.id /\ quorum(c.membership, c.votes)
          BY <1>2, <1>6
    <3> QED BY <1>2, <2>2, <3>1, BecomeLeaderVotes
  <2>4. \A m \in won.effects.send : ~Grant(m)
        BY <2>1, <2>3, NoGrants DEF NoGrant, Grant
  <2> HIDE DEF r, won
  <2>5. VoteOK(won.node) /\ won.dirty /\ won.node.term = n.term + 1 /\ won.node.votedFor = n.id
        BY <2>1, <2>3
  <2>6. won.node.role # Follower => won.node.votes = {n.id}
        BY <2>1, <2>3
  <2>7. VoteStep(n, X, won)
        BY <2>4, <2>5, <2>6 DEF VoteStep
  <2> QED BY <1>6, <2>7
<1> QED BY <1>1, <1>4, <1>5, <1>6

\* handleRequestVote grants one vote per term, persists a new one, and never
\* grants one while it is a candidate itself.
LEMMA RequestVoteVotes ==
    ASSUME NEW n, Shape(n), VoteOK(n), n.term \in Nat, n.id \in Server,
           NEW m, m.from # n.id, NEW X
    PROVE  VoteStep(n, X, handleRequestVote(n, m))
<1> DEFINE granted == voteGranted(n, m)
           voted == IF granted THEN [n EXCEPT !.votedFor = m.from] ELSE n
           response == [type |-> "RequestVoteResponse", from |-> n.id, to |-> m.from,
                        term |-> n.term, voteGranted |-> granted]
           effects == Then(IF granted THEN ResetElectionTimer ELSE NoEffects, Sends({response}))
           dirty == granted /\ n.votedFor # m.from
<1>1. handleRequestVote(n, m) = Result(voted, dirty, effects)
      BY DEF handleRequestVote
<1>2. granted => n.votedFor \in {Nil, m.from}
      BY DEF voteGranted
<1>3. \A g \in effects.send : g.term = n.term /\ g.to = m.from /\ (Grant(g) => granted)
  <2>1. effects.send = {response}
        BY DEF Then, Sends, NoEffects, ResetElectionTimer
  <2>2. Grant(response) => granted
        BY Zenon DEF Grant
  <2> HIDE DEF granted
  <2>3. response.term = n.term /\ response.to = m.from
        OBVIOUS
  <2> HIDE DEF response
  <2> QED BY <2>1, <2>2, <2>3
<1>4. granted => n.role = Follower
      BY <1>2, NilAssumption DEF VoteOK
<1> HIDE DEF granted
<1>5. /\ voted.term = n.term /\ voted.role = n.role /\ voted.votes = n.votes /\ voted.id = n.id
      /\ voted.electionVotes = n.electionVotes
      /\ voted.electionMembership = n.electionMembership
      /\ voted.votedFor = IF granted THEN m.from ELSE n.votedFor
      BY DEF Shape, NodeFields
<1> HIDE DEF voted, effects
<1>6. VoteOK(voted)
      BY <1>4, <1>5 DEF VoteOK, Follower, Leader
<1>7. n.votedFor # Nil => voted.votedFor = n.votedFor
      BY <1>2, <1>5
<1>8. ~dirty => voted.votedFor = n.votedFor
      BY <1>5
<1>9. \A g \in effects.send : Grant(g) => g.term = voted.term /\ g.to = voted.votedFor
      BY <1>3, <1>5
<1> HIDE DEF dirty
<1> QED BY <1>1, <1>5, <1>6, <1>7, <1>8, <1>9 DEF VoteStep, Result

\* handleRequestVoteResponse counts the vote of the sender in its own term only.
LEMMA RequestVoteResponseVotes ==
    ASSUME NEW n, Shape(n), VoteOK(n), n.term \in Nat, NEW m,
           m.type = "RequestVoteResponse", ~handleRequestVoteResponse(n, m).err
    PROVE  VoteStep(n, GrantedBy(n, m), handleRequestVoteResponse(n, m))
<1> DEFINE counted == [n EXCEPT !.votes = @ \cup {m.from}]
           ignored == \/ n.role # Candidate \/ m.term # n.term \/ ~m.voteGranted
                      \/ m.from \in n.votes
<1>1. handleRequestVoteResponse(n, m) =
        IF ignored THEN Result(n, FALSE, NoEffects)
        ELSE IF quorum(n.membership, counted.votes) THEN becomeLeader(counted)
        ELSE Result(counted, FALSE, NoEffects)
      BY DEF handleRequestVoteResponse
<1>2. /\ Shape(counted) /\ counted.term = n.term /\ counted.role = n.role
      /\ counted.votedFor = n.votedFor /\ counted.id = n.id
      /\ counted.membership = n.membership /\ counted.votes = n.votes \cup {m.from}
      BY DEF Shape, NodeFields
<1> HIDE DEF counted
<1>3. CASE ignored
      BY <1>1, <1>3, KeepsSelf, NoGrants, KeepsResult, KeepsIsVoteStep
<1>4. CASE ~ignored
  <2>1. n.role = Candidate /\ GrantedBy(n, m) = {m.from} /\ n.votedFor = n.id
        BY <1>4 DEF GrantedBy, Grant, VoteOK, Candidate, Follower
  <2> HIDE DEF ignored
  <2>2. n.role # Follower
        BY <2>1 DEF Candidate, Follower
  <2>3. CASE ~quorum(n.membership, counted.votes)
    <3>1. handleRequestVoteResponse(n, m) = Result(counted, FALSE, NoEffects)
          BY <1>1, <1>4, <2>3
    <3>2. VoteOK(counted)
          BY <1>2, <2>1 DEF VoteOK, Candidate, Leader
    <3>3. NoEffects.send = {}
          BY DEF NoEffects
    <3> QED BY <1>2, <2>1, <2>2, <3>1, <3>2, <3>3 DEF VoteStep, Result
  <2>4. CASE quorum(n.membership, counted.votes)
    <3> DEFINE r == becomeLeader(counted)
    <3>1. handleRequestVoteResponse(n, m) = r
          BY <1>1, <1>4, <2>4
    <3>2. /\ VoteOK(r.node) /\ r.dirty /\ NoGrant(r.effects)
          /\ r.node.term = n.term /\ r.node.votedFor = n.id
          /\ r.node.role # Follower => r.node.votes = n.votes \cup {m.from}
      <4>1. ~r.err
            BY <3>1
      <4>2. counted.term \in Nat /\ counted.votedFor = counted.id
            BY <1>2, <2>1
      <4>3. quorum(counted.membership, counted.votes)
            BY <1>2, <2>4
      <4> QED BY <1>2, <4>1, <4>2, <4>3, BecomeLeaderVotes
    <3> HIDE DEF r
    <3>3. \A g \in r.effects.send : ~Grant(g)
          BY <3>2 DEF NoGrant, Grant
    <3> QED BY <2>1, <2>2, <3>1, <3>2, <3>3 DEF VoteStep
  <2> QED BY <2>3, <2>4
<1> QED BY <1>3, <1>4

\* Every message handler respects votes.
LEMMA HandleMessageVotes ==
    ASSUME NEW n, Shape(n), VoteOK(n), n.term \in Nat, n.id \in Server,
           NEW m, m.type \in MessageTypes, m.from # n.id, ~(m.term > n.term),
           ~handleMessage(n, m).err
    PROVE  VoteStep(n, GrantedBy(n, m), handleMessage(n, m))
<1>1. CASE m.type = "RequestVote"
      BY <1>1, RequestVoteVotes DEF handleMessage
<1>2. CASE m.type = "RequestVoteResponse"
      BY <1>2, RequestVoteResponseVotes DEF handleMessage
<1>3. CASE m.type = "AppendEntries"
      BY <1>3, KeepsAppendEntries, KeepsIsVoteStep DEF handleMessage
<1>4. CASE m.type = "AppendEntriesResponse"
      BY <1>4, KeepsResponses, KeepsIsVoteStep DEF handleMessage
<1>5. CASE m.type = "InstallSnapshot"
      BY <1>5, KeepsInstall, KeepsIsVoteStep DEF handleMessage
<1>6. CASE m.type = "InstallSnapshotResponse"
      BY <1>6, KeepsResponses, KeepsIsVoteStep DEF handleMessage
<1> QED BY <1>1, <1>2, <1>3, <1>4, <1>5, <1>6 DEF MessageTypes

\* So does stepMessage: the step-down that a higher term forces forgets the
\* vote of an earlier term only, and is always persisted.
LEMMA StepMessageVotes ==
    ASSUME NEW n, NodeInv(n), VoteOK(n), NEW m, MessageInv(m), m.to = n.id,
           ~stepMessage(n, m).err
    PROVE  VoteStep(n, GrantedBy(n, m), stepMessage(n, m))
<1> DEFINE higher == m.term > n.term
           k == IF higher THEN becomeFollower(n, m.term, Nil) ELSE n
           r == handleMessage(k, m)
           q == [r EXCEPT !.dirty = @ \/ higher]
<1>1. /\ m.term \in 0..MaxTerm /\ m.term \in Nat /\ n.term \in Nat
      /\ n.id \in Server /\ m.from # n.id /\ m.type \in MessageTypes /\ Shape(n)
  <2>1. m.term \in 1..MaxTerm /\ MaxTerm \in Nat /\ m.from # m.to /\ m.type \in MessageTypes
        BY ConstantsType DEF MessageInv, MessageOK
  <2>2. n.term \in 0..MaxTerm /\ n.id \in Server /\ Shape(n)
        BY DEF NodeInv, NodeOK, HardStateOK, Shape
  <2> QED BY <2>1, <2>2
<1>2. stepMessage(n, m) = q
      BY DEF stepMessage
<1>3. CASE ~higher
  <2>1. k = n
        BY <1>3
  <2>2. StepInv(n, r)
        BY <1>1, <1>3, <2>1, HandleMessageType DEF StepInv
  <2>3. q = r
    <3> HIDE DEF r, higher
    <3> QED BY <1>3, <2>2 DEF StepInv
  <2>4. VoteStep(n, GrantedBy(n, m), r)
    <3>1. ~r.err
          BY <1>2, <2>3
    <3> QED BY <1>1, <1>3, <2>1, <3>1, HandleMessageVotes
  <2> QED BY <1>2, <2>3, <2>4
<1>4. CASE higher
  <2>1. /\ NodeInv(k) /\ k.id = n.id /\ k.role = Follower /\ k.term = m.term
        BY <1>1, <1>4, BecomeFollowerType
  <2>2. VoteOK(k) /\ k.term \in Nat /\ Shape(k)
        BY <1>1, <2>1 DEF VoteOK, NodeInv, NodeOK, Shape, Follower, Leader
  <2> HIDE DEF k
  <2>3. ~(m.term > k.term) /\ m.term <= k.term
        BY <1>1, <2>1
  <2>4. StepInv(k, r)
        BY <1>1, <2>1, <2>3, HandleMessageType
  <2>5. q.node = r.node /\ q.effects = r.effects /\ q.err = r.err /\ q.dirty = TRUE
    <3> HIDE DEF r, higher
    <3> QED BY <1>4, <2>4 DEF StepInv
  <2>6. VoteStep(k, GrantedBy(k, m), r)
    <3>1. ~r.err
          BY <1>2, <2>5
    <3> QED BY <1>1, <2>1, <2>2, <2>3, <3>1, HandleMessageVotes
  <2>7. r.node.term \in Nat
    <3>1. r.node.term \in 0..MaxTerm /\ MaxTerm \in Nat
          BY <2>4, ConstantsType DEF StepInv, NodeInv, NodeOK, HardStateOK
    <3> QED BY <3>1
  <2> HIDE DEF r, q
  <2>8. VoteStep(n, GrantedBy(n, m), q)
    <3>1. r.node.term > n.term
          BY <1>1, <1>4, <2>1, <2>6, <2>7 DEF VoteStep
    <3>2. r.node.role # Follower => r.node.votes \ {n.id} = {}
          BY <2>1, <2>6 DEF VoteStep
    <3>3. /\ VoteOK(r.node)
          /\ \A g \in r.effects.send : Grant(g) => g.term = r.node.term /\ g.to = r.node.votedFor
          BY <2>6 DEF VoteStep
    <3> QED BY <1>1, <2>5, <2>7, <3>1, <3>2, <3>3 DEF VoteStep
  <2> QED BY <1>2, <2>8
<1> QED BY <1>3, <1>4

\* Start neither gives nor takes a vote.
LEMMA StartVotes ==
    ASSUME NEW n, Shape(n)
    PROVE  KeepsVote(n, Start(n).node)
<1> DEFINE ahead == [n EXCEPT !.applied = n.snap.index]
           installed == IF n.applied < n.snap.index THEN ahead ELSE n
<1>1. Start(n).node = applyCommitted(installed).node
      BY DEF Start, Result
<1>2. Shape(ahead) /\ \A f \in VoteFields : ahead[f] = n[f]
      BY DEF Shape, NodeFields, VoteFields
<1> HIDE DEF ahead
<1>3. KeepsVote(n, installed) /\ Shape(installed)
      BY <1>2, KeepsOthers, KeepsSelf
<1> HIDE DEF installed
<1> QED BY <1>1, <1>3, KeepsApply, KeepsTransitive DEF Keeps

\* New takes term and vote from the durable state.
LEMMA NewVotes ==
    ASSUME NEW s, NEW d, NEW applied
    PROVE  LET k == New(s, d, applied)
           IN  k.role = Follower /\ k.term = d.term /\ k.votedFor = d.votedFor
<1> DEFINE k == [id |-> s, role |-> Follower, leader |-> Nil,
                 term |-> d.term, votedFor |-> d.votedFor,
                 commit |-> d.commit, snap |-> d.snap, log |-> d.log,
                 applied |-> applied, membership |-> NoMembership,
                 votes |-> {}, electionVotes |-> {}, electionMembership |-> NoMembership,
                 nextIndex |-> ZeroMap, matchIndex |-> ZeroMap, appendSequence |-> ZeroMap]
<1>1. New(s, d, applied) = refreshMembership(k)
      BY DEF New
<1>2. Shape(k) /\ k.role = Follower /\ k.term = d.term /\ k.votedFor = d.votedFor
      BY DEF Shape, NodeFields
<1> HIDE DEF k
<1> QED BY <1>1, <1>2, KeepsRefresh DEF KeepsVote
-----------------------------------------------------------------------------
\* What the type invariant says of votes.
LEMMA VoteTypes ==
    ASSUME TypeInv, NEW s \in Server
    PROVE  /\ node[s].id = s /\ Shape(node[s]) /\ node[s].term \in 0..MaxTerm /\ MaxTerm \in Nat
           /\ disk[s].term \in 0..MaxTerm /\ disk[s].votedFor \in Server \cup {Nil}
           /\ node[s].term \in Nat /\ disk[s].term \in Nat
<1>1. NodeInv(node[s]) /\ node[s].id = s /\ HardStateOK(disk[s])
      BY TypeInvAt
<1>2. MaxTerm \in Nat
      BY ConstantsType
<1>3. Shape(node[s])
      BY <1>1 DEF NodeInv, NodeOK, Shape
<1>4. /\ node[s].term \in 0..MaxTerm /\ disk[s].term \in 0..MaxTerm
      /\ disk[s].votedFor \in Server \cup {Nil}
      BY <1>1 DEF NodeInv, NodeOK, HardStateOK
<1> QED BY <1>1, <1>2, <1>3, <1>4

\* The only votes a step makes visible are those a disk records.
VotesAreRecorded ==
    \A x, t \in Server, term \in 0..MaxTerm :
        Voted(x, t, term)' =>
            Voted(x, t, term) \/ (disk[x].term = term /\ disk[x].votedFor = t)

\* Votes stay final as long as disks do not change and the only new votes are
\* those a disk records.
LEMMA FinalVotes ==
    ASSUME TypeInv, VoteInv, disk' = disk, VotesAreRecorded
    PROVE  VotesAreFinal'
<1> SUFFICES ASSUME NEW x \in Server, NEW t \in Server, NEW term \in 0..MaxTerm,
                    Voted(x, t, term)'
             PROVE  /\ Recorded(x, t, term)'
                    /\ \A u \in Server : Voted(x, u, term)' => u = t
    BY DEF VotesAreFinal
<1>1. \A u \in Server : Voted(x, u, term)' => Recorded(x, u, term)
      BY DEF VotesAreRecorded, VoteInv, VotesAreFinal, Recorded
<1>2. Recorded(x, t, term)'
      BY <1>1 DEF Recorded
<1>3. ASSUME NEW u \in Server, Voted(x, u, term)' PROVE u = t
  <2>1. CASE Voted(x, u, term) /\ Voted(x, t, term)
        BY <2>1 DEF VoteInv, VotesAreFinal
  <2>2. CASE disk[x].term = term /\ disk[x].votedFor \in {u, t}
    <3>1. ~(disk[x].term > term)
          BY <2>2, VoteTypes
    <3>2. disk[x].votedFor = u /\ disk[x].votedFor = t
          BY <1>1, <1>3, <3>1 DEF Recorded
    <3> QED BY <3>2
  <2> QED BY <1>3, <2>1, <2>2 DEF VotesAreRecorded
<1> QED BY <1>2, <1>3

\* Cluster.submit keeps the invariant: a vote released at once is already on
\* disk, any other waits.
LEMMA SubmitVotes ==
    ASSUME TypeInv, VoteInv, NEW s \in Server, NEW r, StepInv(node[s], r),
           NEW X, VoteStep(node[s], X, r), Idle(s),
           \A x \in X : Voted(x, s, node[s].term),
           NEW inFlight \in SUBSET net, NEW t, Submit(s, r, inFlight, t)
    PROVE  VoteInv' /\ VotesAreRecorded
<1> DEFINE n == node[s]
<1>1. /\ pending[s].phase = "none" /\ pending[s].effects.send = {}
      BY DEF Idle, NoPending, NoEffects
<1>2. node' = [node EXCEPT ![s] = r.node] /\ disk' = disk
      BY DEF Submit
<1>3. \A u \in Server : node'[u] = IF u = s THEN r.node ELSE node[u]
      BY <1>2 DEF TypeInv, TypeOK, PerServer
<1>4. n.term = disk[s].term /\ n.votedFor = disk[s].votedFor /\ n.id = s
      BY <1>1, VoteTypes DEF VoteInv, WriteOK
<1>5. \/ r.dirty /\ net' = inFlight
         /\ pending' = [pending EXCEPT ![s] = [phase |-> "writing", effects |-> r.effects]]
      \/ ~r.dirty /\ net' \subseteq inFlight \cup r.effects.send /\ pending' = pending
      BY DEF Submit, Send
<1>6. \A u \in Server \ {s} : pending'[u] = pending[u]
      BY <1>5 DEF TypeInv, TypeOK, PerServer
<1>7. /\ \A m \in r.effects.send : m.from = s
      /\ r.node.id = s /\ r.node.term \in Nat /\ n.term \in Nat
  <2>1. r.node.term \in 0..MaxTerm /\ MaxTerm \in Nat
        BY ConstantsType DEF StepInv, NodeInv, NodeOK, HardStateOK
  <2> QED BY <1>4, <2>1, VoteTypes DEF StepInv, SendsOK
<1>8. /\ VoteOK(r.node) /\ r.node.term >= n.term
      /\ r.node.term = n.term /\ n.votedFor # Nil => r.node.votedFor = n.votedFor
      /\ ~r.dirty => r.node.term = n.term /\ r.node.votedFor = n.votedFor
      /\ r.node.role # Follower => \A v \in r.node.votes \ {s} :
              n.role # Follower /\ r.node.term = n.term /\ v \in n.votes \cup X
      /\ \A m \in r.effects.send : Grant(m) => m.term = r.node.term /\ m.to = r.node.votedFor
      BY <1>4 DEF VoteStep
<1>9. (VoteOK(node[s]) /\ WriteOK(s) /\ PendingGrants(s))'
  <2>1. VoteOK(node[s])'
        BY <1>3, <1>8
  <2>2. CASE r.dirty /\ pending' =
                [pending EXCEPT ![s] = [phase |-> "writing", effects |-> r.effects]]
    <3>1. pending'[s].phase = "writing" /\ pending'[s].effects = r.effects
          BY <2>2 DEF TypeInv, TypeOK, PerServer
    <3>2. WriteOK(s)'
          BY <1>2, <1>3, <1>4, <1>7, <1>8, <3>1 DEF WriteOK
    <3>3. PendingGrants(s)'
          BY <1>3, <1>7, <1>8, <3>1 DEF PendingGrants
    <3> QED BY <2>1, <3>2, <3>3
  <2>3. CASE ~r.dirty /\ pending' = pending
    <3>1. WriteOK(s)'
          BY <1>2, <1>3, <1>4, <1>7, <1>8, <2>3 DEF WriteOK
    <3>2. PendingGrants(s)'
          BY <1>1, <2>3 DEF PendingGrants
    <3> QED BY <2>1, <3>1, <3>2
  <2> QED BY <1>5, <2>2, <2>3
<1>10. \A u \in Server \ {s} : (VoteOK(node[u]) /\ WriteOK(u) /\ PendingGrants(u))'
      BY <1>2, <1>3, <1>6 DEF VoteInv, WriteOK, PendingGrants
<1>11. ASSUME NEW x \in Server, NEW c \in Server, NEW term \in 0..MaxTerm, Voted(x, c, term)'
       PROVE  Voted(x, c, term) \/ (disk[x].term = term /\ disk[x].votedFor = c)
  <2>1. CASE \E m \in net' : Grant(m) /\ m.from = x /\ m.to = c /\ m.term = term
    <3>1. PICK m \in net' : Grant(m) /\ m.from = x /\ m.to = c /\ m.term = term
          BY <2>1
    <3>2. CASE m \in net
          BY <3>1, <3>2 DEF Voted
    <3>3. CASE ~r.dirty /\ m \in r.effects.send
          BY <1>4, <1>7, <1>8, <3>1, <3>3
    <3> QED BY <1>5, <3>2, <3>3
  <2>2. CASE node'[c].role # Follower /\ node'[c].term = term /\ x \in node'[c].votes \ {c}
    <3>1. CASE c # s
          BY <1>3, <2>2, <3>1 DEF Voted
    <3>2. CASE c = s
      <4>1. n.role # Follower /\ n.term = term /\ x \in n.votes \cup X /\ x # s
            BY <1>3, <1>8, <2>2, <3>2
      <4> QED BY <3>2, <4>1 DEF Voted
    <3> QED BY <3>1, <3>2
  <2> QED BY <1>11, <2>1, <2>2 DEF Voted
<1>12. VotesAreRecorded
      BY <1>11 DEF VotesAreRecorded
<1>13. VotesAreFinal'
      BY <1>2, <1>12, FinalVotes
<1> QED BY <1>9, <1>10, <1>12, <1>13 DEF VoteInv

\* Timer expirations and client requests.
LEMMA InputsVotes ==
    ASSUME TypeInv, VoteInv, NEW s \in Server,
           \/ ElectionTimeout(s) \/ HeartbeatTimeout(s)
           \/ Snapshot(s) \/ FinalizeMembershipChange(s)
           \/ \E c \in Command : Propose(s, c)
           \/ \E target \in Target : BeginMembershipChange(s, target)
    PROVE  VoteInv' /\ VotesAreRecorded
<1> DEFINE n == node[s]
<1>1. NodeInv(n) /\ store[s].applied \in Nat
      BY TypeInvAt
<1>2. Shape(n) /\ n.term \in Nat /\ VoteOK(n)
      BY VoteTypes DEF VoteInv
<1>3. ASSUME NEW r, NEW t, StepInv(n, r), Keeps(n, r), Idle(s), Submit(s, r, net, t)
      PROVE  VoteInv' /\ VotesAreRecorded
  <2>1. VoteStep(n, {}, r)
        BY <1>2, <1>3, KeepsIsVoteStep
  <2>2. net \in SUBSET net /\ \A x \in {} : Voted(x, s, node[s].term)
        OBVIOUS
  <2>3. StepInv(node[s], r) /\ VoteStep(node[s], {}, r)
        BY <1>3, <2>1
  <2> HIDE DEF n
  <2> QED BY <1>3, <2>2, <2>3, SubmitVotes
<1>4. CASE ElectionTimeout(s)
  <2> DEFINE t == [timer[s] EXCEPT !.election = FALSE]
             r == electionTimeout(n)
  <2>1. CASE Submit(s, r, net, t)
    <3>1. StepInv(n, r)
          BY <1>1, ElectionTimeoutType
    <3>2. ~r.err
          BY <2>1 DEF Submit
    <3>3. VoteStep(n, {}, r)
          BY <1>2, <3>2, ElectionTimeoutVotes
    <3>4. Idle(s) /\ \A x \in {} : Voted(x, s, node[s].term)
          BY <1>4 DEF ElectionTimeout
    <3> HIDE DEF r, t
    <3> QED BY <2>1, <3>1, <3>3, <3>4, SubmitVotes
  <2>2. CASE UNCHANGED <<node, up, disk, store, pending, net, crashes>>
        BY <2>2 DEF VoteInv, VotesAreFinal, VotesAreRecorded, WriteOK, PendingGrants,
                    Voted, Recorded
  <2> QED BY <1>4, <2>1, <2>2 DEF ElectionTimeout
<1>5. CASE HeartbeatTimeout(s)
      BY <1>1, <1>2, <1>3, <1>5, HeartbeatTimeoutType, KeepsHeartbeat DEF HeartbeatTimeout
<1>6. CASE Snapshot(s)
  <2> DEFINE r == takeSnapshot(n, store[s].applied, store[s].history)
  <2>1. StepInv(n, r) /\ Keeps(n, r)
        BY <1>1, <1>2, TakeSnapshotType, KeepsSnapshot
  <2> QED BY <1>3, <1>6, <2>1 DEF Snapshot
<1>7. CASE FinalizeMembershipChange(s)
      BY <1>1, <1>2, <1>3, <1>7, FinalizeMembershipType, KeepsMembershipInputs
      DEF FinalizeMembershipChange
<1>8. CASE \E c \in Command : Propose(s, c)
      BY <1>1, <1>2, <1>3, <1>8, ProposalType, KeepsProposal DEF Propose
<1>9. CASE \E target \in Target : BeginMembershipChange(s, target)
  <2>1. PICK target \in Target : BeginMembershipChange(s, target)
        BY <1>9
  <2>2. target[1] \in SUBSET Server /\ target[2] \in SUBSET Server
        BY InputAssumption
  <2> DEFINE r == beginMembership(n, target[1], target[2])
  <2>3. StepInv(n, r) /\ Keeps(n, r)
        BY <1>1, <1>2, <2>2, BeginMembershipType, KeepsMembershipInputs
  <2> QED BY <1>3, <2>1, <2>3 DEF BeginMembershipChange
<1> QED BY <1>4, <1>5, <1>6, <1>7, <1>8, <1>9

\* A packet delivered or lost.
LEMMA MessagesVotes ==
    ASSUME TypeInv, VoteInv, NEW m \in net, Receive(m) \/ Drop(m)
    PROVE  VoteInv' /\ VotesAreRecorded
<1>1. MessageInv(m) /\ m.to \in Server /\ m.from \in Server
      BY DEF TypeInv, TypeOK, LogsAreBounded, MessageInv, MessageOK
<1>2. CASE Receive(m)
  <2> DEFINE s == m.to
             r == stepMessage(node[s], m)
             X == GrantedBy(node[s], m)
  <2>1. StepInv(node[s], r)
        BY <1>1, TypeInvAt, StepMessageType
  <2>2. Idle(s) /\ Submit(s, r, net \ {m}, timer[s]) /\ ~r.err
        BY <1>2 DEF Receive, Submit
  <2>3. VoteStep(node[s], X, r)
    <3>1. NodeInv(node[s]) /\ node[s].id = s /\ VoteOK(node[s])
          BY <1>1, TypeInvAt DEF VoteInv
    <3> QED BY <1>1, <2>2, <3>1, StepMessageVotes
  <2>4. \A x \in X : Voted(x, s, node[s].term)
        BY DEF GrantedBy, Voted
  <2>5. net \ {m} \in SUBSET net
        OBVIOUS
  <2> HIDE DEF r, X
  <2> QED BY <1>1, <2>1, <2>2, <2>3, <2>4, <2>5, SubmitVotes
<1>3. CASE Drop(m)
  <2>1. net' \subseteq net /\ UNCHANGED <<node, disk, pending>>
        BY <1>3 DEF Drop
  <2>2. VotesAreRecorded
        BY <2>1 DEF Voted, VotesAreRecorded
  <2>3. VotesAreFinal'
        BY <2>1, <2>2, FinalVotes
  <2> QED BY <2>1, <2>2, <2>3 DEF VoteInv, WriteOK, PendingGrants
<1> QED BY <1>2, <1>3

\* The completion of a write never takes back a vote, and its acknowledgement
\* releases only the vote that was written.
LEMMA BarrierVotes ==
    ASSUME TypeInv, VoteInv, NEW s \in Server, CompleteWrite(s) \/ AcknowledgeWrite(s)
    PROVE  VoteInv' /\ VotesAreRecorded
<1> DEFINE n == node[s]
<1>1. WriteOK(s) /\ PendingGrants(s)
      BY DEF VoteInv
<1>2. CASE CompleteWrite(s)
  <2>1. /\ disk' = [disk EXCEPT ![s] = persistentState(n)]
        /\ pending' = [pending EXCEPT ![s].phase = "written"]
        /\ UNCHANGED <<node, net>>
        BY <1>2 DEF CompleteWrite
  <2>2. /\ disk'[s].term = n.term /\ disk'[s].votedFor = n.votedFor
        /\ \A u \in Server \ {s} : disk'[u] = disk[u]
        BY <2>1 DEF TypeInv, TypeOK, PerServer, persistentState
  <2>3. /\ pending'[s].effects = pending[s].effects
        /\ \A u \in Server \ {s} : pending'[u] = pending[u]
    <3>1. PendingOK(pending[s])
          BY TypeInvAt
    <3> QED BY <2>1, <3>1 DEF TypeInv, TypeOK, PerServer, PendingOK
  <2>4. \A u \in Server : (VoteOK(node[u]) /\ WriteOK(u) /\ PendingGrants(u))'
    <3>1. \A u \in Server : VoteOK(node[u])'
          BY <2>1 DEF VoteInv
    <3>2. \A u \in Server : PendingGrants(u)'
          BY <2>1, <2>3 DEF VoteInv, PendingGrants
    <3>3. \A u \in Server \ {s} : WriteOK(u)'
          BY <2>1, <2>2, <2>3 DEF VoteInv, WriteOK
    <3>4. WriteOK(s)'
          BY <2>1, <2>2, VoteTypes DEF WriteOK
    <3> QED BY <3>1, <3>2, <3>3, <3>4
  <2>5. \A x, t \in Server, term \in 0..MaxTerm :
            /\ Voted(x, t, term)' <=> Voted(x, t, term)
            /\ Recorded(x, t, term) => Recorded(x, t, term)'
    <3> SUFFICES ASSUME NEW x \in Server, NEW t \in Server, NEW term \in 0..MaxTerm
                 PROVE  /\ Voted(x, t, term)' <=> Voted(x, t, term)
                        /\ Recorded(x, t, term) => Recorded(x, t, term)'
        OBVIOUS
    <3>1. Voted(x, t, term)' <=> Voted(x, t, term)
          BY <2>1 DEF Voted
    <3>2. CASE x # s
          BY <2>2, <3>1, <3>2 DEF Recorded
    <3>3. CASE x = s
      <4>1. t # Nil
            BY NilAssumption
      <4>2. n.term \in Nat /\ disk[s].term \in Nat /\ term \in Nat
            BY VoteTypes
      <4> QED BY <1>1, <2>2, <3>1, <3>3, <4>1, <4>2 DEF Recorded, WriteOK
    <3> QED BY <3>2, <3>3
  <2>6. VotesAreFinal'
        BY <2>5 DEF VoteInv, VotesAreFinal
  <2> QED BY <2>4, <2>5, <2>6 DEF VoteInv, VotesAreRecorded
<1>3. CASE AcknowledgeWrite(s)
  <2>1. /\ pending[s].phase = "written"
        /\ net' \subseteq net \cup pending[s].effects.send
        /\ pending' = [pending EXCEPT ![s] = NoPending]
        /\ UNCHANGED <<node, disk>>
        BY <1>3 DEF AcknowledgeWrite, Send
  <2>2. n.term = disk[s].term /\ n.votedFor = disk[s].votedFor
        BY <1>1, <2>1 DEF WriteOK
  <2>3. /\ pending'[s].effects.send = {}
        /\ \A u \in Server \ {s} : pending'[u] = pending[u]
        BY <2>1 DEF TypeInv, TypeOK, PerServer, NoPending, NoEffects
  <2>4. \A u \in Server : (VoteOK(node[u]) /\ WriteOK(u) /\ PendingGrants(u))'
    <3>1. \A u \in Server : VoteOK(node[u])'
          BY <2>1 DEF VoteInv
    <3>2. \A u \in Server : PendingGrants(u)'
          BY <2>1, <2>3 DEF VoteInv, PendingGrants
    <3>3. \A u \in Server \ {s} : WriteOK(u)'
          BY <2>1, <2>3 DEF VoteInv, WriteOK
    <3>4. WriteOK(s)'
          BY <1>1, <2>1, <2>2 DEF WriteOK
    <3> QED BY <3>1, <3>2, <3>3, <3>4
  <2>5. ASSUME NEW x \in Server, NEW c \in Server, NEW term \in 0..MaxTerm, Voted(x, c, term)'
        PROVE  Voted(x, c, term) \/ (disk[x].term = term /\ disk[x].votedFor = c)
    <3>1. CASE node'[c].role # Follower /\ node'[c].term = term /\ x \in node'[c].votes \ {c}
          BY <2>1, <3>1 DEF Voted
    <3>2. CASE \E m \in net' : Grant(m) /\ m.from = x /\ m.to = c /\ m.term = term
      <4>1. PICK m \in net' : Grant(m) /\ m.from = x /\ m.to = c /\ m.term = term
            BY <3>2
      <4>2. CASE m \in net
            BY <4>1, <4>2 DEF Voted
      <4>3. CASE m \in pending[s].effects.send
            BY <1>1, <2>2, <4>1, <4>3 DEF PendingGrants
      <4> QED BY <2>1, <4>2, <4>3
    <3> QED BY <2>5, <3>1, <3>2 DEF Voted
  <2>6. VotesAreRecorded
        BY <2>5 DEF VotesAreRecorded
  <2>7. VotesAreFinal'
        BY <2>1, <2>6, FinalVotes
  <2> QED BY <2>4, <2>6, <2>7 DEF VoteInv
<1> QED BY <1>2, <1>3

\* A crash falls back to the vote on disk, and a restart keeps it.
LEMMA CrashVotes ==
    ASSUME TypeInv, VoteInv, NEW s \in Server, Crash(s) \/ Restart(s)
    PROVE  VoteInv' /\ VotesAreRecorded
<1>1. WriteOK(s) /\ PendingGrants(s) /\ VoteOK(node[s])
      BY DEF VoteInv
<1>2. Shape(node[s]) /\ node[s].id = s
      BY VoteTypes
<1>3. PICK k : /\ node' = [node EXCEPT ![s] = k] /\ UNCHANGED <<disk, net>>
               /\ k.role # Follower =>
                    /\ k.role = node[s].role /\ k.votes = node[s].votes
                    /\ k.electionVotes = node[s].electionVotes
                    /\ k.electionMembership = node[s].electionMembership
                    /\ k.term = node[s].term
               /\ \/ /\ k.term = disk[s].term /\ k.votedFor = disk[s].votedFor
                     /\ k.role = Follower
                     /\ pending' = [pending EXCEPT ![s] = NoPending]
                  \/ /\ k.term = node[s].term /\ k.votedFor = node[s].votedFor
                     /\ k.id = s /\ pending' = pending
  <2>1. CASE Crash(s)
    <3> DEFINE k == New(s, disk[s], store[s].applied)
    <3>1. k.role = Follower /\ k.term = disk[s].term /\ k.votedFor = disk[s].votedFor
          BY NewVotes
    <3> HIDE DEF k
    <3>2. /\ node' = [node EXCEPT ![s] = k] /\ UNCHANGED <<disk, net>>
          /\ pending' = [pending EXCEPT ![s] = NoPending]
          BY <2>1 DEF Crash, k
    <3> QED BY <3>1, <3>2
  <2>2. CASE Restart(s)
    <3> DEFINE k == Start(node[s]).node
    <3>1. KeepsVote(node[s], k)
          BY <1>2, StartVotes
    <3>2. node' = [node EXCEPT ![s] = k] /\ UNCHANGED <<disk, net, pending>>
          BY <2>2 DEF Restart
    <3> HIDE DEF k
    <3> QED BY <1>2, <3>1, <3>2 DEF KeepsVote
  <2> QED BY <2>1, <2>2
<1>4. \A u \in Server : node'[u] = IF u = s THEN k ELSE node[u]
      BY <1>3 DEF TypeInv, TypeOK, PerServer
<1>5. /\ \A u \in Server \ {s} : pending'[u] = pending[u]
      /\ \/ /\ pending'[s] = NoPending
            /\ k.term = disk[s].term /\ k.votedFor = disk[s].votedFor /\ k.role = Follower
         \/ /\ pending'[s] = pending[s]
            /\ k.term = node[s].term /\ k.votedFor = node[s].votedFor /\ k.id = s
      BY <1>3 DEF TypeInv, TypeOK, PerServer
<1>6. VoteOK(k)
      BY <1>1, <1>2, <1>3 DEF VoteOK, Follower, Leader
<1>7. WriteOK(s)'
      BY <1>1, <1>3, <1>4, <1>5, VoteTypes DEF WriteOK
<1>8. PendingGrants(s)'
      BY <1>1, <1>4, <1>5 DEF PendingGrants, NoPending, NoEffects
<1>9. \A u \in Server : (VoteOK(node[u]) /\ WriteOK(u) /\ PendingGrants(u))'
      BY <1>3, <1>4, <1>5, <1>6, <1>7, <1>8 DEF VoteInv, WriteOK, PendingGrants
<1>10. VotesAreRecorded
      BY <1>3, <1>4 DEF Voted, VotesAreRecorded
<1>11. VotesAreFinal'
      BY <1>3, <1>10, FinalVotes
<1> QED BY <1>9, <1>10, <1>11 DEF VoteInv

\* A bootstrapped cluster has no votes.
LEMMA InitVotes == Init => VoteInv
<1> SUFFICES ASSUME Init PROVE VoteInv
    OBVIOUS
<1>1. \A s \in Server : /\ node[s].role = Follower
                        /\ node[s].term = disk[s].term /\ node[s].votedFor = disk[s].votedFor
                        /\ pending[s].effects.send = {} /\ net = {}
      BY NewVotes DEF Init, NoPending, NoEffects
<1>2. \A s \in Server : disk[s].term = 0
      BY DEF Init, EmptyState
<1>3. \A s \in Server : VoteOK(node[s]) /\ WriteOK(s) /\ PendingGrants(s)
      BY <1>1, <1>2 DEF VoteOK, WriteOK, PendingGrants, Follower, Leader
<1>4. VotesAreFinal
      BY <1>1 DEF VotesAreFinal, Voted
<1> QED BY <1>3, <1>4 DEF VoteInv

\* Every reachable state satisfies the invariant of votes.
THEOREM VotesCorrect == Spec => []VoteInv
<1>1. Init => VoteInv
      BY InitVotes
<1>2. TypeInv /\ VoteInv /\ [Next]_vars => VoteInv'
  <2> SUFFICES ASSUME TypeInv, VoteInv, [Next]_vars PROVE VoteInv'
      OBVIOUS
  <2>1. CASE UNCHANGED vars
        BY <2>1 DEF vars, VoteInv, VotesAreFinal, WriteOK, PendingGrants, Voted, Recorded
  <2>2. CASE Next
        BY <2>2, InputsVotes, MessagesVotes, BarrierVotes, CrashVotes DEF Next
  <2> QED BY <2>1, <2>2
<1> QED BY <1>1, <1>2, TypeCorrect, PTL DEF Spec

\* Every vote a candidate or a leader counts is on the voter's disk until the
\* voter moves to a later term.
THEOREM CountedVotesAreDurable == Spec => []VotesAreDurable
<1>1. TypeInv /\ VoteInv => VotesAreDurable
  <2> SUFFICES ASSUME TypeInv, VoteInv, NEW s \in Server, node[s].role # Follower,
                      NEW v \in node[s].votes \ {s}
               PROVE  Recorded(v, s, node[s].term)
      BY DEF VotesAreDurable, Recorded
  <2>1. v \in Server /\ node[s].term \in 0..MaxTerm
        BY TypeInvAt, VoteTypes DEF NodeInv, NodeOK
  <2>2. Voted(v, s, node[s].term)
        BY DEF Voted
  <2> QED BY <2>1, <2>2 DEF VoteInv, VotesAreFinal
<1> QED BY <1>1, VotesCorrect, TypeCorrect, PTL

\* The argument for one state: a voter that both counted voted once.
LEMMA LeadersAreOne ==
    ASSUME TypeInv, VoteInv, NEW s \in Server, NEW t \in Server,
           node[s].role = Leader, node[t].role = Leader, node[s].term = node[t].term,
           Adjacent(node[s].electionMembership, node[t].electionMembership)
    PROVE  s = t
<1> DEFINE term == node[s].term
<1>1. /\ node[s].electionMembership \in Membership /\ node[t].electionMembership \in Membership
      /\ node[s].votes \subseteq Server
      BY TypeInvAt DEF NodeInv, NodeOK
<1>2. /\ quorum(node[s].electionMembership, node[s].electionVotes)
      /\ quorum(node[t].electionMembership, node[t].electionVotes)
      /\ node[s].electionVotes \subseteq node[s].votes
      /\ node[t].electionVotes \subseteq node[t].votes
      BY DEF VoteInv, VoteOK
<1>3. node[s].electionVotes \cap node[t].electionVotes # {}
      BY <1>1, <1>2, QuorumsIntersect, JointQuorumsIntersect, FinalQuorumsIntersect
      DEF Adjacent
<1>4. PICK x \in Server : x \in node[s].votes /\ x \in node[t].votes
      BY <1>1, <1>2, <1>3
<1>5. term \in 0..MaxTerm
      BY VoteTypes
<1>6. ASSUME NEW a \in Server, NEW b \in Server, a # b, b \in node[a].votes,
             node[a].role = Leader, node[b].role = Leader,
             node[a].term = node[b].term
      PROVE  FALSE
  <2>1. Voted(b, a, node[b].term) /\ node[b].term \in 0..MaxTerm
        BY <1>6, VoteTypes DEF Voted, Leader, Follower
  <2>2. Recorded(b, a, node[b].term)
        BY <2>1 DEF VoteInv, VotesAreFinal
  <2>3. WriteOK(b) /\ node[b].votedFor = b
        BY <1>6, VoteTypes DEF VoteInv, VoteOK, Leader, Follower
  <2>4. a # Nil /\ disk[b].term \in Nat /\ node[b].term \in Nat
        BY NilAssumption, VoteTypes
  <2> QED BY <1>6, <2>2, <2>3, <2>4 DEF Recorded, WriteOK
<1>7. CASE x # s /\ x # t
  <2>1. Voted(x, s, term) /\ Voted(x, t, term)
        BY <1>4, <1>7 DEF Voted, Leader, Follower
  <2> QED BY <1>5, <2>1 DEF VoteInv, VotesAreFinal
<1>8. CASE x = s \/ x = t
      BY <1>4, <1>6, <1>8
<1> QED BY <1>7, <1>8

\* No term has two leaders elected by one configuration, or by two that
\* directly follow each other.
THEOREM OneLeaderPerTerm == Spec => []OneLeaderAcrossChange
<1>1. TypeInv /\ VoteInv => OneLeaderAcrossChange
      BY LeadersAreOne DEF OneLeaderAcrossChange, leaders
<1> QED BY <1>1, VotesCorrect, TypeCorrect, PTL
=============================================================================
