-------------------------- MODULE RaftCommitProofs --------------------------
(***************************************************************************)
(* What is committed stays committed, for every cluster whose              *)
(* configuration stays the initial one (Target = {}).                      *)
(*                                                                         *)
(* The first part says what each handler of raft/node.go does to the       *)
(* commit index, the entries it hands to the application and a leader's    *)
(* view of its followers, and what the messages it emits may claim:        *)
(* CommitStep lists the causes, and as in RaftLogProofs there is one lemma *)
(* per handler.  The inductive invariant is CommitInv of module            *)
(* RaftInvariant, over the histories of LogInv and a record of what every  *)
(* process has had on disk in each term.  The second part shows that the   *)
(* steps of a running node, which wait for a write of their own (Submit),  *)
(* preserve it; RaftDurabilityProofs does the other actions and draws the  *)
(* conclusions.                                                            *)
(***************************************************************************)
EXTENDS RaftLogProofs

\* A leader advances its commit index.
Advanced(n, k) ==
    /\ k.role = Leader /\ n.commit < k.commit
    /\ entryExists(k, k.commit) /\ termAt(k, k.commit) = k.term
    /\ quorum(membershipAt(k, k.commit), {f \in Server : k.matchIndex[f] >= k.commit})

\* What a leader does that leaves its log and its view of others alone.
LeaderStep(n, r) ==
    /\ SameLog(n, r.node) /\ r.node.matchIndex = n.matchIndex
    /\ r.node.role = Leader /\ r.node.term = n.term
    /\ r.node.commit = n.commit \/ Advanced(n, r.node)
    /\ r.node.applied = r.node.commit
    /\ ~r.effects.install /\ r.effects.apply = (n.commit + 1)..r.node.commit
    /\ \A m \in r.effects.send : CarriesLog(m) /\ SendsLog(r.node, m)

\* The commit and applied indexes are naturals.
LEMMA CommitType ==
    ASSUME NEW n, NodeInv(n)
    PROVE  n.commit \in Nat /\ n.applied \in Nat /\ n.commit <= MaxIndex
<1>1. n.commit \in 0..MaxIndex /\ MaxIndex \in Nat /\ n.applied \in Nat
      BY ConstantsType DEF NodeInv, NodeOK, HardStateOK
<1> QED BY <1>1

\* The message appendFor builds goes to the end of the log.
LEMMA AppendMessageSends ==
    ASSUME NEW n, NodeInv(n), n.role = Leader, NEW member \in Server, member # n.id
    PROVE  CarriesLog(appendMessage(n, member)) /\ SendsLog(n, appendMessage(n, member))
<1> DEFINE append(prev, entries) ==
              [type |-> "AppendEntries", from |-> n.id, to |-> member,
               term |-> n.term, sequence |-> n.appendSequence[member],
               prevLogIndex |-> prev, prevLogTerm |-> termAt(n, prev),
               entries |-> entries, leaderCommit |-> n.commit]
           next == n.nextIndex[member]
           install == [type |-> "InstallSnapshot", from |-> n.id, to |-> member,
                       term |-> n.term, sequence |-> n.appendSequence[member],
                       snapshot |-> n.snap]
<1>1. HardStateOK(n) /\ n.log \in Seq(Entry) /\ lastIndex(n) <= MaxIndex /\ MaxIndex \in Nat
      BY ConstantsType DEF NodeInv, NodeOK, HardStateOK, LogBounded
<1>2. /\ next \in 1..(lastIndex(n) + 1) /\ next \in 0..MaxIndex
      /\ n.matchIndex[member] \in 0..MaxIndex /\ n.matchIndex[member] <= lastIndex(n)
      BY DEF NodeInv, NodeOK, ProgressBounded
<1>3. /\ lastIndex(n) \in Nat /\ n.snap.index \in Nat /\ Len(n.log) \in Nat
      /\ lastIndex(n) = n.snap.index + Len(n.log)
      BY <1>1, LastIndexType
<1>4. appendMessage(n, member) =
        IF n.matchIndex[member] = MaxIndex THEN append(MaxIndex, <<>>)
        ELSE IF next <= n.snap.index THEN install
        ELSE append(next - 1, entriesFrom(n, next))
      BY <1>2, <1>3 DEF appendMessage
<1>5. CarriesLog(install) /\ SendsLog(n, install)
      BY DEF CarriesLog, SendsLog
<1>6. ASSUME NEW prev \in Nat, NEW entries \in Seq(Entry), prev + Len(entries) = lastIndex(n)
      PROVE  CarriesLog(append(prev, entries)) /\ SendsLog(n, append(prev, entries))
      BY <1>6 DEF CarriesLog, SendsLog, carried, lastIndex
<1>7. CASE n.matchIndex[member] = MaxIndex
  <2>1. MaxIndex = lastIndex(n) /\ <<>> \in Seq(Entry) /\ MaxIndex + Len(<<>>) = lastIndex(n)
        BY <1>1, <1>2, <1>3, <1>7
  <2> HIDE DEF append
  <2> QED BY <1>1, <1>4, <1>6, <1>7, <2>1
<1>8. CASE n.matchIndex[member] # MaxIndex /\ next <= n.snap.index
      BY <1>4, <1>5, <1>8
<1>9. CASE n.matchIndex[member] # MaxIndex /\ ~(next <= n.snap.index)
  <2> DEFINE entries == entriesFrom(n, next)
  <2>1. appendMessage(n, member) = append(next - 1, entries)
        BY <1>4, <1>9
  <2>2. /\ next \in Nat /\ next - 1 \in Nat /\ n.snap.index < next /\ next <= lastIndex(n) + 1
        BY <1>2, <1>3, <1>9
  <2>3. entries \in Seq(Entry) /\ Len(entries) = lastIndex(n) + 1 - next
        BY <1>1, <2>2, EntriesFromType
  <2> HIDE DEF entries
  <2>4. (next - 1) + Len(entries) = lastIndex(n)
        BY <1>3, <2>2, <2>3
  <2> HIDE DEF append
  <2> QED BY <1>6, <2>1, <2>2, <2>3, <2>4
<1> QED BY <1>7, <1>8, <1>9

\* applyCommitted, given that what was committed before was applied.
LEMMA ApplyDelivers ==
    ASSUME NEW n, NodeInv(n), NEW c \in Nat, n.applied <= c, n.commit = c
    PROVE  LET r == applyCommitted(n)
           IN  /\ \A f \in NodeFields \ {"applied"} : r.node[f] = n[f]
               /\ r.node.applied = c /\ ~r.effects.install
               /\ r.effects.apply = (n.applied + 1)..c /\ r.effects.send = {}
<1>1. n.applied \in Nat
      BY CommitType
<1>2. /\ \A f \in NodeFields \ {"applied"} : applyCommitted(n).node[f] = n[f]
      /\ applyCommitted(n).effects.send = {}
      BY ApplyCommittedType
<1>3. /\ applyCommitted(n).node.applied = IF n.applied < n.commit THEN n.commit ELSE n.applied
      /\ ~applyCommitted(n).effects.install
      /\ applyCommitted(n).effects.apply = (n.applied + 1)..n.commit
      BY DEF applyCommitted, Result, NoEffects, NodeInv, NodeOK, NodeFields
<1> QED BY <1>1, <1>2, <1>3

\* advanceCommit on a leader that votes.
LEMMA AdvanceLeads ==
    ASSUME NEW n, NodeInv(n), n.role = Leader, isVoter(n.membership, n.id), n.applied = n.commit,
           n.snap.index <= n.commit
    PROVE  LET r == advanceCommit(n)
           IN  LeaderStep(n, r) /\ NodeInv(r.node) /\ r.node.id = n.id /\ r.effects.send = {}
<1> DEFINE r == advanceCommit(n)
           index == CHOOSE i \in committable(n) : \A j \in committable(n) : j <= i
           committed == [n EXCEPT !.commit = index]
           applied == applyCommitted(committed)
<1>1. NodeInv(r.node) /\ r.node.id = n.id /\ r.effects.send = {}
      BY AdvanceCommitType DEF StepInv
<1>2. SameLog(n, r.node) /\ r.node.role = Leader
      BY NodeShape, LogOfAdvance
<1>3. n.commit \in Nat
      BY CommitType
<1>4. CASE committable(n) = {}
  <2>1. r = Result(n, FALSE, NoEffects)
        BY <1>4 DEF advanceCommit
  <2>2. (n.commit + 1)..n.commit = {}
        BY <1>3
  <2>3. r.node = n /\ ~r.effects.install /\ r.effects.apply = {}
        BY <2>1 DEF Result, NoEffects
  <2> HIDE DEF r
  <2>4. LeaderStep(n, r)
        BY <1>1, <1>2, <2>2, <2>3 DEF LeaderStep
  <2> QED BY <1>1, <2>4 DEF r
<1>5. CASE committable(n) # {}
  <2>1. /\ lastIndex(n) \in 0..MaxIndex /\ MaxIndex \in Nat
        BY LastIndexBounded, ConstantsType
  <2>2. /\ committable(n) \subseteq Nat
        /\ \A i \in committable(n) : i <= lastIndex(n)
        BY <1>3, <2>1 DEF committable
  <2>3. \E i \in committable(n) : \A j \in committable(n) : j <= i
        BY <1>5, <2>1, <2>2, GreatestElement
  <2>4. index \in committable(n)
        BY <2>3
  <2> HIDE DEF index
  <2>5. /\ index \in Nat /\ n.commit < index /\ index <= lastIndex(n)
        /\ termAt(n, index) = n.term
        /\ quorum(membershipAt(n, index), {f \in Server : n.matchIndex[f] >= index})
        BY <1>3, <2>1, <2>4 DEF committable
  <2>6. /\ \A f \in NodeFields \ {"commit"} : committed[f] = n[f]
        /\ committed.commit = index /\ committed = [f \in NodeFields |-> committed[f]]
        BY DEF NodeInv, NodeOK, NodeFields
  <2>7. NodeInv(committed)
    <3>1. lastIndex(committed) = lastIndex(n) /\ committed.snap = n.snap
          BY <2>6 DEF lastIndex, NodeFields
    <3>2. index \in 0..MaxIndex
          BY <2>1, <2>5
    <3> QED BY <2>6, <3>1, <3>2
            DEF NodeInv, NodeOK, NodeFields, HardStateOK, LogBounded, ProgressBounded
  <2>8. r = Result(IF applied.node.role = Leader /\ ~isVoter(applied.node.membership, applied.node.id)
                   THEN becomeFollower(applied.node, applied.node.term, Nil) ELSE applied.node,
                   TRUE, applied.effects)
        BY <1>5 DEF advanceCommit, index
  <2> HIDE DEF committed
  <2>9. /\ \A f \in NodeFields \ {"applied"} : applied.node[f] = committed[f]
        /\ applied.node.applied = index /\ ~applied.effects.install
        /\ applied.effects.apply = (n.commit + 1)..index
    <3>1. committed.applied = n.commit /\ committed.commit = index /\ n.commit <= index
          BY <1>3, <2>5, <2>6 DEF NodeFields
    <3> QED BY <2>5, <2>7, <3>1, ApplyDelivers
  <2>10. applied.node.membership = n.membership /\ applied.node.id = n.id
        BY <2>6, <2>9 DEF NodeFields
  <2>11. r.node = applied.node /\ r.effects = applied.effects
        BY <2>8, <2>10 DEF Result
  <2> HIDE DEF applied
  <2>12. /\ r.node.matchIndex = n.matchIndex /\ r.node.term = n.term /\ r.node.commit = index
         /\ r.node.applied = index
        BY <2>6, <2>9, <2>11 DEF NodeFields
  <2> HIDE DEF r
  <2>13. Advanced(n, r.node)
    <3>1. /\ lastIndex(r.node) = lastIndex(n) /\ r.node.snap = n.snap
          /\ termAt(r.node, index) = termAt(n, index)
          /\ membershipAt(r.node, index) = membershipAt(n, index)
          BY <1>2, SameLogAt DEF SameLog
    <3>2. entryExists(r.node, index)
      <4>1. n.snap.index \in Nat
            BY LastIndexBounded, ConstantsType
      <4> QED BY <1>3, <2>5, <3>1, <4>1 DEF entryExists
    <3> QED BY <1>2, <2>5, <2>12, <3>1, <3>2 DEF Advanced
  <2> QED BY <1>1, <1>2, <2>9, <2>11, <2>12, <2>13 DEF LeaderStep, r
<1> QED BY <1>4, <1>5

\* Appends change nothing but their sequence numbers.
LEMMA AppendToLeads ==
    ASSUME NEW n, NodeInv(n), n.role = Leader, n.applied = n.commit,
           NEW members \in SUBSET (Server \ {n.id})
    PROVE  LET r == appendTo(n, members)
           IN  LeaderStep(n, r) /\ r.node.commit = n.commit
<1> DEFINE r == appendTo(n, members)
           m == [n EXCEPT !.appendSequence =
                    [s \in Server |-> IF s \in members THEN @[s] + 1 ELSE @[s]]]
           messages == {appendMessage(m, s) : s \in members}
<1>1. r = Result(m, FALSE, Sends(messages))
      BY DEF appendTo
<1>2. \A f \in NodeFields \ {"appendSequence"} : m[f] = n[f]
      BY DEF NodeInv, NodeOK, NodeFields
<1>3. NodeInv(m) /\ m.id = n.id
  <2>1. StepInv(n, r)
        BY AppendToType
  <2> HIDE DEF m, messages
  <2> QED BY <1>1, <2>1 DEF StepInv, Result
<1> HIDE DEF m
<1>4. /\ m.role = Leader /\ m.term = n.term /\ m.matchIndex = n.matchIndex
      /\ m.commit = n.commit /\ m.applied = n.commit /\ SameLog(n, m)
      BY <1>2 DEF NodeFields, SameLog
<1>5. \A s \in members : /\ CarriesLog(appendMessage(m, s))
                         /\ SendsLog(m, appendMessage(m, s))
      BY <1>3, <1>4, AppendMessageSends
<1>6. /\ r.node = m /\ ~r.effects.install /\ r.effects.apply = {} /\ r.effects.send = messages
      BY <1>1 DEF Result, Sends, NoEffects
<1>7. (n.commit + 1)..n.commit = {}
      BY CommitType
<1> HIDE DEF r
<1>8. \A x \in r.effects.send : CarriesLog(x) /\ SendsLog(r.node, x)
      BY <1>5, <1>6
<1>9. LeaderStep(n, r)
      BY <1>4, <1>6, <1>7, <1>8 DEF LeaderStep
<1> QED BY <1>4, <1>6, <1>9 DEF r

\* A leader that does nothing.
LEMMA RestLeads ==
    ASSUME NEW n, NodeInv(n), n.role = Leader, n.applied = n.commit, NEW dirty
    PROVE  LeaderStep(n, Result(n, dirty, NoEffects))
<1>1. (n.commit + 1)..n.commit = {}
      BY CommitType
<1> QED BY <1>1 DEF LeaderStep, Result, NoEffects, SameLog

\* Commit, then send.
LEMMA ThenLeads ==
    ASSUME NEW n, NEW r, LeaderStep(n, r), r.effects.send = {},
           NEW q, LeaderStep(r.node, q), q.node.commit = r.node.commit, NEW dirty,
           n.commit \in Nat, r.node.commit \in Nat
    PROVE  LeaderStep(n, Result(q.node, dirty, Then(r.effects, q.effects)))
<1> DEFINE e == Then(r.effects, q.effects)
<1>1. SameLog(n, q.node)
      BY SameLogTransitive DEF LeaderStep
<1>2. /\ lastIndex(q.node) = lastIndex(r.node) /\ q.node.snap = r.node.snap
      /\ \A i : termAt(q.node, i) = termAt(r.node, i)
      /\ \A i : membershipAt(q.node, i) = membershipAt(r.node, i)
      BY SameLogAt DEF LeaderStep, SameLog
<1>3. q.node.commit = n.commit \/ Advanced(n, q.node)
      BY <1>2 DEF LeaderStep, Advanced, entryExists
<1>4. ~e.install /\ e.apply = (n.commit + 1)..q.node.commit
  <2>1. /\ q.effects.apply = (r.node.commit + 1)..r.node.commit
        /\ r.effects.apply = (n.commit + 1)..r.node.commit
        /\ ~r.effects.install /\ ~q.effects.install
        BY DEF LeaderStep
  <2>2. q.effects.apply = {}
        BY <2>1
  <2> QED BY <2>1, <2>2 DEF Then
<1>5. e.send = q.effects.send
      BY DEF Then
<1> HIDE DEF e
<1> DEFINE w == Result(q.node, dirty, e)
<1>6. w.node = q.node /\ w.effects = e
      BY DEF Result
<1> HIDE DEF w
<1>7. LeaderStep(n, w)
      BY <1>1, <1>3, <1>4, <1>5, <1>6 DEF LeaderStep
<1> QED BY <1>7 DEF w, e

\* What a leader does after adding an entry to its log.
LEMMA ReplicateLeads ==
    ASSUME NEW n, NodeInv(n), n.role = Leader, isVoter(n.membership, n.id),
           n.applied = n.commit, n.snap.index <= n.commit
    PROVE  \E k : /\ k.matchIndex = [n.matchIndex EXCEPT ![n.id] = lastIndex(n)]
                  /\ k.commit = n.commit /\ k.term = n.term /\ k.id = n.id /\ SameLog(n, k)
                  /\ LeaderStep(k, replicate(n)) /\ replicate(n).dirty
<1> DEFINE k == [n EXCEPT !.matchIndex[n.id] = lastIndex(n)]
           advanced == advanceCommit(k)
           sent == IF advanced.node.role = Leader THEN broadcastAppend(advanced.node)
                   ELSE Result(advanced.node, FALSE, NoEffects)
<1>1. replicate(n) = Result(sent.node, TRUE, Then(advanced.effects, sent.effects))
      BY DEF replicate
<1>2. lastIndex(n) \in 0..MaxIndex /\ MaxIndex \in Nat /\ n.id \in Server
      BY NodeShape, ConstantsType, LastIndexBounded
<1>3. /\ k = [f \in NodeFields |-> k[f]]
      /\ \A f \in NodeFields \ {"matchIndex"} : k[f] = n[f]
      /\ k.matchIndex = [n.matchIndex EXCEPT ![n.id] = lastIndex(n)]
      BY DEF NodeInv, NodeOK, NodeFields
<1> HIDE DEF k
<1>4. /\ k.matchIndex \in [Server -> 0..MaxIndex]
      /\ \A f \in Server : k.matchIndex[f] <= lastIndex(n)
      BY <1>2, <1>3, ProgressType
<1>5. /\ NodeInv(k) /\ k.id = n.id /\ k.role = Leader
  <2>1. /\ k.nextIndex = n.nextIndex
        /\ \A f \in Server : n.nextIndex[f] \in 1..(lastIndex(n) + 1)
        /\ k.nextIndex \in [Server -> 0..MaxIndex]
        BY <1>3, ProgressType DEF NodeFields
  <2> QED BY <1>3, <1>4, <2>1, ProgressUpdateType
<1>6. /\ SameLog(n, k) /\ k.commit = n.commit /\ k.applied = n.commit /\ k.term = n.term
      /\ k.membership = n.membership /\ k.snap.index <= k.commit
      BY <1>3 DEF NodeFields, SameLog
<1>7. /\ LeaderStep(k, advanced) /\ NodeInv(advanced.node) /\ advanced.node.id = k.id
      /\ advanced.effects.send = {}
      BY <1>5, <1>6, AdvanceLeads
<1> HIDE DEF advanced
<1>8. advanced.node.role = Leader /\ advanced.node.applied = advanced.node.commit
      BY <1>7 DEF LeaderStep
<1>9. LeaderStep(advanced.node, sent) /\ sent.node.commit = advanced.node.commit
  <2>1. Server \ {advanced.node.id} \in SUBSET (Server \ {advanced.node.id})
        OBVIOUS
  <2> QED BY <1>7, <1>8, <2>1, AppendToLeads DEF broadcastAppend
<1> HIDE DEF sent
<1>10. k.commit \in Nat /\ advanced.node.commit \in Nat
      BY <1>5, <1>7, CommitType
<1>11. LeaderStep(k, replicate(n))
      BY <1>1, <1>7, <1>9, <1>10, ThenLeads
<1>12. replicate(n).dirty
      BY <1>1 DEF Result
<1> QED BY <1>3, <1>5, <1>6, <1>11, <1>12

-----------------------------------------------------------------------------
(* What a transition may do to the commit index and may claim in messages. *)

\* What the application of n, now k, is given with the effects e.
Delivers(n, k, e) ==
    /\ IF e.install THEN e.apply = {} /\ k.commit = k.snap.index /\ n.commit < k.commit
       ELSE e.apply = (n.commit + 1)..k.commit
    /\ n.commit <= k.commit => k.applied = k.commit
    /\ k.snap # n.snap => /\ k.snap.index <= k.commit
                          /\ n.snap.index < k.snap.index \/ n.commit < k.snap.index

\* k follows the sender of the log that m carries, and holds it to its end.
Follows(k, m) == k.role = Follower /\ CarriesLog(m) /\ m.term = k.term
Took(k, g) ==
    /\ k.snap.index <= lastIndex(g) /\ lastIndex(g) <= lastIndex(k)
    /\ termAt(k, lastIndex(g)) = lastTerm(g)

\* What changes without a write, and what moves the commit index.
CommitCause(n, M, r) ==
    /\ ~r.dirty => r.node.snap = n.snap /\ r.node.log = n.log /\ r.node.commit = n.commit
    /\ \/ r.node.commit = n.commit
       \/ r.dirty /\ Advanced(n, r.node)
       \/ \E m \in M : /\ Follows(r.node, m) /\ Took(r.node, carried(m))
                       /\ n.commit < carriedCommit(m)
                       /\ r.node.commit = minimum(carriedCommit(m), lastIndex(r.node))

\* What a leader believes replicated on others comes from their answers.
MatchCause(n, M, k) ==
    k.role = Leader => \A f \in Server \ {k.id} :
        \/ k.matchIndex[f] = 0
        \/ /\ n.role = Leader /\ k.term = n.term
           /\ \/ k.matchIndex[f] = n.matchIndex[f]
              \/ \E m \in M : /\ Confirms(m) /\ m.from = f /\ m.term = k.term
                              /\ k.matchIndex[f] = minimum(m.matchIndex, lastIndex(n))

\* What a message claims.
SendCause(n, M, k, dirty, m) ==
    /\ Asks(m) => /\ dirty /\ k.role = Candidate /\ m.term = k.term /\ n.term < k.term
                  /\ m.lastLogIndex = lastIndex(k) /\ m.lastLogTerm = lastTerm(k)
    /\ Grant(m) => /\ m.term = k.term
                   /\ \E q \in M : /\ Asks(q) /\ q.from = m.to /\ q.term = k.term
                                   /\ candidateLogIsUpToDate(k, q.lastLogIndex, q.lastLogTerm)
    /\ CarriesLog(m) => SendsLog(k, m)
    /\ Confirms(m) => /\ m.term = k.term
                      /\ \E q \in M : /\ Follows(k, q) /\ m.matchIndex = lastIndex(carried(q))
                                      /\ \/ Took(k, carried(q))
                                         \/ /\ lastIndex(carried(q)) <= k.commit
                                            /\ k.snap = n.snap /\ k.log = n.log
                                            /\ k.commit = n.commit

\* What a transition r of n, caused by a message of M or by none, does.
CommitStep(n, M, r) ==
    /\ Delivers(n, r.node, r.effects) /\ CommitCause(n, M, r) /\ MatchCause(n, M, r.node)
    /\ \A m \in r.effects.send : SendCause(n, M, r.node, r.dirty, m)

\* A node between two steps, in a configuration in which it votes if it stands.
Ready(n) ==
    /\ NodeInv(n) /\ n.applied = n.commit /\ CommitInLog(n)
    /\ n.role # Follower => isVoter(n.membership, n.id)

\* A message that claims nothing.
Idles(m) == ~Asks(m) /\ ~Grant(m) /\ ~CarriesLog(m) /\ ~Confirms(m)

\* A step that changes neither log nor commit index.
LEMMA QuietCommits ==
    ASSUME NEW n, Ready(n), NEW M, NEW k, NEW dirty, NEW e,
           k.snap = n.snap, k.log = n.log, k.commit = n.commit, k.applied = n.applied,
           \/ k.role # Leader
           \/ k.role = n.role /\ k.term = n.term /\ k.matchIndex = n.matchIndex,
           ~e.install, e.apply = {},
           \A m \in e.send : Idles(m) \/ SendCause(n, M, k, dirty, m)
    PROVE  CommitStep(n, M, Result(k, dirty, e))
<1> DEFINE r == Result(k, dirty, e)
<1>1. r.node = k /\ r.effects = e /\ r.dirty = dirty
      BY DEF Result
<1> HIDE DEF r
<1>2. Delivers(n, k, e)
  <2>1. n.commit \in Nat
        BY CommitType DEF Ready
  <2>2. (n.commit + 1)..n.commit = {}
        BY <2>1
  <2> QED BY <2>2 DEF Delivers, Ready
<1>3. CommitCause(n, M, r) /\ MatchCause(n, M, k)
      BY <1>1 DEF CommitCause, MatchCause
<1>4. \A m \in e.send : SendCause(n, M, k, dirty, m)
      BY DEF Idles, SendCause
<1> QED BY <1>1, <1>2, <1>3, <1>4 DEF CommitStep, r

\* A step of a leader, which may have added to its log first.
LEMMA LeadCommits ==
    ASSUME NEW n, Ready(n), NEW M, NEW k, NEW r, LeaderStep(k, r),
           k.commit = n.commit, k.snap = n.snap,
           r.dirty \/ (k.log = n.log /\ r.node.commit = k.commit),
           MatchCause(n, M, r.node)
    PROVE  CommitStep(n, M, r)
<1>1. r.node.snap = n.snap /\ r.node.log = k.log
      BY DEF LeaderStep, SameLog
<1>2. Delivers(n, r.node, r.effects)
      BY <1>1 DEF Delivers, LeaderStep
<1>3. CommitCause(n, M, r)
      BY <1>1 DEF CommitCause, LeaderStep, Advanced
<1>4. ASSUME NEW m \in r.effects.send PROVE SendCause(n, M, r.node, r.dirty, m)
      BY DEF LeaderStep, SendCause, CarriesLog, Asks, Grant, Confirms
<1> QED BY <1>2, <1>3, <1>4 DEF CommitStep

\* The same, on a timer.
LEMMA CommitOfTimers ==
    ASSUME NEW n, NEW M, NEW r, CommitStep(n, M, r), NEW q,
           q.node = r.node, q.dirty = r.dirty, q.effects.install = r.effects.install,
           q.effects.apply = r.effects.apply, q.effects.send = r.effects.send
    PROVE  CommitStep(n, M, q)
BY DEF CommitStep, Delivers, CommitCause

\* A heartbeat moves no commit index.
LEMMA CommitOfHeartbeat ==
    ASSUME NEW n, Ready(n), NEW M
    PROVE  CommitStep(n, M, heartbeatTimeout(n))
<1>1. CASE n.role # Leader
  <2>1. heartbeatTimeout(n) = Result(n, FALSE, NoEffects)
        BY <1>1 DEF heartbeatTimeout
  <2> QED BY <1>1, <2>1, QuietCommits DEF NoEffects
<1>2. CASE n.role = Leader
  <2> DEFINE r == broadcastAppend(n)
             q == [r EXCEPT !.effects.timers = {"heartbeat"}]
  <2>1. LeaderStep(n, r) /\ r.node.commit = n.commit
    <3>1. Server \ {n.id} \in SUBSET (Server \ {n.id})
          OBVIOUS
    <3> QED BY <1>2, <3>1, AppendToLeads DEF broadcastAppend, Ready
  <2>2. MatchCause(n, M, r.node)
        BY <1>2, <2>1 DEF LeaderStep, MatchCause
  <2>3. CommitStep(n, M, r)
        BY <2>1, <2>2, LeadCommits
  <2>4. heartbeatTimeout(n) = q
        BY <1>2 DEF heartbeatTimeout
  <2>5. /\ q.node = r.node /\ q.dirty = r.dirty /\ q.effects.install = r.effects.install
        /\ q.effects.apply = r.effects.apply /\ q.effects.send = r.effects.send
        BY DEF broadcastAppend, appendTo, Result, Sends, NoEffects
  <2> HIDE DEF r, q
  <2> QED BY <2>3, <2>4, <2>5, CommitOfTimers
<1> QED BY <1>1, <1>2

\* A step of a node that first stopped leading, or did not lead.
LEMMA CommitStepFrom ==
    ASSUME NEW n, NEW c, NEW M, NEW r, CommitStep(c, M, r),
           c.snap = n.snap, c.log = n.log, c.commit = n.commit, c.role # Leader,
           n.term \in Nat, c.term \in Nat, n.term <= c.term, r.node.term \in Nat
    PROVE  CommitStep(n, M, r)
<1>1. Delivers(n, r.node, r.effects) /\ CommitCause(n, M, r)
      BY DEF CommitStep, Delivers, CommitCause, Advanced
<1>2. MatchCause(n, M, r.node)
      BY DEF CommitStep, MatchCause
<1>3. ASSUME NEW m \in r.effects.send PROVE SendCause(n, M, r.node, r.dirty, m)
  <2>1. SendCause(c, M, r.node, r.dirty, m)
        BY DEF CommitStep
  <2> QED BY <2>1 DEF SendCause
<1> QED BY <1>1, <1>2, <1>3 DEF CommitStep

\* A candidate that wins adds an entry to its log.
LEMMA CommitOfBecomeLeader ==
    ASSUME NEW n, Ready(n), n.role = Candidate, ~becomeLeader(n).err, NEW M
    PROVE  CommitStep(n, M, becomeLeader(n))
<1> DEFINE k == elect(n)
           q == replicate(k)
           effects == [q.effects EXCEPT !.timers = {"heartbeat"}]
           r == Result(q.node, TRUE, effects)
<1>1. lastIndex(n) # MaxIndex /\ becomeLeader(n) = r
  <2>1. becomeLeader(n) = IF lastIndex(n) = MaxIndex THEN Failure(n) ELSE r
        BY DEF becomeLeader, elect
  <2>2. Failure(n).err
        BY DEF Failure
  <2> QED BY <2>1, <2>2
<1>2. /\ NodeInv(k) /\ k.id = n.id /\ k.role = Leader /\ k.snap = n.snap
      /\ k.membership = n.membership
      BY <1>1, ElectType DEF Ready
<1>3. k.commit = n.commit /\ k.applied = n.applied /\ k.matchIndex = ZeroMap
      BY DEF elect, Ready, NodeInv, NodeOK, NodeFields
<1> HIDE DEF k
<1>4. PICK l : /\ l.matchIndex = [k.matchIndex EXCEPT ![k.id] = lastIndex(k)]
               /\ l.commit = k.commit /\ l.term = k.term /\ l.id = k.id /\ SameLog(k, l)
               /\ LeaderStep(l, q) /\ q.dirty
  <2>1. /\ NodeInv(k) /\ k.role = Leader /\ isVoter(k.membership, k.id)
        /\ k.applied = k.commit /\ k.snap.index <= k.commit
        BY <1>2, <1>3 DEF Ready, CommitInLog, Candidate, Follower
  <2> QED BY <2>1, ReplicateLeads
<1>5. MatchCause(n, M, q.node)
  <2>1. q.node.matchIndex = [ZeroMap EXCEPT ![n.id] = lastIndex(k)]
        BY <1>2, <1>3, <1>4 DEF LeaderStep
  <2>2. q.node.id = n.id
        BY <1>2, ReplicateType DEF StepInv
  <2>3. \A f \in Server \ {n.id} : q.node.matchIndex[f] = 0
        BY <2>1 DEF ZeroMap
  <2> QED BY <2>2, <2>3 DEF MatchCause
<1>6. CommitStep(n, M, q)
      BY <1>2, <1>3, <1>4, <1>5, LeadCommits DEF SameLog
<1>7. /\ r.node = q.node /\ r.dirty = q.dirty /\ r.effects.install = q.effects.install
      /\ r.effects.apply = q.effects.apply /\ r.effects.send = q.effects.send
      BY DEF replicate, Result, Then
<1> HIDE DEF q, r
<1>8. CommitStep(n, M, r)
      BY <1>6, <1>7, CommitOfTimers
<1> QED BY <1>1, <1>8

\* An election timeout.
LEMMA CommitOfElectionTimeout ==
    ASSUME NEW n, Ready(n), ~electionTimeout(n).err, NEW M
    PROVE  CommitStep(n, M, electionTimeout(n))
<1> DEFINE c == [n EXCEPT !.role = Candidate, !.leader = Nil, !.term = @ + 1,
                          !.votedFor = n.id, !.votes = {n.id}, !.electionVotes = {},
                          !.nextIndex = ZeroMap, !.matchIndex = ZeroMap,
                          !.appendSequence = ZeroMap]
           request(s) == [type |-> "RequestVote", from |-> n.id, to |-> s,
                          term |-> c.term, lastLogIndex |-> lastIndex(c),
                          lastLogTerm |-> lastTerm(c)]
           asked == Then(ResetElectionTimer,
                        Sends({request(s) : s \in voterUnion(c.membership) \ {n.id}}))
           won == [becomeLeader(c) EXCEPT !.effects = Then(ResetElectionTimer, @)]
<1>1. \/ electionTimeout(n) = Result(n, FALSE, NoEffects)
      \/ /\ isVoter(n.membership, n.id) /\ n.term # MaxTerm
         /\ electionTimeout(n) = won \/ electionTimeout(n) = Result(c, TRUE, asked)
  <2>1. electionTimeout(n) # Failure(n)
        BY DEF Failure
  <2> QED BY <2>1, Zenon DEF electionTimeout, startElection
<1>2. /\ c = [f \in NodeFields |-> c[f]]
      /\ \A f \in NodeFields \ {"role", "leader", "term", "votedFor", "votes",
              "electionVotes", "nextIndex", "matchIndex", "appendSequence"} : c[f] = n[f]
      /\ c.role = Candidate /\ c.leader = Nil /\ c.term = n.term + 1 /\ c.votedFor = n.id
      /\ c.votes = {n.id} /\ c.electionVotes = {} /\ c.nextIndex = ZeroMap
      /\ c.matchIndex = ZeroMap /\ c.appendSequence = ZeroMap
      BY DEF Ready, NodeInv, NodeOK, NodeFields
<1>3. \A m \in asked.send : /\ Asks(m) /\ ~Grant(m) /\ ~CarriesLog(m) /\ ~Confirms(m)
                            /\ m.term = c.term /\ m.lastLogIndex = lastIndex(c)
                            /\ m.lastLogTerm = lastTerm(c)
      BY DEF Then, Sends, NoEffects, ResetElectionTimer, CarriesLog, Asks, Grant, Confirms
<1>4. ~asked.install /\ asked.apply = {}
      BY DEF Then, Sends, NoEffects, ResetElectionTimer
<1> HIDE DEF c, asked
<1>5. /\ c.id = n.id /\ c.commit = n.commit /\ c.snap = n.snap /\ c.log = n.log
      /\ c.applied = n.applied /\ c.membership = n.membership
      /\ c.electionMembership = n.electionMembership
      BY <1>2 DEF NodeFields
<1>6. n.term \in Nat /\ c.term \in Nat /\ n.term < c.term
      BY <1>2, NodeShape DEF Ready
<1>7. CASE electionTimeout(n) = Result(n, FALSE, NoEffects)
      BY <1>7, QuietCommits DEF NoEffects
<1>8. CASE electionTimeout(n) = Result(c, TRUE, asked)
  <2>1. \A m \in asked.send : SendCause(n, M, c, TRUE, m)
        BY <1>2, <1>3, <1>6 DEF SendCause
  <2>2. c.role # Leader
        BY <1>2 DEF Candidate, Leader
  <2> QED BY <1>4, <1>5, <1>8, <2>1, <2>2, QuietCommits
<1>9. CASE isVoter(n.membership, n.id) /\ n.term # MaxTerm /\ electionTimeout(n) = won
  <2> DEFINE r == becomeLeader(c)
  <2>1. /\ won.node = r.node /\ won.dirty = r.dirty /\ won.err = r.err
        /\ won.effects = Then(ResetElectionTimer, r.effects)
    <3>1. \E x, y, z, w : r = [node |-> x, dirty |-> y, effects |-> z, err |-> w]
          BY DEF becomeLeader, Failure, Result
    <3> HIDE DEF r
    <3> QED BY <3>1 DEF r
  <2>2. NodeInv(c)
    <3>1. n.term + 1 \in 0..MaxTerm /\ n.term + 1 > 0
          BY <1>9, NodeShape, ConstantsType DEF Ready
    <3>2. NodeOK(c)
          BY <1>2, <1>5, <3>1, ConstantsType DEF Ready, NodeInv, NodeOK, HardStateOK
    <3>3. LogBounded(c) /\ ProgressBounded(c)
          BY <1>2, <1>5, <3>1
          DEF Ready, NodeInv, LogBounded, ProgressBounded, lastIndex, Leader, Candidate
    <3> QED BY <3>2, <3>3 DEF NodeInv
  <2>3. Ready(c)
        BY <1>5, <1>9, <2>2 DEF Ready, CommitInLog, lastIndex
  <2>4. CommitStep(c, M, r) /\ r.node.term \in Nat
    <3>1. StepInv(c, r)
          BY <1>2, <2>2, BecomeLeaderType
    <3>2. r.node.term \in Nat
          BY <3>1, NodeShape DEF StepInv
    <3> QED BY <1>2, <1>9, <2>1, <2>3, <3>2, CommitOfBecomeLeader
  <2> HIDE DEF r, won
  <2>5. CommitStep(n, M, r)
        BY <1>2, <1>5, <1>6, <2>4, CommitStepFrom DEF Candidate, Leader
  <2>6. /\ won.effects.install = r.effects.install
        /\ won.effects.apply = r.effects.apply /\ won.effects.send = r.effects.send
    <3>1. r.effects.install \in BOOLEAN
          BY <1>2, <2>2, BecomeLeaderType DEF StepInv, EffectsOK, r
    <3> QED BY <2>1, <3>1 DEF Then, ResetElectionTimer, NoEffects
  <2> QED BY <1>9, <2>1, <2>5, <2>6, CommitOfTimers
<1> QED BY <1>1, <1>7, <1>8, <1>9

\* A vote is granted to a candidate whose log is up to date.
LEMMA CommitOfRequestVote ==
    ASSUME NEW n, Ready(n), NEW m, m.type = "RequestVote"
    PROVE  CommitStep(n, {m}, handleRequestVote(n, m))
<1> DEFINE granted == voteGranted(n, m)
           voted == IF granted THEN [n EXCEPT !.votedFor = m.from] ELSE n
           response == [type |-> "RequestVoteResponse", from |-> n.id, to |-> m.from,
                        term |-> n.term, voteGranted |-> granted]
           effects == Then(IF granted THEN ResetElectionTimer ELSE NoEffects, Sends({response}))
           dirty == granted /\ n.votedFor # m.from
<1>1. handleRequestVote(n, m) = Result(voted, dirty, effects)
      BY DEF handleRequestVote
<1>2. granted => m.term = n.term /\ candidateLogIsUpToDate(n, m.lastLogIndex, m.lastLogTerm)
      BY DEF voteGranted
<1> HIDE DEF granted
<1>3. \A f \in NodeFields \ {"votedFor"} : voted[f] = n[f]
      BY DEF Ready, NodeInv, NodeOK, NodeFields
<1> HIDE DEF voted, dirty
<1>4. /\ voted.snap = n.snap /\ voted.log = n.log /\ voted.commit = n.commit
      /\ voted.applied = n.applied /\ voted.role = n.role /\ voted.term = n.term
      /\ voted.matchIndex = n.matchIndex /\ voted.membership = n.membership
      BY <1>3 DEF NodeFields
<1>5. ~effects.install /\ effects.apply = {} /\ effects.send = {response}
      BY DEF Then, Sends, NoEffects, ResetElectionTimer
<1>6. SameLog(n, voted)
      BY <1>4 DEF SameLog
<1>7. lastIndex(voted) = lastIndex(n) /\ lastTerm(voted) = lastTerm(n)
      BY <1>6, SameLogAt DEF lastTerm
<1>8. Idles(response) \/ SendCause(n, {m}, voted, dirty, response)
  <2>1. ~Asks(response) /\ ~CarriesLog(response) /\ ~Confirms(response)
        BY DEF Asks, CarriesLog, Confirms
  <2>2. Grant(response) => granted
        BY DEF Grant
  <2>3. response.term = n.term /\ response.to = m.from
        OBVIOUS
  <2> HIDE DEF response
  <2>4. granted => candidateLogIsUpToDate(voted, m.lastLogIndex, m.lastLogTerm)
        BY <1>2, <1>7 DEF candidateLogIsUpToDate
  <2> QED BY <1>2, <1>4, <2>1, <2>2, <2>3, <2>4 DEF SendCause, Idles, Asks
<1> HIDE DEF effects, response
<1>9. \A x \in effects.send : Idles(x) \/ SendCause(n, {m}, voted, dirty, x)
      BY <1>5, <1>8
<1> QED BY <1>1, <1>4, <1>5, <1>9, QuietCommits

\* A vote is counted, and may complete a quorum.
LEMMA CommitOfRequestVoteResponse ==
    ASSUME NEW n, Ready(n), NEW m, MessageInv(m), ~handleRequestVoteResponse(n, m).err, NEW M
    PROVE  CommitStep(n, M, handleRequestVoteResponse(n, m))
<1> DEFINE counted == [n EXCEPT !.votes = @ \cup {m.from}]
<1>1. \/ handleRequestVoteResponse(n, m) = Result(n, FALSE, NoEffects)
      \/ n.role = Candidate /\ handleRequestVoteResponse(n, m) = becomeLeader(counted)
      \/ handleRequestVoteResponse(n, m) = Result(counted, FALSE, NoEffects)
      BY Zenon DEF handleRequestVoteResponse
<1>2. /\ counted = [f \in NodeFields |-> counted[f]]
      /\ \A f \in NodeFields \ {"votes"} : counted[f] = n[f]
      /\ counted.votes = n.votes \cup {m.from}
      BY DEF Ready, NodeInv, NodeOK, NodeFields
<1>3. m.from \in Server
      BY DEF MessageInv, MessageOK
<1> HIDE DEF counted
<1>4. /\ counted.snap = n.snap /\ counted.log = n.log /\ counted.commit = n.commit
      /\ counted.applied = n.applied /\ counted.role = n.role /\ counted.term = n.term
      /\ counted.matchIndex = n.matchIndex /\ counted.membership = n.membership
      /\ counted.id = n.id
      BY <1>2 DEF NodeFields
<1>5. NodeInv(counted)
      BY <1>2, <1>3
      DEF Ready, NodeInv, NodeOK, HardStateOK, LogBounded, ProgressBounded, lastIndex, NodeFields
<1>6. CommitStep(n, M, Result(n, FALSE, NoEffects))
      BY QuietCommits DEF NoEffects
<1>7. CommitStep(n, M, Result(counted, FALSE, NoEffects))
      BY <1>4, QuietCommits DEF NoEffects
<1>8. ASSUME n.role = Candidate, handleRequestVoteResponse(n, m) = becomeLeader(counted)
      PROVE  CommitStep(n, M, becomeLeader(counted))
  <2> DEFINE r == becomeLeader(counted)
  <2>1. Ready(counted)
        BY <1>4, <1>5 DEF Ready, CommitInLog, lastIndex
  <2>2. CommitStep(counted, M, r)
        BY <1>4, <1>8, <2>1, CommitOfBecomeLeader
  <2>3. StepInv(counted, r)
        BY <1>4, <1>5, <1>8, BecomeLeaderType
  <2> HIDE DEF r
  <2>4. n.term \in Nat /\ r.node.term \in Nat
        BY <2>3, NodeShape DEF Ready, StepInv
  <2>5. CommitStep(n, M, r)
        BY <1>4, <1>8, <2>2, <2>4, CommitStepFrom DEF Candidate, Leader
  <2> QED BY <2>5 DEF r
<1> QED BY <1>1, <1>6, <1>7, <1>8

\* A client's command.
LEMMA CommitOfProposal ==
    ASSUME NEW n, Ready(n), NEW command \in Command, ~proposal(n, command).err, NEW M
    PROVE  CommitStep(n, M, proposal(n, command))
<1> DEFINE e == newEntry(n, "command", command, NoMembership)
           k == [n EXCEPT !.log = Append(@, e)]
           r == replicate(k)
<1>1. /\ proposal(n, command) = r
      /\ n.role = Leader /\ isVoter(n.membership, n.id) /\ lastIndex(n) # MaxIndex
  <2>1. proposal(n, command) # Failure(n)
        BY DEF Failure
  <2> QED BY <2>1, Zenon DEF proposal
<1>2. /\ "command" \in EntryTypes /\ command \in Command \cup {NoCommand}
      /\ NoMembership \in Membership
      BY ConstantsType DEF EntryTypes
<1>3. NodeInv(k) /\ k.id = n.id /\ k.role = Leader
  <2>1. NodeInv(n)
        BY DEF Ready
  <2> QED BY <1>1, <1>2, <2>1, LogEntryType, Zenon
<1>4. \A f \in NodeFields \ {"log"} : k[f] = n[f]
      BY DEF Ready, NodeInv, NodeOK, NodeFields
<1> HIDE DEF e, k
<1>5. /\ k.snap = n.snap /\ k.membership = n.membership /\ k.term = n.term
      /\ k.commit = n.commit /\ k.applied = n.applied /\ k.matchIndex = n.matchIndex
      BY <1>4 DEF NodeFields
<1>6. PICK l : /\ l.matchIndex = [k.matchIndex EXCEPT ![k.id] = lastIndex(k)]
               /\ l.commit = k.commit /\ l.term = k.term /\ l.id = k.id /\ SameLog(k, l)
               /\ LeaderStep(l, r) /\ r.dirty
  <2>1. /\ NodeInv(k) /\ k.role = Leader /\ isVoter(k.membership, k.id)
        /\ k.applied = k.commit /\ k.snap.index <= k.commit
        BY <1>1, <1>3, <1>5 DEF Ready, CommitInLog
  <2> QED BY <2>1, ReplicateLeads
<1>7. MatchCause(n, M, r.node)
  <2>1. r.node.matchIndex = [n.matchIndex EXCEPT ![n.id] = lastIndex(k)] /\ r.node.term = n.term
        BY <1>3, <1>5, <1>6 DEF LeaderStep
  <2>2. r.node.id = n.id
        BY <1>3, ReplicateType DEF StepInv
  <2>3. n.matchIndex \in [Server -> 0..MaxIndex]
        BY DEF Ready, NodeInv, NodeOK
  <2>4. \A f \in Server \ {n.id} : r.node.matchIndex[f] = n.matchIndex[f]
        BY <2>1, <2>3
  <2> QED BY <1>1, <2>1, <2>2, <2>4 DEF MatchCause
<1> HIDE DEF r
<1> QED BY <1>1, <1>5, <1>6, <1>7, LeadCommits DEF SameLog

\* Log compaction.
LEMMA CommitOfSnapshot ==
    ASSUME NEW n, Ready(n), NEW index \in Nat, NEW data, ~takeSnapshot(n, index, data).err,
           NEW M
    PROVE  CommitStep(n, M, takeSnapshot(n, index, data))
<1> DEFINE refused == \/ index = 0 \/ index <= n.snap.index \/ index > n.applied
                      \/ index > n.commit \/ termAt(n, index) = 0
           snap == [index |-> index, term |-> termAt(n, index),
                    membership |-> membershipAt(n, index), data |-> data]
           cut == [n EXCEPT !.snap = snap, !.log = entriesFrom(n, index + 1)]
           k == refreshMembership(cut)
           r == Result(k, TRUE, NoEffects)
<1>1. ~refused /\ takeSnapshot(n, index, data) = r
  <2>1. takeSnapshot(n, index, data) = IF refused THEN Failure(n) ELSE r
        BY DEF takeSnapshot
  <2>2. Failure(n).err
        BY DEF Failure
  <2> QED BY <2>1, <2>2
<1>2. /\ n.commit \in Nat /\ n.snap.index \in Nat /\ n.applied \in Nat
      BY CommitType, LastIndexBounded, ConstantsType DEF Ready
<1>3. index <= n.commit /\ n.snap.index < index
      BY <1>1, <1>2
<1>4. /\ \A f \in NodeFields \ {"snap", "log"} : cut[f] = n[f]
      /\ cut = [f \in NodeFields |-> cut[f]] /\ cut.snap = snap
      BY DEF Ready, NodeInv, NodeOK, NodeFields
<1> HIDE DEF cut
<1>5. \A f \in NodeFields \ {"membership"} : k[f] = cut[f]
      BY <1>4 DEF refreshMembership, NodeFields
<1> HIDE DEF k
<1>6. /\ k.snap = snap /\ k.commit = n.commit /\ k.applied = n.applied
      /\ k.role = n.role /\ k.term = n.term /\ k.matchIndex = n.matchIndex
      BY <1>4, <1>5 DEF NodeFields
<1>7. k.snap.index = index
      BY <1>6
<1>8. r.node = k /\ ~r.effects.install /\ r.effects.apply = {} /\ r.effects.send = {} /\ r.dirty
      BY DEF Result, NoEffects
<1> HIDE DEF r, snap
<1>9. Delivers(n, r.node, r.effects)
  <2>1. (n.commit + 1)..n.commit = {}
        BY <1>2
  <2> QED BY <1>3, <1>6, <1>7, <1>8, <2>1 DEF Delivers, Ready
<1>10. CommitCause(n, M, r) /\ MatchCause(n, M, r.node)
      BY <1>6, <1>8 DEF CommitCause, MatchCause
<1> QED BY <1>1, <1>8, <1>9, <1>10 DEF CommitStep

\* A follower's progress.
LEMMA CommitOfProgress ==
    ASSUME NEW n, Ready(n), n.role = Leader, NEW m, MessageInv(m), m.to = n.id,
           Confirms(m), m.term = n.term
    PROVE  CommitStep(n, {m}, recordProgress(n, m))
<1> DEFINE last == minimum(m.matchIndex, lastIndex(n))
           next == nextIndexAfter(last)
           updated == [n EXCEPT !.matchIndex[m.from] = last, !.nextIndex[m.from] = next]
           recorded == IF m.matchIndex > n.matchIndex[m.from] THEN updated ELSE n
           advanced == advanceCommit(recorded)
           lagging == /\ advanced.node.role = Leader
                      /\ advanced.node.matchIndex[m.from] < lastIndex(advanced.node)
           sent == IF lagging THEN appendTo(advanced.node, {m.from})
                   ELSE Result(advanced.node, FALSE, NoEffects)
           r == Result(sent.node, advanced.effects.apply # {},
                       Then(advanced.effects, sent.effects))
<1>1. recordProgress(n, m) = r
      BY DEF recordProgress
<1>2. /\ m.from \in Server /\ m.from # n.id /\ m.matchIndex \in 0..MaxIndex
      /\ NodeInv(n)
      BY DEF Ready, MessageInv, MessageOK, Confirms
<1>3. /\ NodeInv(updated) /\ SameLog(n, updated) /\ updated.id = n.id
      /\ updated.commit = n.commit /\ updated.applied = n.applied /\ updated.role = n.role
      /\ updated.term = n.term
      /\ updated.matchIndex = [n.matchIndex EXCEPT ![m.from] = last]
  <2>1. lastIndex(n) \in 0..MaxIndex /\ MaxIndex \in Nat /\ MaxIndex > 0
        BY <1>2, LastIndexBounded, ConstantsType
  <2>2. /\ last \in Nat /\ last <= lastIndex(n)
        /\ next \in Nat /\ next > 0 /\ next <= lastIndex(n) + 1 /\ next <= MaxIndex
        BY <1>2, <2>1 DEF minimum, nextIndexAfter
  <2> HIDE DEF last, next
  <2>3. /\ updated = [f \in NodeFields |-> updated[f]]
        /\ \A f \in NodeFields \ {"matchIndex", "nextIndex"} : updated[f] = n[f]
        /\ updated.matchIndex = [n.matchIndex EXCEPT ![m.from] = last]
        /\ updated.nextIndex = [n.nextIndex EXCEPT ![m.from] = next]
        BY DEF Ready, NodeInv, NodeOK, NodeFields
  <2> HIDE DEF updated
  <2>4. /\ updated.matchIndex \in [Server -> 0..MaxIndex]
        /\ updated.nextIndex \in [Server -> 0..MaxIndex]
        /\ \A f \in Server : /\ updated.nextIndex[f] \in 1..(lastIndex(n) + 1)
                              /\ updated.matchIndex[f] <= lastIndex(n)
        BY <1>2, <2>1, <2>2, <2>3, ProgressType
  <2>5. NodeInv(updated) /\ updated.id = n.id
        BY <1>2, <2>3, <2>4, ProgressUpdateType
  <2>6. /\ updated.commit = n.commit /\ updated.applied = n.applied /\ updated.role = n.role
        /\ updated.term = n.term /\ SameLog(n, updated)
        BY <2>3 DEF SameLog, NodeFields
  <2> QED BY <2>3, <2>5, <2>6
<1> HIDE DEF updated, last
<1>4. /\ NodeInv(recorded) /\ SameLog(n, recorded) /\ recorded.id = n.id
      /\ recorded.commit = n.commit /\ recorded.applied = recorded.commit
      /\ recorded.role = Leader /\ recorded.term = n.term
      BY <1>2, <1>3 DEF SameLog, Ready
<1>5. \A f \in Server \ {n.id} :
        \/ recorded.matchIndex[f] = n.matchIndex[f]
        \/ f = m.from /\ recorded.matchIndex[f] = last
  <2>1. n.matchIndex \in [Server -> 0..MaxIndex]
        BY <1>2 DEF NodeInv, NodeOK
  <2> QED BY <1>2, <1>3, <2>1
<1> HIDE DEF recorded
<1>6. /\ LeaderStep(recorded, advanced) /\ NodeInv(advanced.node) /\ advanced.node.id = n.id
      /\ advanced.effects.send = {}
  <2>1. isVoter(recorded.membership, recorded.id) /\ recorded.snap.index <= recorded.commit
        BY <1>4 DEF Ready, SameLog, CommitInLog, Leader, Follower
  <2> QED BY <1>4, <2>1, AdvanceLeads
<1> HIDE DEF advanced
<1>7. advanced.node.role = Leader /\ advanced.node.applied = advanced.node.commit
      BY <1>6 DEF LeaderStep
<1>8. LeaderStep(advanced.node, sent) /\ sent.node.commit = advanced.node.commit
  <2>1. {m.from} \in SUBSET (Server \ {advanced.node.id})
        BY <1>2, <1>6
  <2>2. /\ LeaderStep(advanced.node, appendTo(advanced.node, {m.from}))
        /\ appendTo(advanced.node, {m.from}).node.commit = advanced.node.commit
        BY <1>6, <1>7, <2>1, AppendToLeads
  <2>3. /\ LeaderStep(advanced.node, Result(advanced.node, FALSE, NoEffects))
        /\ Result(advanced.node, FALSE, NoEffects).node = advanced.node
        BY <1>6, <1>7, RestLeads DEF Result
  <2> HIDE DEF lagging
  <2> QED BY <2>2, <2>3
<1>9. sent.node.id = n.id
  <2>1. appendTo(advanced.node, {m.from}).node.id = advanced.node.id
        BY <1>6 DEF appendTo, Result, NodeInv, NodeOK, NodeFields
  <2>2. Result(advanced.node, FALSE, NoEffects).node = advanced.node
        BY DEF Result
  <2> HIDE DEF lagging
  <2> QED BY <1>6, <2>1, <2>2
<1> HIDE DEF sent
<1>10. recorded.commit \in Nat /\ advanced.node.commit \in Nat
      BY <1>4, <1>6, CommitType
<1>11. LeaderStep(recorded, r)
      BY <1>6, <1>8, <1>10, ThenLeads
<1>12. r.node = sent.node /\ r.dirty = (advanced.effects.apply # {})
      BY DEF Result
<1> HIDE DEF r
<1>13. r.dirty \/ r.node.commit = recorded.commit
  <2>1. advanced.effects.apply = (recorded.commit + 1)..advanced.node.commit
        BY <1>6 DEF LeaderStep
  <2>2. advanced.node.commit = recorded.commit \/ recorded.commit < advanced.node.commit
        BY <1>6 DEF LeaderStep, Advanced
  <2>3. recorded.commit < advanced.node.commit => advanced.node.commit \in advanced.effects.apply
        BY <1>10, <2>1
  <2> QED BY <1>8, <1>12, <2>2, <2>3
<1>14. MatchCause(n, {m}, r.node)
  <2>1. r.node.matchIndex = recorded.matchIndex /\ r.node.term = n.term /\ r.node.id = n.id
        BY <1>4, <1>9, <1>11, <1>12 DEF LeaderStep
  <2> QED BY <1>5, <2>1 DEF MatchCause, last
<1> QED BY <1>1, <1>4, <1>11, <1>13, <1>14, LeadCommits DEF SameLog

\* The answers of followers.
LEMMA CommitOfResponses ==
    ASSUME NEW n, Ready(n), NEW m, MessageInv(m), m.to = n.id,
           m.type \in {"AppendEntriesResponse", "InstallSnapshotResponse"}
    PROVE  CommitStep(n, {m}, handleMessage(n, m))
<1> DEFINE next == n.nextIndex[m.from]
           back == IF next > 1 THEN next - 1 ELSE next
           hinted == IF m.rejectHint > 0 /\ m.rejectHint < back THEN m.rejectHint ELSE back
           resume == IF hinted < 1 THEN 1 ELSE hinted
           k == [n EXCEPT !.nextIndex[m.from] = resume]
<1>1. m.matchIndex \in 0..MaxIndex /\ m.from \in Server /\ m.from # n.id /\ NodeInv(n)
      BY DEF MessageInv, MessageOK, Ready
<1>2. CommitStep(n, {m}, Result(n, FALSE, NoEffects))
      BY QuietCommits DEF NoEffects
<1>3. ASSUME n.role = Leader, m.term = n.term, m.success
      PROVE  CommitStep(n, {m}, recordProgress(n, m))
      BY <1>3, CommitOfProgress DEF Confirms
<1>4. CASE m.type = "InstallSnapshotResponse"
  <2>1. handleMessage(n, m) = handleInstallSnapshotResponse(n, m)
        BY <1>4 DEF handleMessage
  <2>2. \/ handleInstallSnapshotResponse(n, m) = Result(n, FALSE, NoEffects)
        \/ /\ n.role = Leader /\ m.term = n.term /\ m.success
           /\ handleInstallSnapshotResponse(n, m) = recordProgress(n, m)
        BY Zenon DEF handleInstallSnapshotResponse
  <2> QED BY <1>2, <1>3, <2>1, <2>2
<1>5. CASE m.type = "AppendEntriesResponse"
  <2>1. handleMessage(n, m) = handleAppendEntriesResponse(n, m)
        BY <1>5 DEF handleMessage
  <2>2. \/ handleAppendEntriesResponse(n, m) = Result(n, FALSE, NoEffects)
        \/ /\ n.role = Leader /\ m.term = n.term /\ m.success
           /\ handleAppendEntriesResponse(n, m) = recordProgress(n, m)
        \/ n.role = Leader /\ handleAppendEntriesResponse(n, m) = appendTo(k, {m.from})
        BY Zenon DEF handleAppendEntriesResponse
  <2>3. ASSUME n.role = Leader PROVE CommitStep(n, {m}, appendTo(k, {m.from}))
    <3> DEFINE r == appendTo(k, {m.from})
    <3>1. lastIndex(n) \in 0..MaxIndex /\ MaxIndex \in Nat /\ MaxIndex > 0
          BY <1>1, LastIndexBounded, ConstantsType
    <3>2. next \in 1..(lastIndex(n) + 1) /\ next \in 0..MaxIndex /\ m.rejectHint \in 0..MaxIndex
          BY <1>1, <1>5, <2>3, ProgressType DEF MessageInv, MessageOK
    <3>3. /\ resume \in Nat /\ resume > 0 /\ resume <= lastIndex(n) + 1 /\ resume <= MaxIndex
          BY <3>1, <3>2
    <3> HIDE DEF resume
    <3>4. /\ k = [f \in NodeFields |-> k[f]]
          /\ \A f \in NodeFields \ {"matchIndex", "nextIndex"} : k[f] = n[f]
          /\ k.matchIndex = n.matchIndex
          /\ k.nextIndex = [n.nextIndex EXCEPT ![m.from] = resume]
          BY <1>1 DEF NodeInv, NodeOK, NodeFields
    <3> HIDE DEF k
    <3>5. /\ k.matchIndex \in [Server -> 0..MaxIndex] /\ k.nextIndex \in [Server -> 0..MaxIndex]
          /\ \A f \in Server : /\ k.nextIndex[f] \in 1..(lastIndex(n) + 1)
                                /\ k.matchIndex[f] <= lastIndex(n)
          BY <1>1, <2>3, <3>1, <3>3, <3>4, ProgressType
    <3>6. NodeInv(k) /\ k.id = n.id /\ k.role = Leader
          BY <1>1, <2>3, <3>4, <3>5, ProgressUpdateType
    <3>7. /\ k.snap = n.snap /\ k.log = n.log /\ k.commit = n.commit /\ k.applied = n.applied
          /\ k.term = n.term
          BY <3>4 DEF NodeFields
    <3>8. {m.from} \in SUBSET (Server \ {k.id})
          BY <1>1, <3>6
    <3>9. LeaderStep(k, r) /\ r.node.commit = k.commit
          BY <3>6, <3>7, <3>8, AppendToLeads DEF Ready
    <3> HIDE DEF r
    <3>10. MatchCause(n, {m}, r.node)
          BY <2>3, <3>4, <3>7, <3>9 DEF MatchCause, LeaderStep
    <3>11. CommitStep(n, {m}, r)
          BY <3>7, <3>9, <3>10, LeadCommits
    <3> QED BY <3>11 DEF r
  <2> HIDE DEF k
  <2> QED BY <1>2, <1>3, <2>1, <2>2, <2>3
<1> QED BY <1>4, <1>5

\* After storing the entries of an append that matches, the log holds what
\* the append carried.
LEMMA StoreTakes ==
    ASSUME NEW n, NodeInv(n), n.role = Follower,
           NEW m, MessageInv(m), m.type = "AppendEntries",
           n.snap.index <= m.prevLogIndex, previousMatches(n, m),
           Len(m.entries) <= MaxIndex - m.prevLogIndex
    PROVE  LET k == storeEntries(n, m)
           IN  /\ Took(k, carried(m)) /\ k.snap = n.snap
               /\ k.commit = n.commit /\ k.applied = n.applied
               /\ newEntries(n, m) = {} => k = n
<1> DEFINE k == storeEntries(n, m)
           g == carried(m)
           first == firstOf(newEntries(n, m))
           log == truncateFrom(n, m.prevLogIndex + first) \o SubSeq(m.entries, first, Len(m.entries))
           l == [n EXCEPT !.log = log]
<1>1. k = IF newEntries(n, m) = {} THEN n ELSE refreshMembership(l)
      BY DEF storeEntries
<1>2. (newEntries(n, m) = {} /\ k = n) \/ Splices(n, k, g)
      BY LogOfStore
<1>3. k.commit = n.commit /\ k.applied = n.applied
  <2> HIDE DEF log
  <2>1. Shape(l) /\ l.commit = n.commit /\ l.applied = n.applied
        BY NodeShape DEF Shape, NodeFields
  <2> HIDE DEF l
  <2>2. refreshMembership(l).commit = l.commit /\ refreshMembership(l).applied = l.applied
        BY <2>1 DEF refreshMembership, Shape, NodeFields
  <2> HIDE DEF k
  <2> QED BY <1>1, <2>1, <2>2
<1> HIDE DEF l
<1>4. PICK prev \in Nat : prev = m.prevLogIndex
      BY ConstantsType DEF MessageInv, MessageOK
<1>5. PICK size \in Nat : size = Len(m.entries)
      BY DEF MessageInv, MessageOK
<1>6. PICK b \in Nat : b = n.snap.index
      BY NodeShape, LastIndexType
<1>7. PICK last \in Nat : last = lastIndex(n)
      BY NodeShape, LastIndexType
<1>8. /\ g.snap.index = prev /\ g.snap.term = m.prevLogTerm /\ g.log = m.entries
      BY <1>4 DEF carried
<1> HIDE DEF g
<1>9. lastIndex(g) = prev + size /\ b <= prev
      BY <1>4, <1>5, <1>6, <1>8 DEF lastIndex
<1>10. k.snap = n.snap
      BY <1>2 DEF Splices
<1>11. ASSUME Splices(n, k, g) PROVE Took(k, g)
  <2>1. lastIndex(k) = lastIndex(g) /\ k.snap.index = b
        BY <1>6, <1>10, <1>11 DEF Splices
  <2>2. PICK p \in Nat : /\ b <= p /\ prev <= p /\ p < prev + size
                         /\ \A i \in (p + 1)..lastIndex(k) : entryAt(k, i) = entryAt(g, i)
        BY <1>6, <1>8, <1>9, <1>11 DEF Splices
  <2>3. PICK j \in Nat : j = prev + size
        OBVIOUS
  <2>4. entryAt(k, j) = entryAt(g, j)
        BY <1>9, <2>1, <2>2, <2>3
  <2>5. /\ j # 0 /\ j # k.snap.index /\ j # g.snap.index
        /\ entryExists(k, j) /\ entryExists(g, j)
        BY <1>8, <1>9, <2>1, <2>2, <2>3 DEF entryExists
  <2>6. termAt(k, j) = termAt(g, j)
        BY <2>4, <2>5 DEF termAt
  <2> QED BY <1>9, <2>1, <2>2, <2>3, <2>6 DEF Took, lastTerm
<1>12. ASSUME newEntries(n, m) = {} PROVE Took(n, g)
  <2>1. CASE size = 0
    <3>1. lastIndex(g) = prev /\ termAt(n, prev) = m.prevLogTerm
          BY <1>4, <1>9, <2>1 DEF previousMatches
    <3>2. prev <= last
      <4>1. CASE prev = 0
            BY <4>1
      <4>2. CASE prev # 0
        <5>1. m.prevLogTerm # 0
              BY <1>4, <4>2 DEF MessageInv, ProbeOK
        <5>2. prev = n.snap.index \/ entryExists(n, prev)
              BY <3>1, <5>1 DEF termAt
        <5>3. n.snap.index <= last
              BY <1>7, NodeShape, LastIndexType
        <5> QED BY <1>6, <1>7, <5>2, <5>3 DEF entryExists
      <4> QED BY <4>1, <4>2
    <3>3. termAt(g, prev) = m.prevLogTerm
      <4>1. prev = 0 => termAt(n, prev) = 0 /\ termAt(g, prev) = 0
            BY DEF termAt
      <4>2. prev # 0 => termAt(g, prev) = m.prevLogTerm
            BY <1>8 DEF termAt
      <4> QED BY <3>1, <4>1, <4>2
    <3> QED BY <1>6, <1>7, <1>9, <3>1, <3>2, <3>3 DEF Took, lastTerm
  <2>2. CASE size > 0
    <3>1. PICK j \in Nat : j = prev + size
          OBVIOUS
    <3>2. size \in 1..Len(m.entries) /\ size \notin newEntries(n, m)
          BY <1>5, <1>12, <2>2
    <3>3. j <= last /\ termAt(n, j) = m.entries[size].term
          BY <1>4, <1>7, <3>1, <3>2 DEF newEntries
    <3>4. j # 0 /\ j # g.snap.index /\ entryExists(g, j) /\ j - prev = size
          BY <1>8, <1>9, <2>2, <3>1 DEF entryExists
    <3>5. termAt(g, j) = m.entries[size].term
          BY <1>8, <3>4 DEF termAt, entryAt
    <3> QED BY <1>6, <1>7, <1>9, <3>1, <3>3, <3>5 DEF Took, lastTerm
  <2> QED BY <2>1, <2>2
<1> HIDE DEF k
<1>13. newEntries(n, m) = {} => k = n
      BY <1>1
<1>14. Took(k, g)
      BY <1>2, <1>11, <1>12
<1> QED BY <1>3, <1>10, <1>13, <1>14 DEF k, g

\* Following a sender leaves the log and what was committed alone.
LEMMA FollowKeeps ==
    ASSUME NEW n, Ready(n), NEW m, MessageInv(m), m.term <= n.term
    PROVE  LET f == followSender(n, m)
           IN  /\ NodeInv(f) /\ f.role = Follower /\ f.term = n.term /\ f.id = n.id
               /\ f.snap = n.snap /\ f.log = n.log /\ f.commit = n.commit
               /\ f.applied = n.commit /\ SameLog(n, f)
<1>1. NodeInv(n) /\ n.applied = n.commit
      BY DEF Ready
<1>2. followSender(n, m).applied = n.applied /\ followSender(n, m).id = n.id
      BY <1>1, NodeShape DEF followSender, becomeFollower, Shape, NodeFields
<1> QED BY <1>1, <1>2, LogOfFollow DEF SameLog

\* A refusal, after following the sender or not.
LEMMA CommitOfRefusal ==
    ASSUME NEW n, Ready(n), NEW f, f.snap = n.snap, f.log = n.log, f.commit = n.commit,
           f.applied = n.applied, f.role = Follower \/ f = n, NEW a, Idles(a), NEW M
    PROVE  /\ CommitStep(n, M, Result(f, FALSE, Then(ResetElectionTimer, Sends({a}))))
           /\ CommitStep(n, M, Result(f, FALSE, Sends({a})))
<1>1. /\ ~Sends({a}).install /\ Sends({a}).apply = {} /\ Sends({a}).send = {a}
      /\ LET e == Then(ResetElectionTimer, Sends({a}))
         IN  ~e.install /\ e.apply = {} /\ e.send = {a}
      BY DEF Then, Sends, NoEffects, ResetElectionTimer
<1>2. \A e \in {Sends({a}), Then(ResetElectionTimer, Sends({a}))} :
        CommitStep(n, M, Result(f, FALSE, e))
  <2> TAKE e \in {Sends({a}), Then(ResetElectionTimer, Sends({a}))}
  <2>1. ~e.install /\ e.apply = {} /\ e.send = {a}
        BY <1>1
  <2> QED BY <2>1, QuietCommits DEF Leader, Follower
<1> QED BY <1>2

\* Accepting entries takes the log that the append carries, and raises the
\* commit index to the leader's.
LEMMA AcceptTakes ==
    ASSUME NEW n, NodeInv(n), n.role = Follower, n.applied = n.commit,
           NEW m, MessageInv(m), m.type = "AppendEntries",
           n.snap.index <= m.prevLogIndex, previousMatches(n, m),
           Len(m.entries) <= MaxIndex - m.prevLogIndex
    PROVE  LET r == acceptEntries(n, m)
               k == r.node
           IN  /\ Took(k, carried(m)) /\ k.snap = n.snap
               /\ ~r.dirty => k.log = n.log /\ k.commit = n.commit
               /\ \/ k.commit = n.commit
                  \/ n.commit < m.leaderCommit /\ k.commit = minimum(m.leaderCommit, lastIndex(k))
               /\ n.commit <= k.commit => k.applied = k.commit
               /\ ~r.effects.install /\ r.effects.apply = (n.commit + 1)..k.commit
<1> DEFINE stored == storeEntries(n, m)
           commit == minimum(m.leaderCommit, lastIndex(stored))
           raised == [stored EXCEPT !.commit = commit]
           higher == m.leaderCommit > n.commit
           committed == IF higher THEN applyCommitted(raised)
                        ELSE Result(stored, FALSE, NoEffects)
           dirty == newEntries(n, m) # {} \/ higher
           r == acceptEntries(n, m)
<1>1. r = Result(committed.node, dirty, committed.effects)
      BY DEF acceptEntries
<1>2. /\ Took(stored, carried(m)) /\ stored.snap = n.snap
      /\ stored.commit = n.commit /\ stored.applied = n.applied
      /\ newEntries(n, m) = {} => stored = n
      BY StoreTakes
<1>3. NodeInv(stored)
      BY StoreEntriesType
<1>4. n.commit \in Nat /\ m.leaderCommit \in Nat /\ lastIndex(stored) \in Nat
      BY <1>3, CommitType, NodeShape, LastIndexType, ConstantsType DEF MessageInv, MessageOK
<1> HIDE DEF stored
<1>5. commit \in Nat
      BY <1>4 DEF minimum
<1>6. /\ \A f \in NodeFields \ {"commit"} : raised[f] = stored[f]
      /\ raised.commit = commit /\ raised = [f \in NodeFields |-> raised[f]]
      BY <1>3 DEF NodeInv, NodeOK, NodeFields
<1> HIDE DEF raised
<1>7. /\ raised.snap = stored.snap /\ raised.log = stored.log /\ raised.applied = n.commit
      /\ raised.commit = commit
      BY <1>2, <1>6 DEF NodeFields
<1> DEFINE k == applyCommitted(raised).node
           e == applyCommitted(raised).effects
<1>8. /\ k.snap = stored.snap /\ k.log = stored.log /\ k.commit = commit
      /\ k.applied = IF n.commit < commit THEN commit ELSE n.commit
      /\ ~e.install /\ e.apply = (n.commit + 1)..commit
      BY <1>6, <1>7 DEF applyCommitted, Result, NoEffects, NodeFields
<1> HIDE DEF k, e
<1>9. CASE higher
  <2>0. committed = applyCommitted(raised) /\ dirty
        BY <1>9
  <2>1. r.node = k /\ r.effects = e /\ r.dirty
    <3> HIDE DEF committed, dirty, r
    <3> QED BY <1>1, <2>0 DEF Result, k, e
  <2>2. lastIndex(k) = lastIndex(stored) /\ \A i : termAt(k, i) = termAt(stored, i)
        BY <1>8 DEF lastIndex, termAt, entryExists, entryAt
  <2>3. Took(k, carried(m)) /\ k.commit = minimum(m.leaderCommit, lastIndex(k))
        BY <1>2, <1>8, <2>2 DEF Took
  <2>4. n.commit < m.leaderCommit /\ (n.commit <= k.commit => k.applied = k.commit)
        BY <1>4, <1>5, <1>8, <1>9
  <2> HIDE DEF r, commit, higher
  <2> QED BY <1>2, <1>8, <2>1, <2>3, <2>4 DEF r
<1>10. CASE ~higher
  <2>1. /\ r.node = stored /\ r.effects = NoEffects
        /\ r.dirty = (newEntries(n, m) # {})
        BY <1>1, <1>10 DEF Result
  <2>2. ~NoEffects.install /\ NoEffects.apply = {} /\ (n.commit + 1)..n.commit = {}
        BY <1>4 DEF NoEffects
  <2> HIDE DEF r, commit, higher
  <2> QED BY <1>2, <2>1, <2>2 DEF r
<1> QED BY <1>9, <1>10

\* An append is refused, or accepted and confirmed.
LEMMA CommitOfAppendEntries ==
    ASSUME NEW n, Ready(n), NEW m, MessageInv(m), m.type = "AppendEntries", m.term <= n.term
    PROVE  CommitStep(n, {m}, handleAppendEntries(n, m))
<1> DEFINE f == followSender(n, m)
           answer(g, success, index, hint) == appendResponse(g, m, success, index, hint)
           refuse(hint) == Result(f, FALSE, Then(ResetElectionTimer,
                                                 Sends({answer(f, FALSE, 0, hint)})))
           accepted == acceptEntries(f, m)
           confirmation == answer(accepted.node, TRUE, m.prevLogIndex + Len(m.entries), 0)
           confirm == Sends({confirmation})
           effects == Then(Then(ResetElectionTimer, accepted.effects), confirm)
<1>1. \/ handleAppendEntries(n, m) =
            Result(n, FALSE, Sends({answer(n, FALSE, 0, nextIndexAfter(lastIndex(n)))}))
      \/ \E hint : handleAppendEntries(n, m) = refuse(hint)
      \/ /\ ~(m.term < n.term)
         /\ ~(m.prevLogIndex < f.snap.index) /\ previousMatches(f, m)
         /\ ~(Len(m.entries) > MaxIndex - m.prevLogIndex)
         /\ handleAppendEntries(n, m) = Result(accepted.node, accepted.dirty, effects)
      BY Zenon DEF handleAppendEntries
<1>2. /\ NodeInv(f) /\ f.role = Follower /\ f.term = n.term /\ f.id = n.id
      /\ f.snap = n.snap /\ f.log = n.log /\ f.commit = n.commit
      /\ f.applied = n.commit /\ SameLog(n, f)
      BY FollowKeeps
<1>3. \A g, hint : Idles(answer(g, FALSE, 0, hint))
      BY DEF appendResponse, Idles, Asks, Grant, CarriesLog, Confirms
<1>4. \A g, index : LET a == answer(g, TRUE, index, 0)
                    IN  /\ ~Asks(a) /\ ~Grant(a) /\ ~CarriesLog(a)
                        /\ a.term = g.term /\ a.matchIndex = index
      BY DEF appendResponse, Asks, Grant, CarriesLog
<1> HIDE DEF f, answer
<1>5. \A hint : CommitStep(n, {m}, refuse(hint))
      BY <1>2, <1>3, CommitOfRefusal DEF Ready
<1>6. CommitStep(n, {m}, Result(n, FALSE, Sends({answer(n, FALSE, 0, nextIndexAfter(lastIndex(n)))})))
      BY <1>3, CommitOfRefusal
<1>7. ASSUME ~(m.term < n.term), ~(m.prevLogIndex < f.snap.index), previousMatches(f, m),
             ~(Len(m.entries) > MaxIndex - m.prevLogIndex)
      PROVE  CommitStep(n, {m}, Result(accepted.node, accepted.dirty, effects))
  <2> DEFINE r == Result(accepted.node, accepted.dirty, effects)
             k == accepted.node
  <2>1. f.snap.index <= m.prevLogIndex /\ Len(m.entries) <= MaxIndex - m.prevLogIndex
    <3>1. /\ m.prevLogIndex \in 0..MaxIndex /\ m.entries \in Seq(Entry) /\ MaxIndex \in Nat
          /\ Len(m.entries) \in Nat /\ f.snap.index \in 0..MaxIndex
          BY <1>2, LastIndexBounded, ConstantsType DEF MessageInv, MessageOK
    <3> QED BY <1>7, <3>1
  <2>2. accepted.effects.send = {}
        BY <1>2, <1>7, <2>1, AcceptEntriesType
  <2>3. m.term = n.term
        BY <1>7, NodeShape, ConstantsType DEF MessageInv, MessageOK, Ready
  <2>4. k.role = Follower /\ k.term = m.term
        BY <1>2, <1>7, <2>1, <2>3, LogOfAccept
  <2>5. /\ Took(k, carried(m)) /\ k.snap = f.snap
        /\ ~accepted.dirty => k.log = f.log /\ k.commit = f.commit
        /\ \/ k.commit = f.commit
           \/ f.commit < m.leaderCommit /\ k.commit = minimum(m.leaderCommit, lastIndex(k))
        /\ f.commit <= k.commit => k.applied = k.commit
        /\ ~accepted.effects.install /\ accepted.effects.apply = (f.commit + 1)..k.commit
        BY <1>2, <1>7, <2>1, AcceptTakes
  <2>6. carriedCommit(m) = m.leaderCommit /\ CarriesLog(m)
        /\ lastIndex(carried(m)) = m.prevLogIndex + Len(m.entries)
        BY DEF carriedCommit, CarriesLog, carried, lastIndex
  <2> HIDE DEF accepted
  <2>7. /\ effects.send = {confirmation} /\ ~effects.install
        /\ effects.apply = accepted.effects.apply
        BY <2>2, <2>5 DEF Then, ResetElectionTimer, Sends, NoEffects
  <2>8. /\ ~Asks(confirmation) /\ ~Grant(confirmation) /\ ~CarriesLog(confirmation)
        /\ confirmation.term = k.term /\ confirmation.matchIndex = lastIndex(carried(m))
        BY <1>4, <2>6
  <2> HIDE DEF confirmation, effects
  <2>9. r.node = k /\ r.dirty = accepted.dirty /\ r.effects = effects
        BY DEF Result
  <2> HIDE DEF r, k
  <2>10. Delivers(n, r.node, r.effects)
        BY <1>2, <2>5, <2>7, <2>9 DEF Delivers
  <2>11. Follows(k, m)
        BY <2>4, <2>6 DEF Follows
  <2>12. CommitCause(n, {m}, r)
        BY <1>2, <2>5, <2>6, <2>9, <2>11 DEF CommitCause
  <2>13. MatchCause(n, {m}, r.node)
        BY <2>4, <2>9 DEF MatchCause, Follower, Leader
  <2>14. SendCause(n, {m}, k, r.dirty, confirmation)
        BY <2>5, <2>8, <2>11 DEF SendCause
  <2>15. CommitStep(n, {m}, r)
        BY <2>7, <2>9, <2>10, <2>12, <2>13, <2>14 DEF CommitStep
  <2> QED BY <2>15 DEF r
<1> HIDE DEF refuse, accepted, effects
<1> QED BY <1>1, <1>5, <1>6, <1>7

\* A snapshot is refused, confirmed because it is committed already, or
\* installed.
LEMMA CommitOfInstallSnapshot ==
    ASSUME NEW n, Ready(n), NEW m, MessageInv(m), m.type = "InstallSnapshot", m.term <= n.term
    PROVE  CommitStep(n, {m}, handleInstallSnapshot(n, m))
<1> DEFINE f == followSender(n, m)
           s == m.snapshot
           answer(g, success, index) == snapshotResponse(g, m, success, index)
           keep(success, index) ==
               Result(f, FALSE, Then(ResetElectionTimer, Sends({answer(f, success, index)})))
           installed == installSnapshot(f, s)
           effects == [Then(ResetElectionTimer, Sends({answer(installed, TRUE, s.index)}))
                            EXCEPT !.install = TRUE]
<1>1. \/ handleInstallSnapshot(n, m) =
            Result(n, FALSE, Sends({answer(n, FALSE, n.snap.index)}))
      \/ handleInstallSnapshot(n, m) = keep(FALSE, f.snap.index)
      \/ /\ ~(m.term < n.term) /\ s.index <= f.commit
         /\ handleInstallSnapshot(n, m) = keep(TRUE, s.index)
      \/ /\ ~(m.term < n.term) /\ s.index # 0 /\ s.term # 0 /\ ~(s.index <= f.commit)
         /\ handleInstallSnapshot(n, m) = Result(installed, TRUE, effects)
      BY Zenon DEF handleInstallSnapshot
<1>2. /\ NodeInv(f) /\ f.role = Follower /\ f.term = n.term /\ f.id = n.id
      /\ f.snap = n.snap /\ f.log = n.log /\ f.commit = n.commit
      /\ f.applied = n.commit /\ SameLog(n, f)
      BY FollowKeeps
<1>3. \A g, index : Idles(answer(g, FALSE, index))
      BY DEF snapshotResponse, Idles, Asks, Grant, CarriesLog, Confirms
<1>4. \A g, index : LET a == answer(g, TRUE, index)
                    IN  /\ ~Asks(a) /\ ~Grant(a) /\ ~CarriesLog(a)
                        /\ a.term = g.term /\ a.matchIndex = index
      BY DEF snapshotResponse, Asks, Grant, CarriesLog
<1>5. /\ SnapshotOK(s) /\ s.index \in Nat /\ n.commit \in Nat
      BY CommitType, ConstantsType DEF MessageInv, MessageOK, SnapshotOK, Ready
<1>6. /\ carriedCommit(m) = s.index /\ CarriesLog(m) /\ lastIndex(carried(m)) = s.index
      /\ carried(m).snap = s /\ carried(m).log = <<>>
  <2>1. /\ carriedCommit(m) = s.index /\ CarriesLog(m) /\ carried(m) = [snap |-> s, log |-> <<>>]
        BY DEF carriedCommit, CarriesLog, carried
  <2>2. lastIndex([snap |-> s, log |-> <<>>]) = s.index
        BY <1>5 DEF lastIndex
  <2> QED BY <2>1, <2>2
<1>7. ~(m.term < n.term) => m.term = n.term
      BY NodeShape, ConstantsType DEF MessageInv, MessageOK, Ready
<1> HIDE DEF f, answer, s
<1>8. CommitStep(n, {m}, keep(FALSE, f.snap.index))
      BY <1>2, <1>3, CommitOfRefusal DEF Ready
<1>9. CommitStep(n, {m}, Result(n, FALSE, Sends({answer(n, FALSE, n.snap.index)})))
      BY <1>3, CommitOfRefusal
<1>10. ASSUME ~(m.term < n.term), s.index <= f.commit
       PROVE  CommitStep(n, {m}, keep(TRUE, s.index))
  <2> DEFINE a == answer(f, TRUE, s.index)
             e == Then(ResetElectionTimer, Sends({a}))
  <2>1. ~e.install /\ e.apply = {} /\ e.send = {a}
        BY DEF Then, Sends, NoEffects, ResetElectionTimer
  <2>2. Follows(f, m)
        BY <1>2, <1>6, <1>7, <1>10 DEF Follows
  <2>3. /\ ~Asks(a) /\ ~Grant(a) /\ ~CarriesLog(a) /\ a.term = f.term /\ a.matchIndex = s.index
        BY <1>4
  <2> HIDE DEF a
  <2>4. SendCause(n, {m}, f, FALSE, a)
        BY <1>2, <1>6, <1>10, <2>2, <2>3 DEF SendCause
  <2> HIDE DEF e
  <2>5. CommitStep(n, {m}, Result(f, FALSE, e))
        BY <1>2, <2>1, <2>4, QuietCommits DEF Ready, Leader, Follower
  <2> QED BY <2>5 DEF e, a
<1>11. ASSUME ~(m.term < n.term), s.index # 0, s.term # 0, ~(s.index <= f.commit)
       PROVE  CommitStep(n, {m}, Result(installed, TRUE, effects))
  <2> DEFINE a == answer(installed, TRUE, s.index)
             r == Result(installed, TRUE, effects)
             log == retainedSuffix(f, s)
             l == [f EXCEPT !.snap = s, !.log = log, !.commit = s.index, !.applied = s.index]
  <2>1. n.commit < s.index
        BY <1>2, <1>5, <1>11
  <2>2. Shape(l) /\ l.role = Follower /\ l.term = m.term /\ l.snap = s
        /\ l.commit = s.index /\ l.applied = s.index
    <3> HIDE DEF log
    <3> QED BY <1>2, <1>7, <1>11, NodeShape DEF Shape, NodeFields
  <2>3. installed = refreshMembership(l)
        BY DEF installSnapshot
  <2> HIDE DEF l
  <2>4. /\ installed.role = Follower /\ installed.term = m.term /\ installed.snap = s
        /\ installed.commit = s.index /\ installed.applied = s.index
        BY <2>2, <2>3 DEF refreshMembership, Shape, NodeFields
  <2>5. NodeInv(installed)
        BY <1>2, <1>5, <1>11, <2>1, InstallSnapshotType
  <2> HIDE DEF installed
  <2>6. s.index <= lastIndex(installed)
        BY <2>4, <2>5, NodeShape, LastIndexType
  <2>7. Took(installed, carried(m))
    <3>1. termAt(installed, s.index) = s.term
          BY <1>11, <2>4 DEF termAt
    <3>2. lastTerm(carried(m)) = s.term
          BY <1>6, <1>11 DEF lastTerm, termAt
    <3> QED BY <1>5, <1>6, <2>4, <2>6, <3>1, <3>2 DEF Took
  <2>8. effects.install /\ effects.apply = {} /\ effects.send = {a}
        BY DEF Then, Sends, NoEffects, ResetElectionTimer
  <2>9. /\ ~Asks(a) /\ ~Grant(a) /\ ~CarriesLog(a) /\ a.term = installed.term
        /\ a.matchIndex = s.index
        BY <1>4
  <2> HIDE DEF a, effects
  <2>10. r.node = installed /\ r.dirty /\ r.effects = effects
        BY DEF Result
  <2> HIDE DEF r
  <2>11. Follows(installed, m)
        BY <1>6, <2>4 DEF Follows
  <2>12. Delivers(n, r.node, r.effects)
        BY <1>5, <2>1, <2>4, <2>8, <2>10 DEF Delivers
  <2>13. CommitCause(n, {m}, r)
    <3>1. minimum(s.index, lastIndex(installed)) = s.index
          BY <2>6 DEF minimum
    <3> QED BY <1>6, <2>1, <2>4, <2>7, <2>10, <2>11, <3>1 DEF CommitCause
  <2>14. MatchCause(n, {m}, r.node)
        BY <2>4, <2>10 DEF MatchCause, Follower, Leader
  <2>15. SendCause(n, {m}, installed, r.dirty, a)
        BY <1>6, <2>7, <2>9, <2>11 DEF SendCause
  <2>16. CommitStep(n, {m}, r)
        BY <2>8, <2>10, <2>12, <2>13, <2>14, <2>15 DEF CommitStep
  <2> QED BY <2>16 DEF r
<1> HIDE DEF keep, installed, effects
<1> QED BY <1>1, <1>8, <1>9, <1>10, <1>11

\* Every message handler.
LEMMA CommitOfHandler ==
    ASSUME NEW n, Ready(n), NEW m, MessageInv(m), m.to = n.id, m.term <= n.term,
           ~handleMessage(n, m).err
    PROVE  CommitStep(n, {m}, handleMessage(n, m))
<1>1. m.type \in MessageTypes
      BY DEF MessageInv, MessageOK
<1>2. CASE m.type = "RequestVote"
      BY <1>2, CommitOfRequestVote DEF handleMessage
<1>3. CASE m.type = "RequestVoteResponse"
  <2>1. handleMessage(n, m) = handleRequestVoteResponse(n, m)
        BY <1>3 DEF handleMessage
  <2> QED BY <2>1, CommitOfRequestVoteResponse
<1>4. CASE m.type = "AppendEntries"
      BY <1>4, CommitOfAppendEntries DEF handleMessage
<1>5. CASE m.type = "InstallSnapshot"
      BY <1>5, CommitOfInstallSnapshot DEF handleMessage
<1>6. CASE m.type \in {"AppendEntriesResponse", "InstallSnapshotResponse"}
      BY <1>6, CommitOfResponses
<1> QED BY <1>1, <1>2, <1>3, <1>4, <1>5, <1>6 DEF MessageTypes

\* A delivered message: step down if its term is higher, then handle it.
LEMMA CommitOfMessage ==
    ASSUME NEW n, Ready(n), NEW m, MessageInv(m), m.to = n.id, ~stepMessage(n, m).err
    PROVE  CommitStep(n, {m}, stepMessage(n, m))
<1> DEFINE higher == m.term > n.term
           k == IF higher THEN becomeFollower(n, m.term, Nil) ELSE n
           r == handleMessage(k, m)
           q == [r EXCEPT !.dirty = @ \/ higher]
<1>0. NodeInv(n)
      BY DEF Ready
<1>1. m.term \in 0..MaxTerm /\ m.term \in Nat /\ n.term \in Nat
  <2>1. m.term \in 1..MaxTerm /\ MaxTerm \in Nat
        BY ConstantsType DEF MessageInv, MessageOK
  <2> QED BY <1>0, <2>1, NodeShape
<1>2. stepMessage(n, m) = q
      BY DEF stepMessage
<1>3. /\ Ready(k) /\ k.id = n.id /\ m.term <= k.term /\ n.term <= k.term
      /\ \/ k = n
         \/ /\ k.role = Follower /\ k.snap = n.snap /\ k.log = n.log /\ k.commit = n.commit
  <2>1. CASE higher
    <3> DEFINE b == becomeFollower(n, m.term, Nil)
    <3>1. b.commit = n.commit /\ b.applied = n.applied
          BY <1>0, NodeShape DEF becomeFollower, Shape, NodeFields
    <3>2. NodeInv(b) /\ b.id = n.id /\ b.role = Follower /\ b.term = m.term /\ SameLog(n, b)
          BY <1>0, <1>1, <2>1, NodeShape, BecomeFollowerType, LogOfStepDown
    <3> HIDE DEF b
    <3>3. Ready(b)
          BY <3>1, <3>2 DEF Ready, SameLog, CommitInLog, lastIndex
    <3> QED BY <1>1, <2>1, <3>1, <3>2, <3>3 DEF b, SameLog
  <2>2. CASE ~higher
        BY <1>1, <2>2
  <2> QED BY <2>1, <2>2
<1> HIDE DEF k
<1>4. StepInv(k, r)
      BY <1>3, HandleMessageType DEF Ready
<1> HIDE DEF r
<1>5. /\ q.node = r.node /\ q.effects = r.effects /\ q.err = r.err
      /\ r.dirty => q.dirty
      BY <1>4 DEF StepInv
<1>6. CommitStep(k, {m}, r)
      BY <1>2, <1>3, <1>5, CommitOfHandler DEF r
<1>7. k.term \in Nat /\ r.node.term \in Nat
      BY <1>3, <1>4, NodeShape DEF StepInv, Ready
<1>8. CommitStep(n, {m}, r)
      BY <1>1, <1>3, <1>6, <1>7, CommitStepFrom DEF Follower, Leader
<1> HIDE DEF q
<1>9. CommitStep(n, {m}, q)
  <2>1. Delivers(n, q.node, q.effects) /\ CommitCause(n, {m}, q) /\ MatchCause(n, {m}, q.node)
        BY <1>5, <1>8 DEF CommitStep, CommitCause
  <2>2. ASSUME NEW x \in q.effects.send PROVE SendCause(n, {m}, q.node, q.dirty, x)
        BY <1>5, <1>8 DEF CommitStep, SendCause
  <2> QED BY <2>1, <2>2 DEF CommitStep
<1> QED BY <1>2, <1>9

-----------------------------------------------------------------------------
(* What a transition may do to the snapshot.                               *)

\* The snapshot of n stays, or is replaced by the one a message of M carries.
SnapStep(n, M, r) ==
    \/ r.node.snap = n.snap
    \/ r.effects.install /\ \E m \in M : m.type = "InstallSnapshot" /\ r.node.snap = m.snapshot

\* Compaction takes the checkpoint it is given.
LEMMA SnapOfSnapshot ==
    ASSUME NEW n, NodeInv(n), NEW index, NEW data, ~takeSnapshot(n, index, data).err
    PROVE  LET r == takeSnapshot(n, index, data)
           IN  r.node.snap.index = index /\ r.node.snap.data = data /\ ~r.effects.install
<1> DEFINE refused == \/ index = 0 \/ index <= n.snap.index \/ index > n.applied
                      \/ index > n.commit \/ termAt(n, index) = 0
           snap == [index |-> index, term |-> termAt(n, index),
                    membership |-> membershipAt(n, index), data |-> data]
           k == [n EXCEPT !.snap = snap, !.log = entriesFrom(n, index + 1)]
           l == refreshMembership(k)
<1>1. takeSnapshot(n, index, data) = Result(l, TRUE, NoEffects)
  <2>1. takeSnapshot(n, index, data) # Failure(n)
        BY DEF Failure
  <2> QED BY <2>1, Zenon DEF takeSnapshot
<1>2. snap.index = index /\ snap.data = data
      OBVIOUS
<1> HIDE DEF snap
<1>3. Shape(k) /\ k.snap = snap
      BY NodeShape DEF Shape, NodeFields
<1> HIDE DEF k
<1>4. l.snap = snap
      BY <1>3, LogOfRefresh
<1> HIDE DEF l
<1> QED BY <1>1, <1>2, <1>4 DEF Result, NoEffects

\* Timers and proposals leave the snapshot alone.
LEMMA SnapOfBecomeLeader ==
    ASSUME NEW n, NodeInv(n), n.role = Candidate, ~becomeLeader(n).err
    PROVE  becomeLeader(n).node.snap = n.snap
BY LogOfBecomeLeader DEF Appends

\* An election timeout leaves the snapshot alone.
LEMMA SnapOfElectionTimeout ==
    ASSUME NEW n, NodeInv(n), ~electionTimeout(n).err
    PROVE  electionTimeout(n).node.snap = n.snap
<1> DEFINE c == [n EXCEPT !.role = Candidate, !.leader = Nil, !.term = @ + 1,
                          !.votedFor = n.id, !.votes = {n.id}, !.electionVotes = {},
                          !.nextIndex = ZeroMap, !.matchIndex = ZeroMap,
                          !.appendSequence = ZeroMap]
           e == Then(ResetElectionTimer,
                  Sends({[type |-> "RequestVote", from |-> n.id, to |-> s,
                          term |-> c.term, lastLogIndex |-> lastIndex(c),
                          lastLogTerm |-> lastTerm(c)] : s \in voterUnion(c.membership) \ {n.id}}))
           won == [becomeLeader(c) EXCEPT !.effects = Then(ResetElectionTimer, @)]
<1>1. \/ electionTimeout(n) = Result(n, FALSE, NoEffects)
      \/ n.term # MaxTerm /\ electionTimeout(n) = won
      \/ electionTimeout(n) = Result(c, TRUE, e)
  <2>1. electionTimeout(n) # Failure(n)
        BY DEF Failure
  <2> QED BY <2>1, Zenon DEF electionTimeout, startElection
<1>2. /\ c = [f \in NodeFields |-> c[f]]
      /\ \A f \in NodeFields \ {"role", "leader", "term", "votedFor", "votes",
              "electionVotes", "nextIndex", "matchIndex", "appendSequence"} : c[f] = n[f]
      /\ c.role = Candidate /\ c.leader = Nil /\ c.term = n.term + 1 /\ c.votedFor = n.id
      /\ c.votes = {n.id} /\ c.electionVotes = {} /\ c.nextIndex = ZeroMap
      /\ c.matchIndex = ZeroMap /\ c.appendSequence = ZeroMap
      BY DEF NodeInv, NodeOK, NodeFields
<1> HIDE DEF c, e
<1>3. /\ c.id = n.id /\ c.commit = n.commit /\ c.snap = n.snap /\ c.log = n.log
      /\ c.applied = n.applied /\ c.membership = n.membership
      /\ c.electionMembership = n.electionMembership
      BY <1>2 DEF NodeFields
<1>4. CASE n.term # MaxTerm /\ electionTimeout(n) = won
  <2> DEFINE r == becomeLeader(c)
  <2>1. won.node = r.node /\ won.err = r.err
    <3>1. \E x, y, z, w : r = [node |-> x, dirty |-> y, effects |-> z, err |-> w]
          BY DEF becomeLeader, Failure, Result
    <3> HIDE DEF r
    <3> QED BY <3>1 DEF r
  <2>2. NodeInv(c)
    <3>1. n.term + 1 \in 0..MaxTerm /\ n.term + 1 > 0
          BY <1>4, NodeShape, ConstantsType
    <3>2. NodeOK(c)
          BY <1>2, <1>3, <3>1, ConstantsType DEF NodeInv, NodeOK, HardStateOK
    <3>3. LogBounded(c) /\ ProgressBounded(c)
          BY <1>2, <1>3, <3>1
          DEF NodeInv, LogBounded, ProgressBounded, lastIndex, Leader, Candidate
    <3> QED BY <3>2, <3>3 DEF NodeInv
  <2> HIDE DEF won
  <2> QED BY <1>2, <1>3, <1>4, <2>1, <2>2, SnapOfBecomeLeader
<1> QED BY <1>1, <1>3, <1>4 DEF Result

\* So does a proposal.
LEMMA SnapOfProposal ==
    ASSUME NEW n, NodeInv(n), NEW command \in Command, ~proposal(n, command).err
    PROVE  proposal(n, command).node.snap = n.snap
<1> DEFINE k == [n EXCEPT !.log = Append(@, newEntry(n, "command", command, NoMembership))]
<1>1. proposal(n, command) = replicate(k) /\ n.role = Leader /\ lastIndex(n) # MaxIndex
  <2>1. proposal(n, command) # Failure(n)
        BY DEF Failure
  <2> QED BY <2>1, Zenon DEF proposal
<1>2. "command" \in EntryTypes /\ command \in Command \cup {NoCommand} /\ NoMembership \in Membership
      BY ConstantsType DEF EntryTypes
<1>3. NodeInv(k) /\ k.role = Leader
      BY <1>1, <1>2, LogEntryType, Zenon
<1>4. k.snap = n.snap
      BY NodeShape DEF Shape, NodeFields
<1> HIDE DEF k
<1> QED BY <1>1, <1>3, <1>4, LogOfReplicate DEF KeepsLog, SameLog

\* Of the messages, only InstallSnapshot replaces it.
LEMMA SnapOfVotes ==
    ASSUME NEW n, NodeInv(n), NEW m, MessageInv(m)
    PROVE  /\ handleRequestVote(n, m).node.snap = n.snap
           /\ ~handleRequestVoteResponse(n, m).err =>
                handleRequestVoteResponse(n, m).node.snap = n.snap
<1> DEFINE counted == [n EXCEPT !.votes = @ \cup {m.from}]
           voted == [n EXCEPT !.votedFor = m.from]
<1>1. \E dirty, e : \/ handleRequestVote(n, m) = Result(n, dirty, e)
                    \/ handleRequestVote(n, m) = Result(voted, dirty, e)
      BY Zenon DEF handleRequestVote
<1>2. voted.snap = n.snap
      BY NodeShape DEF Shape, NodeFields
<1>3. \/ handleRequestVoteResponse(n, m) = Result(n, FALSE, NoEffects)
      \/ n.role = Candidate /\ handleRequestVoteResponse(n, m) = becomeLeader(counted)
      \/ handleRequestVoteResponse(n, m) = Result(counted, FALSE, NoEffects)
      BY Zenon DEF handleRequestVoteResponse
<1>4. /\ counted = [f \in NodeFields |-> counted[f]]
      /\ \A f \in NodeFields \ {"votes"} : counted[f] = n[f]
      /\ counted.votes = n.votes \cup {m.from}
      BY DEF NodeInv, NodeOK, NodeFields
<1>5. m.from \in Server
      BY DEF MessageInv, MessageOK
<1> HIDE DEF counted, voted
<1>6. NodeInv(counted) /\ counted.role = n.role /\ counted.snap = n.snap
      BY <1>4, <1>5
      DEF NodeInv, NodeOK, HardStateOK, LogBounded, ProgressBounded, lastIndex, NodeFields
<1>7. n.role = Candidate /\ ~becomeLeader(counted).err => becomeLeader(counted).node.snap = n.snap
      BY <1>6, SnapOfBecomeLeader
<1>8. handleRequestVote(n, m).node.snap = n.snap
      BY <1>1, <1>2 DEF Result
<1> QED BY <1>3, <1>6, <1>7, <1>8 DEF Result

\* So does an append.
LEMMA SnapOfAppendEntries ==
    ASSUME NEW n, NodeInv(n), NEW m, MessageInv(m), m.type = "AppendEntries", m.term <= n.term
    PROVE  handleAppendEntries(n, m).node.snap = n.snap
<1> DEFINE f == followSender(n, m)
           accepted == acceptEntries(f, m)
<1>1. \/ \E e : handleAppendEntries(n, m) = Result(n, FALSE, e)
      \/ \E e : handleAppendEntries(n, m) = Result(f, FALSE, e)
      \/ /\ ~(m.prevLogIndex < f.snap.index) /\ previousMatches(f, m)
         /\ ~(Len(m.entries) > MaxIndex - m.prevLogIndex)
         /\ \E e : handleAppendEntries(n, m) = Result(accepted.node, accepted.dirty, e)
      BY Zenon DEF handleAppendEntries
<1>2. NodeInv(f) /\ f.role = Follower /\ SameLog(n, f)
      BY LogOfFollow
<1> HIDE DEF f
<1>3. ASSUME ~(m.prevLogIndex < f.snap.index), previousMatches(f, m),
             ~(Len(m.entries) > MaxIndex - m.prevLogIndex)
      PROVE  accepted.node.snap = f.snap
  <2>1. f.snap.index <= m.prevLogIndex /\ Len(m.entries) <= MaxIndex - m.prevLogIndex
    <3>1. /\ m.prevLogIndex \in 0..MaxIndex /\ m.entries \in Seq(Entry) /\ MaxIndex \in Nat
          /\ Len(m.entries) \in Nat /\ f.snap.index \in 0..MaxIndex
          BY <1>2, LastIndexBounded, ConstantsType DEF MessageInv, MessageOK
    <3> QED BY <1>3, <3>1
  <2>2. SameLog(f, accepted.node) \/ Splices(f, accepted.node, carried(m))
        BY <1>2, <1>3, <2>1, LogOfAccept
  <2> QED BY <2>2 DEF SameLog, Splices
<1> HIDE DEF accepted
<1> QED BY <1>1, <1>2, <1>3 DEF Result, SameLog

\* An installed snapshot is the one of the message.
LEMMA SnapOfInstallSnapshot ==
    ASSUME NEW n, NodeInv(n), NEW m, MessageInv(m), m.type = "InstallSnapshot", m.term <= n.term
    PROVE  SnapStep(n, {m}, handleInstallSnapshot(n, m))
<1> DEFINE f == followSender(n, m)
           s == m.snapshot
           installed == installSnapshot(f, s)
           e == Then(ResetElectionTimer, Sends({snapshotResponse(installed, m, TRUE, s.index)}))
<1>1. \/ \E d : handleInstallSnapshot(n, m) = Result(n, FALSE, d)
      \/ \E d : handleInstallSnapshot(n, m) = Result(f, FALSE, d)
      \/ /\ s.index # 0 /\ s.term # 0
         /\ handleInstallSnapshot(n, m) = Result(installed, TRUE, [e EXCEPT !.install = TRUE])
      BY Zenon DEF handleInstallSnapshot
<1>2. NodeInv(f) /\ SameLog(n, f)
      BY LogOfFollow
<1>3. SnapshotOK(s)
      BY DEF MessageInv, MessageOK
<1> HIDE DEF f
<1>4. s.index # 0 /\ s.term # 0 => installed.snap = s
      BY <1>2, <1>3, LogOfInstall
<1>5. [e EXCEPT !.install = TRUE].install
      BY DEF Then
<1> DEFINE h == handleInstallSnapshot(n, m)
           g == [e EXCEPT !.install = TRUE]
<1> HIDE DEF e, g, installed
<1>6. \/ h.node = n \/ h.node = f
      \/ s.index # 0 /\ s.term # 0 /\ h.node = installed /\ h.effects.install
  <2>1. h = Result(installed, TRUE, g) => h.node = installed /\ h.effects = g
        BY DEF Result
  <2>2. g.install
        BY <1>5 DEF g
  <2>3. \/ \E d : h = Result(n, FALSE, d)
        \/ \E d : h = Result(f, FALSE, d)
        \/ s.index # 0 /\ s.term # 0 /\ h = Result(installed, TRUE, g)
        BY <1>1 DEF g
  <2> HIDE DEF h
  <2>4. (\E d : h = Result(n, FALSE, d)) => h.node = n
        BY DEF Result
  <2>5. (\E d : h = Result(f, FALSE, d)) => h.node = f
        BY DEF Result
  <2> QED BY <2>1, <2>2, <2>3, <2>4, <2>5
<1> HIDE DEF h
<1>7. \/ h.node.snap = n.snap
      \/ h.node.snap = m.snapshot /\ h.effects.install
      BY <1>2, <1>4, <1>6 DEF SameLog
<1> QED BY <1>7 DEF SnapStep, h

\* A snapshot changes only to one that a handled message carries.
LEMMA SnapOfHandler ==
    ASSUME NEW n, NodeInv(n), NEW m, MessageInv(m), m.to = n.id, m.term <= n.term,
           ~handleMessage(n, m).err
    PROVE  SnapStep(n, {m}, handleMessage(n, m))
<1>1. m.type \in MessageTypes
      BY DEF MessageInv, MessageOK
<1>2. CASE m.type \in {"RequestVote", "RequestVoteResponse"}
      BY <1>2, SnapOfVotes DEF handleMessage, SnapStep
<1>3. CASE m.type = "AppendEntries"
      BY <1>3, SnapOfAppendEntries DEF handleMessage, SnapStep
<1>4. CASE m.type = "InstallSnapshot"
      BY <1>4, SnapOfInstallSnapshot DEF handleMessage
<1>5. CASE m.type \in {"AppendEntriesResponse", "InstallSnapshotResponse"}
      BY <1>5, LogOfResponses DEF SnapStep, KeepsLog, SameLog
<1> QED BY <1>1, <1>2, <1>3, <1>4, <1>5 DEF MessageTypes

\* Nor does the change of term before the handler touch it.
LEMMA SnapOfMessage ==
    ASSUME NEW n, NodeInv(n), NEW m, MessageInv(m), m.to = n.id, ~stepMessage(n, m).err
    PROVE  SnapStep(n, {m}, stepMessage(n, m))
<1> DEFINE higher == m.term > n.term
           k == IF higher THEN becomeFollower(n, m.term, Nil) ELSE n
           r == handleMessage(k, m)
           q == [r EXCEPT !.dirty = @ \/ higher]
<1>1. m.term \in 0..MaxTerm /\ m.term \in Nat /\ n.term \in Nat
  <2>1. m.term \in 1..MaxTerm /\ MaxTerm \in Nat
        BY ConstantsType DEF MessageInv, MessageOK
  <2> QED BY <2>1, NodeShape
<1>2. stepMessage(n, m) = q
      BY DEF stepMessage
<1>3. NodeInv(k) /\ k.id = n.id /\ m.term <= k.term /\ k.snap = n.snap
  <2>1. CASE higher
        BY <1>1, <2>1, NodeShape, BecomeFollowerType, LogOfStepDown DEF SameLog
  <2>2. CASE ~higher
        BY <1>1, <2>2
  <2> QED BY <2>1, <2>2
<1> HIDE DEF k
<1>4. StepInv(k, r)
      BY <1>3, HandleMessageType
<1> HIDE DEF r
<1>5. q.node = r.node /\ q.effects = r.effects /\ q.err = r.err
      BY <1>4 DEF StepInv
<1>6. SnapStep(k, {m}, r)
      BY <1>2, <1>3, <1>5, SnapOfHandler DEF r
<1> HIDE DEF q
<1> QED BY <1>2, <1>3, <1>5, <1>6 DEF SnapStep

-----------------------------------------------------------------------------
(* What a log stands for.                                                  *)

\* The snapshot boundary of d is an entry of the history of its term.
Anchored(h, d) ==
    d.snap.index > 0 => /\ d.snap.term \in Terms
                        /\ d.snap.index <= Len(h.full[d.snap.term])
                        /\ h.full[d.snap.term][d.snap.index].term = d.snap.term

\* A boundary inside a history is one.
LEMMA WithinAnchored ==
    ASSUME NEW h \in Histories, HistoriesAgree(h), NEW d, SectionOK(d),
           NEW u \in Terms, Within(d, h.full[u])
    PROVE  /\ Anchored(h, d)
           /\ \A j \in 1..d.snap.index : h.full[d.snap.term][j] = h.full[u][j]
<1>1. PICK b \in Nat : b = d.snap.index
      BY DEF SectionOK
<1>2. CASE b = 0
      BY <1>1, <1>2 DEF Anchored
<1>3. CASE b > 0
  <2>1. lastIndex(d) \in Nat /\ b <= lastIndex(d) /\ lastIndex(d) <= Len(h.full[u])
        BY <1>1, SectionAt DEF Within
  <2>2. PICK l \in Nat : l = Len(h.full[u])
        BY DEF Histories
  <2>3. b \in 1..l
        BY <1>3, <2>1, <2>2
  <2>4. h.full[u][b].term = d.snap.term
        BY <1>1, <1>3 DEF Within
  <2>5. b <= Len(h.full[d.snap.term]) /\ \A j \in 1..b : h.full[d.snap.term][j] = h.full[u][j]
        BY <2>2, <2>3, <2>4 DEF HistoriesAgree
  <2>6. d.snap.term \in Terms
        BY <1>3, <2>2, <2>3, <2>4, HistoryTerm
  <2>7. b \in 1..b
        BY <1>3
  <2> QED BY <1>1, <2>4, <2>5, <2>6, <2>7 DEF Anchored
<1> QED BY <1>2, <1>3

\* What a section of a history includes is what the history holds.
LEMMA IncludesWithin ==
    ASSUME NEW h \in Histories, HistoriesAgree(h), NEW d, SectionOK(d),
           NEW u \in Terms, Within(d, h.full[u]), NEW i \in Nat, i > 0, NEW t
    PROVE  Includes(h, d, i, t) <=> i <= lastIndex(d) /\ h.full[u][i].term = t
<1>1. PICK b \in Nat : b = d.snap.index
      BY DEF SectionOK
<1>2. h.full[u] \in Seq(Entry)
      BY DEF Histories
<1>3. i > b /\ i <= lastIndex(d) => entryAt(d, i) = h.full[u][i]
      BY <1>1, <1>2, WithinAt
<1>4. i <= b => h.full[d.snap.term][i] = h.full[u][i]
  <2>1. i <= b => i \in 1..b
        OBVIOUS
  <2> QED BY <1>1, <2>1, WithinAnchored
<1> QED BY <1>1, <1>3, <1>4 DEF Includes

\* Only the boundary and the entries matter.
LEMMA IncludesSame ==
    ASSUME NEW h, NEW d, NEW e, d.snap = e.snap, d.log = e.log
    PROVE  /\ \A i, t : Includes(h, d, i, t) <=> Includes(h, e, i, t)
           /\ Anchored(h, d) <=> Anchored(h, e)
           /\ lastIndex(d) = lastIndex(e) /\ lastTerm(d) = lastTerm(e)
           /\ \A i : termAt(d, i) = termAt(e, i)
<1>1. lastIndex(d) = lastIndex(e)
      BY DEF lastIndex
<1>2. \A i : entryAt(d, i) = entryAt(e, i) /\ termAt(d, i) = termAt(e, i)
      BY <1>1 DEF entryAt, termAt, entryExists
<1> QED BY <1>1, <1>2 DEF Includes, Anchored, lastTerm

\* Longer histories change nothing below a boundary.
LEMMA IncludesContinues ==
    ASSUME NEW h \in Histories, NEW g \in Histories, Continues(h, g),
           NEW d, SectionOK(d), Anchored(h, d)
    PROVE  /\ Anchored(g, d)
           /\ \A i \in Nat : i > 0 => \A t : Includes(h, d, i, t) <=> Includes(g, d, i, t)
<1>1. PICK b \in Nat : b = d.snap.index
      BY DEF SectionOK
<1>2. CASE b = 0
      BY <1>1, <1>2 DEF Anchored, Includes
<1>3. CASE b > 0
  <2>1. PICK v \in Terms : v = d.snap.term
        BY <1>1, <1>3 DEF Anchored
  <2>2. PICK l \in Nat : l = Len(h.full[v])
        BY DEF Histories
  <2>3. b <= l /\ h.full[v][b].term = v
        BY <1>1, <1>3, <2>1, <2>2 DEF Anchored
  <2>4. PICK k \in Nat : k = Len(g.full[v])
        BY DEF Histories
  <2>5. l <= k /\ \A i \in 1..l : g.full[v][i] = h.full[v][i]
        BY <2>2, <2>4 DEF Continues
  <2>6. \A i \in Nat : i > 0 /\ i <= b => g.full[v][i] = h.full[v][i]
        BY <2>3, <2>5
  <2>7. Anchored(g, d)
    <3>1. b <= k /\ g.full[v][b].term = v
          BY <1>3, <2>3, <2>5, <2>6
    <3> QED BY <1>1, <2>1, <2>4, <3>1 DEF Anchored
  <2>8. \A i \in Nat : i > 0 => \A t : Includes(h, d, i, t) <=> Includes(g, d, i, t)
    <3> SUFFICES ASSUME NEW i \in Nat, i > 0, NEW t
                 PROVE  Includes(h, d, i, t) <=> Includes(g, d, i, t)
        OBVIOUS
    <3> QED BY <1>1, <2>1, <2>6 DEF Includes
  <2> QED BY <2>7, <2>8
<1> QED BY <1>2, <1>3

\* Nor what a leader made.
LEMMA OwnContinues ==
    ASSUME NEW h \in Histories, NEW g \in Histories, Continues(h, g),
           NEW t \in Terms, NEW i \in Nat, i > 0
    PROVE  /\ Own(h, t, i) => Own(g, t, i)
           /\ Own(g, t, i) /\ i <= Len(h.full[t]) => Own(h, t, i)
           /\ i <= Len(h.full[t]) => g.full[t][i] = h.full[t][i] /\ i <= Len(g.full[t])
<1>1. PICK l \in Nat : l = Len(h.full[t])
      BY DEF Histories
<1>2. PICK k \in Nat : k = Len(g.full[t])
      BY DEF Histories
<1>3. l <= k /\ \A j \in 1..l : g.full[t][j] = h.full[t][j]
      BY <1>1, <1>2 DEF Continues
<1> QED BY <1>1, <1>2, <1>3 DEF Own

\* An entry added at the end.
LEMMA AppendIncludes ==
    ASSUME NEW h, NEW n, SectionOK(n), NEW e \in Entry, NEW k, k.snap = n.snap,
           k.log = Append(n.log, e), NEW i \in Nat, NEW t, Includes(h, n, i, t)
    PROVE  Includes(h, k, i, t)
<1>1. PICK b \in Nat : b = n.snap.index
      BY DEF SectionOK
<1>2. PICK l \in Nat : l = Len(n.log)
      BY SectionAt
<1>3. n.log \in Seq(Entry)
      BY DEF SectionOK
<1>4. Len(k.log) = l + 1 /\ \A j \in 1..l : k.log[j] = n.log[j]
      BY <1>2, <1>3, AppendAt
<1>5. lastIndex(n) = b + l /\ lastIndex(k) = b + (l + 1)
      BY <1>1, <1>2, <1>4 DEF lastIndex
<1>6. i <= b + l /\ i <= b + (l + 1)
      BY <1>5 DEF Includes
<1>7. i > b => entryAt(k, i) = entryAt(n, i)
  <2>1. i > b => i - b \in 1..l
        BY <1>6
  <2> QED BY <1>1, <1>4, <2>1 DEF entryAt
<1> QED BY <1>1, <1>5, <1>6, <1>7 DEF Includes

\* A part of a section that reaches as far includes as much.
LEMMA PartIncludes ==
    ASSUME NEW h \in Histories, HistoriesAgree(h), NEW n, SectionOK(n),
           NEW u \in Terms, Within(n, h.full[u]), NEW k, SectionOK(k),
           Part(k, n), lastIndex(k) = lastIndex(n)
    PROVE  /\ Within(k, h.full[u]) /\ lastTerm(k) = lastTerm(n)
           /\ \A i \in Nat : i > 0 => \A t : Includes(h, n, i, t) => Includes(h, k, i, t)
<1>1. h.full[u] \in Seq(Entry)
      BY DEF Histories
<1>2. Within(k, h.full[u])
      BY <1>1, PartWithin
<1>3. \A i \in Nat : i > 0 => \A t : Includes(h, n, i, t) => Includes(h, k, i, t)
      BY <1>2, IncludesWithin
<1>4. PICK l \in Nat : l = lastIndex(n)
      BY SectionAt
<1>5. l > 0 => termAt(k, l) = h.full[u][l].term /\ termAt(n, l) = h.full[u][l].term
  <2>1. k.snap.index <= l /\ n.snap.index <= l
        BY <1>4, SectionAt
  <2> QED BY <1>1, <1>2, <1>4, <2>1, WithinAt
<1>6. l = 0 => termAt(k, l) = termAt(n, l)
      BY DEF termAt
<1>7. lastTerm(k) = lastTerm(n)
      BY <1>4, <1>5, <1>6 DEF lastTerm
<1> QED BY <1>2, <1>3, <1>7

\* What a follower splices together includes what both logs do.
LEMMA SpliceIncludes ==
    ASSUME NEW h \in Histories, HistoriesAgree(h), NEW u \in Terms, NEW v \in Terms,
           NEW n, SectionOK(n), Within(n, h.full[u]),
           NEW c, SectionOK(c), Within(c, h.full[v]),
           NEW k, SectionOK(k), Splices(n, k, c),
           NEW i \in Nat, i > 0, NEW t, Includes(h, n, i, t),
           i <= Len(h.full[v]), h.full[v][i].term = t
    PROVE  Includes(h, k, i, t)
<1>1. Within(k, h.full[v])
      BY SpliceWithin
<1>2. i <= lastIndex(n) /\ h.full[u][i].term = t
      BY IncludesWithin
<1>3. PICK p \in Nat :
        /\ n.snap.index <= p /\ p <= lastIndex(n)
        /\ c.snap.index <= p /\ p <= lastIndex(c)
        /\ p < lastIndex(c) /\ (p < lastIndex(n) => termAt(n, p + 1) # termAt(c, p + 1))
      BY DEF Splices
<1>4. PICK ln \in Nat : ln = lastIndex(n)
      BY SectionAt
<1>5. PICK lc \in Nat : lc = lastIndex(c)
      BY SectionAt
<1>6. lastIndex(k) = lc
      BY <1>5 DEF Splices
<1>7. CASE i <= p
  <2>1. i <= lastIndex(k)
        BY <1>3, <1>5, <1>6, <1>7
  <2> QED BY <1>1, <2>1, IncludesWithin
<1>8. CASE p < i
  <2>1. PICK q \in Nat : q = p + 1
        OBVIOUS
  <2>2. q > 0 /\ q <= i /\ q <= ln /\ q <= lc /\ n.snap.index <= q /\ c.snap.index <= q
    <3>1. n.snap.index \in Nat /\ c.snap.index \in Nat
          BY SectionAt
    <3> QED BY <1>2, <1>3, <1>4, <1>5, <1>8, <2>1, <3>1
  <2>3. h.full[u] \in Seq(Entry) /\ h.full[v] \in Seq(Entry)
        BY DEF Histories
  <2>4. termAt(n, q) = h.full[u][q].term /\ termAt(c, q) = h.full[v][q].term
        BY <1>4, <1>5, <2>2, <2>3, WithinAt
  <2>5. i <= Len(h.full[u])
    <3>1. lastIndex(n) <= Len(h.full[u]) /\ Len(h.full[u]) \in Nat
          BY <2>3 DEF Within
    <3> QED BY <1>2, <1>4, <3>1
  <2>6. \A j \in 1..i : h.full[u][j] = h.full[v][j]
        BY <1>2, <2>5, Matching
  <2>7. q \in 1..i
        BY <2>2
  <2>8. termAt(n, q) = termAt(c, q)
        BY <2>4, <2>6, <2>7
  <2> QED BY <1>3, <1>4, <1>5, <2>1, <2>2, <2>8
<1> QED BY <1>7, <1>8

\* So does an installed snapshot.
LEMMA InstallIncludes ==
    ASSUME NEW h \in Histories, HistoriesAgree(h), NEW u \in Terms, NEW v \in Terms,
           NEW n, SectionOK(n), Within(n, h.full[u]), n.commit \in Nat, n.snap.index <= n.commit,
           NEW m, SectionOK(carried(m)), Within(carried(m), h.full[v]),
           NEW k, SectionOK(k), Installs(n, k, m),
           NEW i \in Nat, i > 0, NEW t, Includes(h, n, i, t),
           i <= Len(h.full[v]), h.full[v][i].term = t
    PROVE  Includes(h, k, i, t)
<1>1. i <= lastIndex(n) /\ h.full[u][i].term = t
      BY IncludesWithin
<1>2. CASE Part(k, n) /\ lastIndex(k) = lastIndex(n)
      BY <1>2, PartIncludes
<1>3. CASE k.log = <<>> /\ termAt(n, m.snapshot.index) # m.snapshot.term
  <2>1. carried(m).snap = k.snap /\ carried(m).log = k.log /\ k.snap = m.snapshot
        BY <1>3 DEF carried, Installs
  <2>2. Within(k, h.full[v])
        BY <2>1, WithinSame
  <2>3. PICK j \in Nat : j = m.snapshot.index
        BY <2>1 DEF SectionOK
  <2>4. lastIndex(k) = j
        BY <1>3, <2>1, <2>3 DEF lastIndex
  <2>5. CASE i <= j
        BY <2>2, <2>4, <2>5, IncludesWithin
  <2>6. CASE j < i
    <3>1. PICK l \in Nat : l = lastIndex(n)
          BY SectionAt
    <3>2. j > 0 /\ n.snap.index <= j /\ j <= l
      <4>1. n.snap.index \in Nat /\ n.commit < j
            BY <2>3, SectionAt DEF Installs
      <4> QED BY <1>1, <2>6, <3>1, <4>1
    <3>3. h.full[u] \in Seq(Entry) /\ h.full[v] \in Seq(Entry)
          BY DEF Histories
    <3>4. termAt(n, j) = h.full[u][j].term
          BY <3>1, <3>2, <3>3, WithinAt
    <3>5. i <= Len(h.full[u])
      <4>1. lastIndex(n) <= Len(h.full[u]) /\ Len(h.full[u]) \in Nat
            BY <3>3 DEF Within
      <4> QED BY <1>1, <3>1, <4>1
    <3>6. \A x \in 1..i : h.full[u][x] = h.full[v][x]
          BY <1>1, <3>5, Matching
    <3>7. j \in 1..i
          BY <2>6, <3>2
    <3>8. h.full[v][j].term = m.snapshot.term
          BY <2>1, <2>2, <2>3, <3>2 DEF Within
    <3> QED BY <1>3, <2>3, <3>4, <3>6, <3>7, <3>8
  <2> QED BY <2>3, <2>5, <2>6
<1> QED BY <1>2, <1>3 DEF Installs

\* The logs the messages of M carry are sections of the histories of their terms.
Arrives(h, M) ==
    \A m \in M : CarriesLog(m) =>
        m.term \in Terms /\ SectionOK(carried(m)) /\ Within(carried(m), h.full[m.term])

\* No transition loses an entry that the history of its new term has too.
LEMMA StepKeeps ==
    ASSUME NEW h \in Histories, HistoriesAgree(h), NEW n, SectionOK(n), FromHistory(h, n),
           n.commit \in Nat, n.snap.index <= n.commit, NEW M, Arrives(h, M),
           NEW r, LogStep(n, M, r), SectionOK(r.node),
           NEW i \in Nat, i > 0, NEW t, Includes(h, n, i, t),
           r.node.term \in Terms /\ h.full[r.node.term] # <<>> =>
                i <= Len(h.full[r.node.term]) /\ h.full[r.node.term][i].term = t
    PROVE  Includes(h, r.node, i, t)
<1>1. PICK k : k = r.node
      OBVIOUS
<1>2. PICK u \in Terms : Within(n, h.full[u])
      BY DEF FromHistory
<1>3. CASE Quiet(n, k) \/ Stands(n, k)
      BY <1>1, <1>3, IncludesSame DEF Quiet, Stands, SameLog
<1>4. CASE Wins(n, k) \/ Proposes(n, k)
  <2>1. PICK e \in Entry : k.log = Append(n.log, e)
        BY <1>4 DEF Wins, Proposes, Appends
  <2>2. k.snap = n.snap
        BY <1>4 DEF Wins, Proposes, Appends
  <2> QED BY <1>1, <2>1, <2>2, AppendIncludes
<1>5. CASE Compacts(n, k)
      BY <1>1, <1>2, <1>5, PartIncludes DEF Compacts
<1>6. ASSUME NEW m \in M, k.term = m.term,
             \/ m.type = "AppendEntries" /\ Splices(n, k, carried(m))
             \/ Installs(n, k, m)
      PROVE  Includes(h, k, i, t)
  <2>1. CarriesLog(m)
        BY <1>6 DEF CarriesLog, Installs
  <2>2. PICK v \in Terms : v = m.term
        BY <2>1 DEF Arrives
  <2>3. SectionOK(carried(m)) /\ Within(carried(m), h.full[v])
        BY <2>1, <2>2 DEF Arrives
  <2>4. h.full[v] # <<>>
    <3>1. lastIndex(carried(m)) > 0
      <4>1. lastIndex(carried(m)) \in Nat
            BY <2>3, SectionAt
      <4>2. CASE Installs(n, k, m)
        <5>1. n.commit < m.snapshot.index /\ lastIndex(carried(m)) = m.snapshot.index + Len(<<>>)
              BY <4>2 DEF Installs, carried, lastIndex
        <5>2. m.snapshot.index \in Nat
              BY <2>3, <4>2 DEF Installs, carried, SectionOK
        <5> QED BY <5>1, <5>2
      <4>3. CASE Splices(n, k, carried(m))
            BY <4>1, <4>3 DEF Splices
      <4> QED BY <1>6, <4>2, <4>3
    <3>2. lastIndex(carried(m)) <= Len(h.full[v])
          BY <2>3 DEF Within
    <3>3. lastIndex(carried(m)) \in Nat /\ Len(<<>>) = 0
          BY <2>3, SectionAt
    <3> QED BY <3>1, <3>2, <3>3
  <2>5. i <= Len(h.full[v]) /\ h.full[v][i].term = t
        BY <1>1, <1>6, <2>2, <2>4
  <2>6. CASE Splices(n, k, carried(m))
        BY <1>1, <1>2, <2>3, <2>5, <2>6, SpliceIncludes
  <2>7. CASE Installs(n, k, m)
        BY <1>1, <1>2, <2>3, <2>5, <2>7, InstallIncludes
  <2> QED BY <1>6, <2>6, <2>7
<1> QED BY <1>1, <1>3, <1>4, <1>5, <1>6 DEF LogStep

\* Every transition leaves a snapshot boundary that is part of a history.
LEMMA StepAnchored ==
    ASSUME NEW h \in Histories, HistoriesAgree(h), NEW n, SectionOK(n), FromHistory(h, n),
           NEW M, Arrives(h, M), NEW r, LogStep(n, M, r), SectionOK(r.node)
    PROVE  Anchored(h, r.node)
<1>1. PICK k : k = r.node
      OBVIOUS
<1>2. PICK u \in Terms : Within(n, h.full[u])
      BY DEF FromHistory
<1>3. CASE k.snap = n.snap
  <2>1. Anchored(h, n)
        BY <1>2, WithinAnchored
  <2> QED BY <1>1, <1>3, <2>1 DEF Anchored
<1>4. CASE Compacts(n, k)
  <2>1. Within(k, h.full[u])
        BY <1>1, <1>2, <1>4, PartIncludes DEF Compacts
  <2> QED BY <1>1, <2>1, WithinAnchored
<1>5. ASSUME NEW m \in M, Installs(n, k, m) PROVE Anchored(h, k)
  <2>1. CarriesLog(m) /\ k.snap = carried(m).snap
        BY <1>5 DEF CarriesLog, Installs, carried
  <2>2. Anchored(h, carried(m))
        BY <2>1, WithinAnchored DEF Arrives
  <2> QED BY <2>1, <2>2 DEF Anchored
<1> QED BY <1>1, <1>3, <1>4, <1>5
        DEF LogStep, Quiet, Stands, SameLog, Wins, Proposes, Appends, Splices
-----------------------------------------------------------------------------
(* Terms along a log, and what is chosen.                                  *)

\* The last term of a section is that of the history at its end.
LEMMA LastTermWithin ==
    ASSUME NEW h \in Histories, NEW d, SectionOK(d), NEW u \in Terms, Within(d, h.full[u])
    PROVE  /\ lastIndex(d) \in Nat /\ Len(h.full[u]) \in Nat /\ lastIndex(d) <= Len(h.full[u])
           /\ lastIndex(d) > 0 => lastTerm(d) = h.full[u][lastIndex(d)].term
<1>1. h.full[u] \in Seq(Entry) /\ Len(h.full[u]) \in Nat
      BY DEF Histories
<1>2. PICK l \in Nat : l = lastIndex(d)
      BY SectionAt
<1>3. l > 0 => termAt(d, l) = h.full[u][l].term
      BY <1>1, <1>2, SectionAt, WithinAt
<1> QED BY <1>1, <1>2, <1>3 DEF lastTerm, Within

\* Terms are ordered along a history.
LEMMA TermsOrdered ==
    ASSUME NEW h \in Histories, HistoriesAgree(h), HistoryTerms(h), NEW u \in Terms,
           NEW i \in Nat, NEW j \in Nat, i > 0, i <= j, j <= Len(h.full[u])
    PROVE  /\ h.full[u][i].term <= h.full[u][j].term
           /\ h.full[u][i].term \in Terms /\ h.full[u][j].term \in Terms
<1>1. PICK l \in Nat : l = Len(h.full[u])
      BY DEF Histories
<1>2. j \in 1..l /\ i \in 1..j /\ i <= l /\ j > 0
      BY <1>1
<1>3. h.full[u][i].term <= h.full[u][j].term
      BY <1>1, <1>2 DEF HistoryTerms
<1> QED BY <1>1, <1>2, <1>3, HistoryTerm

\* The log of a voter is as far as anything it includes.
LEMMA IncludesAsFar ==
    ASSUME NEW h \in Histories, HistoriesAgree(h), HistoryTerms(h), NEW d, SectionOK(d),
           FromHistory(h, d), NEW i \in Nat, i > 0, NEW t \in Terms, Includes(h, d, i, t)
    PROVE  AsFar(d, i, t) /\ lastTerm(d) \in Terms
<1>1. PICK u \in Terms : Within(d, h.full[u])
      BY DEF FromHistory
<1>2. PICK l \in Nat : l = lastIndex(d)
      BY SectionAt
<1>3. i <= l /\ h.full[u][i].term = t
      BY <1>1, <1>2, IncludesWithin
<1>4. l <= Len(h.full[u]) /\ lastTerm(d) = h.full[u][l].term
      BY <1>1, <1>2, <1>3, LastTermWithin
<1>5. t <= lastTerm(d) /\ lastTerm(d) \in Terms
      BY <1>3, <1>4, TermsOrdered
<1>6. t \in Nat /\ lastTerm(d) \in Nat
      BY <1>5 DEF Terms
<1> QED BY <1>2, <1>3, <1>5, <1>6 DEF AsFar

\* Two quorums meet: of a quorum that has left term t, someone acknowledged
\* what may be chosen in t.
LEMMA ChoosableMeets ==
    ASSUME NEW a, NEW d \in [Server -> Nat], NEW t \in Nat, NEW i, Choosable(a, d, t, i),
           NEW E, quorum(InitialMembership, E), \A x \in E \cap Server : d[x] > t
    PROVE  \E x \in E \cap Server : a[t][x] >= i
<1>1. PICK Q \in SUBSET Server :
        quorum(InitialMembership, Q) /\ \A x \in Q : a[t][x] >= i \/ d[x] <= t
      BY DEF Choosable
<1>2. PICK x : x \in E \cap Q
      BY <1>1, QuorumsIntersect, ConstantsType
<1>3. x \in E \cap Server /\ d[x] \in Nat /\ d[x] > t
      BY <1>2
<1>4. a[t][x] >= i
      BY <1>1, <1>2, <1>3
<1> QED BY <1>3, <1>4

\* What is chosen may be.
LEMMA ChosenChoosable ==
    ASSUME NEW a, NEW t, NEW i, Chosen(a, t, i), NEW d
    PROVE  Choosable(a, d, t, i)
BY DEF Chosen, Choosable

-----------------------------------------------------------------------------
(* Steps that do not write: a process s comes to k, and may extend its     *)
(* history from h to g; disks and acknowledgements stay.                   *)

Acks == [Terms -> [Server -> Nat]]

\* The sections of a process.
LEMMA Sections ==
    ASSUME TypeInv, NEW h \in Histories, LogInv(h), NEW s \in Server
    PROVE  /\ SectionOK(node[s]) /\ SectionOK(disk[s]) /\ NodeInv(node[s]) /\ node[s].id = s
           /\ Anchored(h, node[s]) /\ Anchored(h, disk[s]) /\ FromHistory(h, disk[s])
           /\ HistoriesAgree(h)
<1>1. /\ NodeInv(node[s]) /\ SectionOK(node[s]) /\ SectionOK(disk[s]) /\ node[s].id = s
      BY TypeInvAt, SectionTypes
<1>2. /\ HistoriesAgree(h) /\ FromHistory(h, disk[s])
      /\ ~Unborn(h, s) => FromHistory(h, node[s])
      /\ node[s].role = Leader => LeaderLogOK(h, s)
      BY DEF LogInv, LogsFromHistory
<1>3. Anchored(h, disk[s])
      BY <1>1, <1>2, WithinAnchored DEF FromHistory
<1>4. CASE ~Unborn(h, s)
      BY <1>1, <1>2, <1>3, <1>4, WithinAnchored DEF FromHistory
<1>5. CASE Unborn(h, s)
  <2>1. node[s].log # <<>> /\ FromHistory(h, withoutLast(node[s]))
        BY <1>2, <1>5 DEF Unborn, LeaderLogOK
  <2>2. SectionOK(withoutLast(node[s]))
        BY <1>1, <2>1, WithoutLastSection
  <2>3. Anchored(h, withoutLast(node[s]))
        BY <1>2, <2>1, <2>2, WithinAnchored DEF FromHistory
  <2>4. Anchored(h, node[s])
        BY <2>3 DEF Anchored, withoutLast
  <2> QED BY <1>1, <1>2, <1>3, <2>4
<1> QED BY <1>4, <1>5

\* The index and term of what is chosen, in every later history.
LEMMA ChosenInLater ==
    ASSUME NEW h \in Histories, HistoriesAgree(h), NEW a, LaterHolds(h, a),
           NEW T \in Nat, NEW c \in Nat, c > 0, NEW e, ChosenUpTo(h, a, T, c, e),
           NEW u \in Terms, T <= u, h.full[u] # <<>>
    PROVE  c <= Len(h.full[u]) /\ h.full[u][c].term = e
<1>0. PICK t \in Terms : \E i \in 1..Len(h.full[t]) :
        t <= T /\ c <= i /\ Own(h, t, i) /\ Chosen(a, t, i) /\ h.full[t][c].term = e
      BY DEF ChosenUpTo
<1>1. PICK i \in 1..Len(h.full[t]) :
        t <= T /\ c <= i /\ Own(h, t, i) /\ Chosen(a, t, i) /\ h.full[t][c].term = e
      BY <1>0
<1>2. i \in Nat /\ i > 0 /\ i <= Len(h.full[t]) /\ Len(h.full[t]) \in Nat /\ t \in Nat /\ u \in Nat
      BY <1>1 DEF Histories, Terms
<1>3. CASE t = u
      BY <1>1, <1>2, <1>3
<1>4. CASE t # u
  <2>1. t < u /\ Choosable(a, durableTerms, t, i)
        BY <1>1, <1>2, <1>4, ChosenChoosable
  <2>2. i <= Len(h.full[u]) /\ h.full[u][i].term = t
        BY <1>1, <2>1 DEF LaterHolds
  <2>3. h.full[t][i].term = t
        BY <1>1 DEF Own
  <2>4. PICK k \in Nat : k = i /\ k > 0 /\ k <= Len(h.full[t]) /\ k <= Len(h.full[u])
                          /\ h.full[t][k].term = h.full[u][k].term
        BY <1>2, <2>2, <2>3
  <2>5. \A j \in 1..k : h.full[t][j] = h.full[u][j]
        BY <2>4, Matching
  <2>6. c \in 1..k /\ Len(h.full[u]) \in Nat
        BY <1>1, <2>4 DEF Histories
  <2>7. h.full[u][c] = h.full[t][c]
        BY <2>5, <2>6
  <2>8. c <= Len(h.full[u])
        BY <2>4, <2>6
  <2> QED BY <1>1, <2>7, <2>8
<1> QED BY <1>3, <1>4

\* An entry a process acknowledged is in the history.
LEMMA AckedInHistory ==
    ASSUME NEW h \in Histories, NEW a \in Acks, AcksOK(h, a), NEW t \in Terms, NEW x \in Server
    PROVE  a[t][x] \in Nat /\ a[t][x] <= Len(h.full[t]) /\ Len(h.full[t]) \in Nat
<1>1. a[t][x] \in Nat /\ Len(h.full[t]) \in Nat
      BY DEF Acks, Histories
<1>2. a[t][x] > 0 => a[t][x] \in 1..Len(h.full[t])
      BY DEF AcksOK, Own
<1> QED BY <1>1, <1>2

\* The terms on disk are naturals.
LEMMA DurableType ==
    ASSUME TypeInv
    PROVE  /\ durableTerms \in [Server -> Nat]
           /\ \A s \in Server : [durableTerms EXCEPT ![s] = node[s].term] \in [Server -> Nat]
BY VoteTypes DEF durableTerms

\* New entries are of the last term.
LEMMA HistoryTermsStep ==
    ASSUME NEW h \in Histories, NEW g \in Histories, NEW s, HistoryStep(h, g, s),
           HistoriesAgree(h), HistoryTerms(h)
    PROVE  HistoryTerms(g)
<1> SUFFICES ASSUME NEW t \in Terms
             PROVE  /\ \A i \in 1..Len(g.full[t]) : \A j \in 1..i :
                            g.full[t][j].term <= g.full[t][i].term
                    /\ g.full[t] # <<>> => g.full[t][Len(g.full[t])].term = t
    BY DEF HistoryTerms
<1>1. PICK l \in Nat : l = Len(h.full[t])
      BY DEF Histories
<1>2. PICK k \in Nat : k = Len(g.full[t])
      BY DEF Histories
<1>3. CASE g.full[t] = h.full[t]
      BY <1>3 DEF HistoryTerms
<1>4. CASE h.full[t] # <<>>
  <2>1. l > 0
    <3>1. h.full[t] \in Seq(Entry)
          BY DEF Histories
    <3> QED BY <1>1, <1>4, <3>1
  <2>2. /\ l <= k /\ \A i \in 1..l : g.full[t][i] = h.full[t][i]
        /\ \A i \in (l + 1)..k : g.full[t][i].term = t
        BY <1>1, <1>2 DEF HistoryStep, Continues
  <2>3. h.full[t][l].term = t
        BY <1>1, <1>4 DEF HistoryTerms
  <2>4. \A i \in 1..l : h.full[t][i].term <= t /\ h.full[t][i].term \in Nat /\ t \in Nat
        BY <1>1, <2>1, <2>3, TermsOrdered DEF Terms
  <2>5. ASSUME NEW i \in 1..k, NEW j \in 1..i PROVE g.full[t][j].term <= g.full[t][i].term
    <3>1. CASE i <= l
      <4>1. i \in 1..l /\ j \in 1..l
            BY <2>5, <3>1
      <4>2. h.full[t][j].term <= h.full[t][i].term
            BY <1>1, <2>5, <4>1 DEF HistoryTerms
      <4> QED BY <2>2, <4>1, <4>2
    <3>2. CASE l < i
      <4>1. g.full[t][i].term = t
            BY <2>2, <2>5, <3>2
      <4>2. CASE j <= l
        <5>1. j \in 1..l
              BY <2>5, <4>2
        <5> QED BY <2>2, <2>4, <4>1, <5>1
      <4>3. CASE l < j
        <5>1. j \in (l + 1)..k
              BY <2>5, <4>3
        <5>2. t <= t
              BY DEF Terms
        <5> QED BY <2>2, <4>1, <5>1, <5>2
      <4> QED BY <2>5, <4>2, <4>3
    <3> QED BY <2>5, <3>1, <3>2
  <2>6. g.full[t][k].term = t
    <3>1. CASE k = l
      <4>1. l \in 1..l
            BY <2>1
      <4> QED BY <2>2, <2>3, <3>1, <4>1
    <3>2. CASE k # l
      <4>1. k \in (l + 1)..k
            BY <2>2, <3>2
      <4> QED BY <2>2, <4>1
    <3> QED BY <3>1, <3>2
  <2> QED BY <1>2, <2>5, <2>6
<1> QED BY <1>3, <1>4 DEF HistoryStep

Moves(s, k) ==
    /\ disk' = disk
    /\ \A u \in Server : node'[u] = IF u = s THEN k ELSE node[u]
    /\ \A u \in Server \ {s} : pending'[u] = pending[u]

\* Acknowledgements stay, and are kept as long as s keeps its own.
LEMMA AcksStep ==
    ASSUME TypeInv, NEW h \in Histories, LogInv(h), NEW g \in Histories, NEW s \in Server,
           HistoryStep(h, g, s), NEW a \in Acks, AcksOK(h, a),
           \A x \in Server : AcksHeld(h, a, x, disk[x]) /\ AcksHeld(h, a, x, node[x]),
           NEW k, SectionOK(k), Anchored(h, k), AcksHeld(h, a, s, k), Moves(s, k)
    PROVE  /\ AcksOK(g, a)'
           /\ \A x \in Server : AcksHeld(g, a, x, disk[x])' /\ AcksHeld(g, a, x, node[x])'
<1>1. Continues(h, g) /\ disk' = disk /\ durableTerms' = durableTerms
      BY DEF HistoryStep, Moves, durableTerms
<1>2. \A t \in Terms, x \in Server : a[t][x] \in Nat /\ (a[t][x] > 0 => Own(h, t, a[t][x]))
      BY DEF Acks, AcksOK
<1>3. \A t \in Terms, x \in Server : a[t][x] > 0 => Own(g, t, a[t][x])
      BY <1>1, <1>2, OwnContinues
<1>4. AcksOK(g, a)'
      BY <1>1, <1>3 DEF AcksOK
<1>5. ASSUME NEW x \in Server, NEW d, SectionOK(d), Anchored(h, d), AcksHeld(h, a, x, d)
      PROVE  /\ \A t \in Terms : \A i \in 1..a[t][x] :
                    Own(g, t, i) /\ (d.term = t \/ Choosable(a, durableTerms, t, i)) =>
                    Includes(g, d, i, t)
  <2> SUFFICES ASSUME NEW t \in Terms, NEW i \in 1..a[t][x], Own(g, t, i),
                      d.term = t \/ Choosable(a, durableTerms, t, i)
               PROVE  Includes(g, d, i, t)
      OBVIOUS
  <2>1. i \in Nat /\ i > 0 /\ i <= a[t][x]
        BY <1>2
  <2>2. i <= Len(h.full[t])
        BY <2>1, AckedInHistory
  <2>3. Own(h, t, i)
        BY <1>1, <2>1, <2>2, OwnContinues
  <2>4. Includes(h, d, i, t)
        BY <1>5, <2>3 DEF AcksHeld
  <2> QED BY <1>1, <1>5, <2>1, <2>4, IncludesContinues
<1>6. ASSUME NEW x \in Server PROVE AcksHeld(g, a, x, disk[x])' /\ AcksHeld(g, a, x, node[x])'
  <2>1. PICK d : d = disk[x]
        OBVIOUS
  <2>2. disk'[x] = d /\ SectionOK(d) /\ Anchored(h, d) /\ AcksHeld(h, a, x, d)
        BY <1>1, <2>1, Sections
  <2>3. PICK n : n = node'[x]
        OBVIOUS
  <2>4. SectionOK(n) /\ Anchored(h, n) /\ AcksHeld(h, a, x, n)
    <3>1. CASE x = s
          BY <2>3, <3>1 DEF Moves
    <3>2. CASE x # s
      <4>1. n = node[x]
            BY <2>3, <3>2 DEF Moves
      <4> QED BY <4>1, Sections
    <3> QED BY <3>1, <3>2
  <2>5. /\ \A t \in Terms : \A i \in 1..a[t][x] :
                    Own(g, t, i) /\ (d.term = t \/ Choosable(a, durableTerms, t, i)) =>
                    Includes(g, d, i, t)
        BY <1>5, <2>2
  <2>6. /\ \A t \in Terms : \A i \in 1..a[t][x] :
                    Own(g, t, i) /\ (n.term = t \/ Choosable(a, durableTerms, t, i)) =>
                    Includes(g, n, i, t)
        BY <1>5, <2>4
  <2>7. AcksHeld(g, a, x, disk[x])'
        BY <1>1, <2>2, <2>5 DEF AcksHeld
  <2>8. AcksHeld(g, a, x, node[x])'
        BY <1>1, <2>3, <2>6 DEF AcksHeld
  <2> QED BY <2>7, <2>8
<1> QED BY <1>4, <1>6

\* Nothing above a history can be chosen once a quorum has left its term.
LEMMA NotAbove ==
    ASSUME NEW h \in Histories, NEW a \in Acks, AcksOK(h, a), NEW d \in [Server -> Nat],
           NEW t \in Terms, NEW i \in Nat, i > Len(h.full[t]), Choosable(a, d, t, i),
           NEW E, quorum(InitialMembership, E), \A x \in E \cap Server : d[x] > t
    PROVE  FALSE
<1>1. t \in Nat
      BY DEF Terms
<1>2. PICK x \in E \cap Server : a[t][x] >= i
      BY <1>1, ChoosableMeets
<1>3. a[t][x] \in Nat /\ a[t][x] <= Len(h.full[t]) /\ Len(h.full[t]) \in Nat
      BY <1>2, AckedInHistory
<1> QED BY <1>2, <1>3

\* The histories that began hold what may be chosen before, also what is added.
LEMMA LaterStep ==
    ASSUME TypeInv, TypeInv', VoteInv', NEW h \in Histories, LogInv(h),
           NEW g \in Histories, LogInv(g)', NEW s \in Server, HistoryStep(h, g, s),
           NEW a \in Acks, AcksOK(h, a), LaterHolds(h, a),
           NEW k, SectionOK(k), Anchored(h, k), Moves(s, k),
           Unborn(g, s)' =>
                \A t \in Terms : \A i \in 1..Len(h.full[t]) :
                    /\ t < k.term /\ Own(h, t, i)
                    /\ Choosable(a, [durableTerms EXCEPT ![s] = k.term], t, i)
                    => Includes(h, k, i, t)
    PROVE  LaterHolds(g, a)'
<1>1. Continues(h, g) /\ disk' = disk /\ durableTerms' = durableTerms
      BY DEF HistoryStep, Moves, durableTerms
<1>2. \A t \in Terms : Len(h.full[t]) \in Nat /\ Len(g.full[t]) \in Nat
      BY DEF Histories
<1>3. ASSUME NEW t \in Terms, NEW u \in Terms, NEW i \in 1..Len(g.full[t]),
             t < u, g.full[u] # <<>>, Own(g, t, i), Choosable(a, durableTerms, t, i)
      PROVE  i <= Len(g.full[u]) /\ g.full[u][i].term = t
  <2>1. h.full[u] # <<>>
        BY <1>3, HistoryStepBorn
  <2>2. i \in Nat /\ i > 0
        BY <1>2
  <2>3. i <= Len(h.full[t])
    <3> SUFFICES ASSUME i > Len(h.full[t]) PROVE FALSE
        BY <1>2, <2>2
    <3>1. /\ quorum(InitialMembership, h.quorum[u])
          /\ \A x \in h.quorum[u] \cap Server : Recorded(x, h.lead[u], u)
          BY <2>1 DEF LogInv, HistoryElected
    <3>2. ASSUME NEW x \in h.quorum[u] \cap Server PROVE durableTerms[x] > t
      <4>1. disk[x].term \in Nat /\ t \in Nat /\ u \in Nat /\ durableTerms[x] = disk[x].term
            BY VoteTypes DEF Terms, durableTerms
      <4>2. disk[x].term > u \/ disk[x].term = u
            BY <3>1 DEF Recorded
      <4> QED BY <1>3, <4>1, <4>2
    <3>3. durableTerms \in [Server -> Nat]
          BY DurableType
    <3> QED BY <1>3, <2>2, <3>1, <3>2, <3>3, NotAbove
  <2>4. Own(h, t, i)
        BY <1>1, <1>3, <2>2, <2>3, OwnContinues
  <2>5. i \in 1..Len(h.full[t])
        BY <1>2, <2>2, <2>3
  <2>6. i <= Len(h.full[u]) /\ h.full[u][i].term = t
        BY <1>3, <2>1, <2>4, <2>5 DEF LaterHolds
  <2> QED BY <1>1, <2>2, <2>6, OwnContinues
<1>4. ASSUME NEW u \in Server, NEW t \in Terms, NEW i \in 1..Len(g.full[t]), Unborn(g, u)',
             t < node'[u].term, Own(g, t, i),
             Choosable(a, [durableTerms EXCEPT ![u] = node'[u].term], t, i)
      PROVE  Includes(g, node'[u], i, t)
  <2>1. PICK n : n = node'[u]
        OBVIOUS
  <2>2. PICK d : d = [durableTerms EXCEPT ![u] = n.term]
        OBVIOUS
  <2>3. i \in Nat /\ i > 0
        BY <1>2
  <2>4. /\ NodeInv(n) /\ n.id = u /\ n.term \in Terms /\ n.role = Leader
    <3>1. NodeInv(n) /\ n.id = u
          BY <2>1 DEF TypeInv, TypeOK, LogsAreBounded, NodeInv
    <3>2. n.role = Leader
          BY <1>4, <2>1 DEF Unborn
    <3> QED BY <3>1, <3>2, LeaderTerm DEF Leader, Follower
  <2>5. d \in [Server -> Nat]
        BY <2>2, <2>4, DurableType DEF Terms
  <2>6. /\ quorum(InitialMembership, n.electionVotes)
        /\ \A x \in n.electionVotes \cap Server : d[x] > t
    <3>1. /\ quorum(n.electionMembership, n.electionVotes) /\ n.electionVotes \subseteq n.votes
          BY <2>1, <2>4 DEF VoteInv, VoteOK
    <3>2. n.electionMembership = InitialMembership
          BY <2>1, <2>4 DEF LogInv, ConfigurationIsFixed
    <3>3. ASSUME NEW x \in n.electionVotes \cap Server PROVE d[x] > t
      <4>1. CASE x = u
            BY <1>4, <2>1, <2>2, <2>5, <4>1 DEF durableTerms
      <4>2. CASE x # u
        <5>1. Voted(x, u, n.term)'
              BY <2>1, <2>4, <3>1, <4>2 DEF Voted, Leader, Follower
        <5>2. n.term \in 0..MaxTerm
              BY <2>4, ConstantsType DEF Terms
        <5>3. Recorded(x, u, n.term)'
              BY <5>1, <5>2 DEF VoteInv, VotesAreFinal
        <5>4. disk[x].term > n.term \/ disk[x].term = n.term
              BY <1>1, <5>3 DEF Recorded
        <5>5. disk[x].term \in Nat /\ n.term \in Nat /\ t \in Nat /\ d[x] = disk[x].term
              BY <2>2, <2>4, <4>2, VoteTypes DEF Terms, durableTerms
        <5> QED BY <1>4, <2>1, <5>4, <5>5
      <4> QED BY <4>1, <4>2
    <3> QED BY <3>1, <3>2, <3>3
  <2>7. i <= Len(h.full[t])
    <3> SUFFICES ASSUME i > Len(h.full[t]) PROVE FALSE
        BY <1>2, <2>3
    <3> QED BY <1>4, <2>1, <2>2, <2>3, <2>5, <2>6, NotAbove
  <2>8. Own(h, t, i) /\ i \in 1..Len(h.full[t])
        BY <1>1, <1>2, <1>4, <2>3, <2>7, OwnContinues
  <2>9. SectionOK(n) /\ Anchored(h, n) /\ Includes(h, n, i, t)
    <3>1. CASE u = s
      <4>1. n = k
            BY <2>1, <3>1 DEF Moves
      <4> QED BY <1>4, <2>1, <2>8, <3>1, <4>1
    <3>2. CASE u # s
      <4>1. n = node[u]
            BY <2>1, <3>2 DEF Moves
      <4>2. Unborn(h, u)
        <5>1. g.full[n.term] = <<>>
              BY <1>4, <2>1 DEF Unborn
        <5> QED BY <2>4, <4>1, <5>1, HistoryStepBorn DEF Unborn
      <4>3. Includes(h, node[u], i, t)
            BY <1>4, <2>1, <2>8, <4>1, <4>2 DEF LaterHolds
      <4> QED BY <4>1, <4>3, Sections
    <3> QED BY <3>1, <3>2
  <2>10. Includes(g, n, i, t)
        BY <1>1, <2>3, <2>9, IncludesContinues
  <2> QED BY <2>1, <2>10
<1> QED BY <1>1, <1>3, <1>4 DEF LaterHolds

\* k stands as n did.
SameStand(n, k) ==
    /\ n.role = Candidate /\ n.term = k.term
    /\ lastIndex(n) = lastIndex(k) /\ lastTerm(n) = lastTerm(k)

\* A vote that s sends covers what s acknowledged, if it is still asked for.
GrantOK(h, a, s, m) ==
    /\ m.term <= disk[m.to].term
    /\ Candidacy(m.to, m.term) => VoterCovered(h, a, s, m.to)

\* Candidates stay covered by their voters; N are the messages that s sends
\* and P those that wait for its write.
LEMMA VotesStep ==
    ASSUME TypeInv, NEW h \in Histories, LogInv(h), NEW g \in Histories, NEW s \in Server,
           HistoryStep(h, g, s), NEW a \in Acks, AcksOK(h, a), VotesCovered(h, a),
           NEW k, k.term \in Nat, disk[s].term <= k.term, Moves(s, k),
           NEW N, NEW P, net' \subseteq net \cup N, pending'[s].effects.send \subseteq P,
           k.role = Candidate /\ k.term <= disk[s].term => SameStand(node[s], k),
           k.role = Candidate => \A x \in k.votes \ {s} :
                k.term <= disk[s].term /\ Voted(x, s, k.term),
           \A m \in N \cup P : Grant(m) \/ Asks(m) => m.from = s /\ m.to \in Server \ {s},
           \A m \in N \cup P : Grant(m) => GrantOK(h, a, s, m),
           \A m \in N \cup P : Asks(m) =>
                /\ m.term <= k.term
                /\ k.role = Candidate /\ k.term = m.term =>
                        m.lastLogIndex = lastIndex(k) /\ m.lastLogTerm = lastTerm(k),
           \A m \in N : Asks(m) => m.term <= disk[s].term
    PROVE  VotesCovered(g, a)'
<1>1. Continues(h, g) /\ disk' = disk /\ durableTerms' = durableTerms
      BY DEF HistoryStep, Moves, durableTerms
<1>2. /\ node'[s] = k /\ \A u \in Server : u # s => node'[u] = node[u]
      /\ \A u \in Server : u # s => pending'[u] = pending[u]
      BY DEF Moves
<1>3. ASSUME NEW x \in Server, NEW c \in Server, VoterCovered(h, a, x, c),
             c # s \/ SameStand(node[s], k)
      PROVE  VoterCovered(g, a, x, c)'
  <2>1. /\ node'[c].term = node[c].term /\ lastIndex(node'[c]) = lastIndex(node[c])
        /\ lastTerm(node'[c]) = lastTerm(node[c])
        BY <1>2, <1>3 DEF SameStand
  <2>2. ASSUME NEW t \in Terms, NEW i \in 1..a[t][x], t < node'[c].term, Own(g, t, i),
               Choosable(a, durableTerms, t, i)
        PROVE  AsFar(node'[c], i, t)
    <3>1. i \in Nat /\ i > 0 /\ i <= Len(h.full[t])
      <4>1. a[t][x] \in Nat /\ a[t][x] <= Len(h.full[t]) /\ Len(h.full[t]) \in Nat
            BY AckedInHistory
      <4> QED BY <4>1
    <3>2. Own(h, t, i)
          BY <1>1, <2>2, <3>1, OwnContinues
    <3>3. AsFar(node[c], i, t)
          BY <1>3, <2>1, <2>2, <3>2 DEF VoterCovered
    <3> QED BY <2>1, <3>3 DEF AsFar
  <2> QED BY <1>1, <2>2 DEF VoterCovered
<1>4. \A c \in Server : disk[c].term \in Nat /\ node[c].term \in Nat
      BY VoteTypes
<1>5. ASSUME NEW x \in Server, NEW c \in Server, node'[c].role = Candidate,
             Voted(x, c, node[c].term)'
      PROVE  VoterCovered(g, a, x, c)'
  <2>1. CASE c # s
    <3>1. node'[c] = node[c]
          BY <1>2, <2>1
    <3>2. CASE \E m \in net' : Grant(m) /\ m.from = x /\ m.to = c /\ m.term = node[c].term
      <4>1. PICK m \in net' : Grant(m) /\ m.from = x /\ m.to = c /\ m.term = node[c].term
            BY <3>2
      <4>2. CASE m \in net
        <5>1. Voted(x, c, node[c].term)
              BY <4>1, <4>2 DEF Voted
        <5>2. VoterCovered(h, a, x, c)
              BY <1>5, <3>1, <5>1 DEF VotesCovered
        <5> QED BY <1>3, <2>1, <5>2
      <4>3. CASE m \in N
        <5>1. x = s /\ GrantOK(h, a, s, m)
              BY <4>1, <4>3
        <5>2. Candidacy(c, m.term)
              BY <1>5, <3>1, <4>1 DEF Candidacy
        <5>3. VoterCovered(h, a, x, c)
              BY <4>1, <5>1, <5>2 DEF GrantOK
        <5> QED BY <1>3, <2>1, <5>3
      <4> QED BY <4>2, <4>3
    <3>3. CASE node[c].role # Follower /\ x \in node[c].votes \ {c}
      <4>1. Voted(x, c, node[c].term)
            BY <3>3 DEF Voted
      <4>2. VoterCovered(h, a, x, c)
            BY <1>5, <3>1, <4>1 DEF VotesCovered
      <4> QED BY <1>3, <2>1, <4>2
    <3> QED BY <1>5, <3>1, <3>2, <3>3 DEF Voted
  <2>2. CASE c = s
    <3>1. node'[c] = k /\ k.role = Candidate
          BY <1>2, <1>5, <2>2
    <3>2. k.term <= disk[s].term /\ Voted(x, s, k.term)
      <4>1. CASE \E m \in net' : Grant(m) /\ m.from = x /\ m.to = s /\ m.term = k.term
        <5>1. PICK m \in net' : Grant(m) /\ m.from = x /\ m.to = s /\ m.term = k.term
              BY <4>1
        <5>2. m \in net
              BY <5>1
        <5> QED BY <5>1, <5>2 DEF VotesCovered, Voted
      <4>2. CASE x \in k.votes \ {s}
            BY <3>1, <4>2
      <4> QED BY <1>5, <2>2, <3>1, <4>1, <4>2 DEF Voted
    <3>3. SameStand(node[s], k)
          BY <3>1, <3>2
    <3>4. VoterCovered(h, a, x, s)
          BY <3>2, <3>3 DEF VotesCovered, SameStand
    <3> QED BY <1>3, <2>2, <3>3, <3>4
  <2> QED BY <2>1, <2>2
<1>6. ASSUME NEW c \in Server, NEW term, term <= disk[c].term, Candidacy(c, term)'
      PROVE  Candidacy(c, term) /\ (c # s \/ SameStand(node[s], k))
  <2>1. CASE c # s
        BY <1>2, <1>6, <2>1 DEF Candidacy
  <2>2. CASE c = s
    <3>1. k.role = Candidate /\ k.term = term
          BY <1>2, <1>6, <2>2 DEF Candidacy
    <3>2. SameStand(node[s], k)
          BY <1>6, <2>2, <3>1
    <3> QED BY <2>2, <3>1, <3>2 DEF SameStand, Candidacy
  <2> QED BY <2>1, <2>2
<1>7. ASSUME NEW x \in Server, NEW c \in Server, NEW m \in pending'[x].effects.send,
             Grant(m), m.to = c
      PROVE  m.term <= disk[c].term /\ (Candidacy(c, m.term)' => VoterCovered(g, a, x, c)')
  <2>1. m.term <= disk[c].term /\ (Candidacy(c, m.term) => VoterCovered(h, a, x, c))
    <3>1. CASE x = s
      <4>1. GrantOK(h, a, s, m)
            BY <1>7, <3>1
      <4> QED BY <1>7, <3>1, <4>1 DEF GrantOK
    <3>2. CASE x # s
          BY <1>2, <1>7, <3>2 DEF VotesCovered
    <3> QED BY <3>1, <3>2
  <2> QED BY <1>3, <1>6, <2>1
<1>8. ASSUME NEW m, m.from \in Server, m.term \in Nat, m.term <= disk[m.from].term, RequestOK(m)
      PROVE  RequestOK(m)'
  <2>1. CASE m.from # s
        BY <1>2, <1>8, <2>1 DEF RequestOK, Candidacy
  <2>2. CASE m.from = s
    <3>1. m.term <= k.term
      <4>1. disk[s].term \in Nat /\ k.term \in Nat
            BY <1>4
      <4> QED BY <1>8, <2>2, <4>1
    <3>2. ASSUME Candidacy(s, m.term)'
          PROVE  m.lastLogIndex = lastIndex(k) /\ m.lastLogTerm = lastTerm(k)
          BY <1>6, <1>8, <2>2, <3>2 DEF RequestOK, SameStand
    <3> QED BY <1>2, <2>2, <3>1, <3>2 DEF RequestOK
  <2> QED BY <2>1, <2>2
<1>9. ASSUME NEW m \in N \cup P, Asks(m) PROVE m.from = s /\ RequestOK(m)'
      BY <1>2, <1>9 DEF RequestOK, Candidacy
<1>10. ASSUME NEW x \in Server, NEW m \in pending'[x].effects.send, Asks(m)
       PROVE  m.from = x /\ RequestOK(m)'
  <2>1. CASE x = s
        BY <1>9, <1>10, <2>1
  <2>2. CASE x # s
    <3>1. m \in pending[x].effects.send /\ m.from = x /\ RequestOK(m)
          BY <1>2, <1>10, <2>2 DEF VotesCovered
    <3> QED BY <1>2, <2>2, <3>1 DEF RequestOK, Candidacy
  <2> QED BY <2>1, <2>2
<1>11. ASSUME NEW m \in net'
       PROVE  /\ Asks(m) => m.term <= disk[m.from].term /\ RequestOK(m)'
              /\ Grant(m) => m.term <= disk[m.to].term
  <2>1. CASE m \in net
    <3>1. m.from \in Server /\ m.term \in Nat
          BY <2>1, ConstantsType DEF TypeInv, TypeOK, MessageOK
    <3> QED BY <1>8, <2>1, <3>1 DEF VotesCovered
  <2>2. CASE m \in N
    <3>1. Asks(m) => m.term <= disk[m.from].term /\ RequestOK(m)'
          BY <1>9, <2>2
    <3>2. Grant(m) => m.term <= disk[m.to].term
          BY <2>2 DEF GrantOK
    <3> QED BY <3>1, <3>2
  <2> QED BY <2>1, <2>2
<1> QED BY <1>1, <1>5, <1>7, <1>10, <1>11 DEF VotesCovered

\* The fields of a confirmation.
LEMMA ConfirmsType ==
    ASSUME NEW m, MessageOK(m), Confirms(m)
    PROVE  m.term \in Terms /\ m.from \in Server /\ m.matchIndex \in Nat
<1>1. MaxIndex \in Nat /\ MaxTerm \in Nat
      BY ConstantsType
<1>2. m.matchIndex \in 0..MaxIndex
      BY DEF MessageOK, Confirms
<1> QED BY <1>1, <1>2 DEF MessageOK, Terms

\* What a leader believes of others stays acknowledged.
LEMMA MatchesStep ==
    ASSUME TypeInv, NEW h \in Histories, LogInv(h), NEW g \in Histories, NEW s \in Server,
           HistoryStep(h, g, s), NEW a \in Acks, MatchesAcked(h, a),
           NEW k, SectionOK(k), Anchored(h, k), Moves(s, k),
           NEW N, NEW P, net' \subseteq net \cup N, pending'[s].effects.send \subseteq P,
           \A T \in Terms : \A j \in Nat : j > 0 /\ MatchOK(h, a, T, s, j) /\ k.term = T =>
                Includes(h, k, j, h.full[T][j].term),
           k.role = Leader => /\ k.term \in Terms
                              /\ \A f \in Server \ {s} :
                                    /\ k.matchIndex[f] \in Nat
                                    /\ MatchOK(h, a, k.term, f, k.matchIndex[f]),
           \A m \in N \cup P : MessageOK(m),
           \A m \in N : Confirms(m) => MatchOK(h, a, m.term, m.from, m.matchIndex),
           \A m \in P : Confirms(m) =>
                /\ m.from = s /\ m.term = k.term /\ m.matchIndex <= Len(h.full[m.term])
                /\ m.matchIndex > 0 =>
                        Includes(h, k, m.matchIndex, h.full[m.term][m.matchIndex].term)
    PROVE  MatchesAcked(g, a)'
<1>1. Continues(h, g) /\ disk' = disk
      BY DEF HistoryStep, Moves
<1>2. /\ node'[s] = k /\ \A u \in Server : u # s => node'[u] = node[u]
      /\ \A u \in Server : u # s => pending'[u] = pending[u]
      BY DEF Moves
<1>3. ASSUME NEW T \in Terms, NEW f \in Server, NEW j \in Nat, MatchOK(h, a, T, f, j)
      PROVE  MatchOK(g, a, T, f, j)'
  <2>1. j <= Len(h.full[T]) /\ Len(h.full[T]) \in Nat
        BY <1>3 DEF MatchOK, Histories
  <2>2. CASE j = 0
    <3>1. Len(g.full[T]) \in Nat
          BY DEF Histories
    <3> QED BY <2>2, <3>1 DEF MatchOK
  <2>3. CASE j > 0
    <3>1. g.full[T][j] = h.full[T][j] /\ j <= Len(g.full[T])
          BY <1>1, <2>1, <2>3, OwnContinues
    <3>2. PICK e : e = h.full[T][j].term
          OBVIOUS
    <3>3. /\ disk[f].term >= T
          /\ \A i \in 1..j : Own(h, T, i) => a[T][f] >= i
          /\ disk[f].term = T => Includes(h, disk[f], j, e)
          /\ node[f].term = T => Includes(h, node[f], j, e)
          BY <1>3, <2>3, <3>2 DEF MatchOK
    <3>4. \A i \in 1..j : Own(g, T, i) => Own(h, T, i)
      <4>1. \A i \in 1..j : i \in Nat /\ i > 0 /\ i <= Len(h.full[T])
            BY <2>1
      <4> QED BY <1>1, <4>1, OwnContinues
    <3>5. disk[f].term = T => Includes(g, disk[f], j, e)
      <4>1. SectionOK(disk[f]) /\ Anchored(h, disk[f])
            BY Sections
      <4> QED BY <1>1, <2>3, <3>3, <4>1, IncludesContinues
    <3>6. node'[f].term = T => Includes(g, node'[f], j, e)
      <4>1. CASE f = s
        <5>1. k.term = T => Includes(h, k, j, e)
              BY <1>3, <2>3, <3>2, <4>1
        <5> QED BY <1>1, <1>2, <2>3, <4>1, <5>1, IncludesContinues
      <4>2. CASE f # s
        <5>1. SectionOK(node[f]) /\ Anchored(h, node[f]) /\ node'[f] = node[f]
              BY <1>2, <4>2, Sections
        <5> QED BY <1>1, <2>3, <3>3, <5>1, IncludesContinues
      <4> QED BY <4>1, <4>2
    <3> QED BY <1>1, <3>1, <3>2, <3>3, <3>4, <3>5, <3>6 DEF MatchOK
  <2> QED BY <2>2, <2>3
<1>4. ASSUME NEW u \in Server, NEW f \in Server, node'[u].role = Leader, f # u
      PROVE  MatchOK(g, a, node[u].term, f, node[u].matchIndex[f])'
  <2>1. PICK T : T = node'[u].term
        OBVIOUS
  <2>2. PICK j : j = node'[u].matchIndex[f]
        OBVIOUS
  <2>3. T \in Terms /\ j \in Nat /\ MatchOK(h, a, T, f, j)
    <3>1. CASE u = s
          BY <1>2, <1>4, <2>1, <2>2, <3>1
    <3>2. CASE u # s
      <4>1. node'[u] = node[u] /\ NodeInv(node[u])
            BY <1>2, <3>2, TypeInvAt
      <4>2. T \in Terms
            BY <1>4, <2>1, <4>1, LeaderTerm DEF Leader, Follower
      <4>3. j \in 0..MaxIndex /\ MaxIndex \in Nat
            BY <2>2, <4>1, ConstantsType DEF NodeInv, NodeOK
      <4> QED BY <1>4, <2>1, <2>2, <4>1, <4>2, <4>3 DEF MatchesAcked
    <3> QED BY <3>1, <3>2
  <2>4. MatchOK(g, a, T, f, j)'
        BY <1>3, <2>3
  <2> QED BY <2>1, <2>2, <2>4 DEF MatchOK
<1>5. ASSUME NEW m \in net', Confirms(m) PROVE MatchOK(g, a, m.term, m.from, m.matchIndex)'
  <2>1. MessageOK(m) /\ MatchOK(h, a, m.term, m.from, m.matchIndex)
    <3>1. CASE m \in net
          BY <1>5, <3>1 DEF TypeInv, TypeOK, MatchesAcked
    <3>2. CASE m \in N
          BY <1>5, <3>2
    <3> QED BY <3>1, <3>2
  <2> QED BY <1>3, <1>5, <2>1, ConfirmsType
<1>6. ASSUME NEW u \in Server, NEW m \in pending'[u].effects.send, Confirms(m)
      PROVE  /\ m.from = u /\ m.term = node'[u].term /\ m.matchIndex <= Len(g.full[m.term])
             /\ m.matchIndex > 0 =>
                    Includes(g, node'[u], m.matchIndex, g.full[m.term][m.matchIndex].term)
  <2>1. PICK n : n = node'[u]
        OBVIOUS
  <2>2. /\ MessageOK(m) /\ m.from = u /\ m.term = n.term /\ m.matchIndex <= Len(h.full[m.term])
        /\ m.matchIndex > 0 =>
                Includes(h, n, m.matchIndex, h.full[m.term][m.matchIndex].term)
        /\ SectionOK(n) /\ Anchored(h, n)
    <3>1. CASE u = s
          BY <1>2, <1>6, <2>1, <3>1
    <3>2. CASE u # s
      <4>1. n = node[u] /\ m \in pending[u].effects.send
            BY <1>2, <1>6, <2>1, <3>2
      <4> QED BY <1>6, <4>1, Sections DEF TypeInv, TypeOK, MatchesAcked
    <3> QED BY <3>1, <3>2
  <2>3. PICK T \in Terms : T = m.term
        BY <1>6, <2>2, ConfirmsType
  <2>4. PICK j \in Nat : j = m.matchIndex
        BY <1>6, <2>2, ConfirmsType
  <2>5. j > 0 => g.full[T][j] = h.full[T][j]
        BY <1>1, <2>2, <2>3, <2>4, OwnContinues
  <2>6. j <= Len(g.full[T])
    <3>1. Len(h.full[T]) <= Len(g.full[T]) /\ Len(h.full[T]) \in Nat /\ Len(g.full[T]) \in Nat
          BY <1>1 DEF Continues, Histories
    <3> QED BY <2>2, <2>3, <2>4, <3>1
  <2>7. j > 0 => Includes(g, n, j, g.full[T][j].term)
        BY <1>1, <2>2, <2>3, <2>4, <2>5, IncludesContinues
  <2> QED BY <2>1, <2>2, <2>3, <2>4, <2>6, <2>7
<1> QED BY <1>4, <1>5, <1>6 DEF MatchesAcked

\* What is chosen stays chosen in longer histories.
LEMMA ChosenContinues ==
    ASSUME NEW h \in Histories, NEW g \in Histories, Continues(h, g), NEW a, NEW T,
           NEW c \in Nat, c > 0, NEW e, ChosenUpTo(h, a, T, c, e)
    PROVE  ChosenUpTo(g, a, T, c, e)
<1>1. PICK t \in Terms : \E i \in 1..Len(h.full[t]) :
        t <= T /\ c <= i /\ Own(h, t, i) /\ Chosen(a, t, i) /\ h.full[t][c].term = e
      BY DEF ChosenUpTo
<1>2. PICK i \in 1..Len(h.full[t]) :
        t <= T /\ c <= i /\ Own(h, t, i) /\ Chosen(a, t, i) /\ h.full[t][c].term = e
      BY <1>1
<1>3. Len(h.full[t]) \in Nat /\ Len(g.full[t]) \in Nat
      BY DEF Histories
<1>4. i \in Nat /\ i > 0 /\ i <= Len(h.full[t]) /\ c <= Len(h.full[t])
      BY <1>2, <1>3
<1>5. Own(g, t, i) /\ i <= Len(g.full[t]) /\ g.full[t][c] = h.full[t][c]
      BY <1>2, <1>4, OwnContinues
<1>6. i \in 1..Len(g.full[t])
      BY <1>3, <1>4, <1>5
<1> QED BY <1>2, <1>5, <1>6 DEF ChosenUpTo

\* So does the commit index of a log, and what a message carries.
LEMMA CommittedContinues ==
    ASSUME NEW h \in Histories, NEW g \in Histories, Continues(h, g), NEW a,
           NEW d, SectionOK(d), Anchored(h, d), d.commit \in Nat, Committed(h, a, d)
    PROVE  Committed(g, a, d)
<1>1. CASE d.commit = 0
      BY <1>1 DEF Committed
<1>2. CASE d.commit > 0
  <2>1. PICK e \in Terms : Includes(h, d, d.commit, e) /\ ChosenUpTo(h, a, d.term, d.commit, e)
        BY <1>2 DEF Committed
  <2>2. Includes(g, d, d.commit, e)
        BY <1>2, <2>1, IncludesContinues
  <2>3. ChosenUpTo(g, a, d.term, d.commit, e)
        BY <1>2, <2>1, ChosenContinues
  <2> QED BY <2>2, <2>3 DEF Committed
<1> QED BY <1>1, <1>2

\* The types of what a message carries.
LEMMA CarriedType ==
    ASSUME NEW m, MessageOK(m), CarriesLog(m)
    PROVE  m.term \in Terms /\ SectionOK(carried(m)) /\ carriedCommit(m) \in Nat
<1>1. MaxIndex \in Nat
      BY ConstantsType
<1>2. carriedCommit(m) \in 0..MaxIndex
      BY DEF MessageOK, CarriesLog, carriedCommit, SnapshotOK
<1> QED BY <1>1, <1>2, SectionTypes DEF MessageOK, Terms

\* What a message carries stays justified while histories grow.
LEMMA CarriedContinues ==
    ASSUME NEW h \in Histories, NEW g \in Histories, Continues(h, g), NEW a,
           NEW m, MessageOK(m), CarriesLog(m), CarriedOK(h, a, m)
    PROVE  CarriedOK(g, a, m)
<1>1. PICK T \in Terms : T = m.term
      BY CarriedType
<1>2. PICK c \in Nat : c = carriedCommit(m)
      BY CarriedType
<1>3. SectionOK(carried(m)) /\ Within(carried(m), h.full[T])
      BY <1>1, CarriedType DEF CarriedOK
<1>4. Within(carried(m), g.full[T])
      BY <1>3, ContinuesWithin
<1>5. lastIndex(carried(m)) \in Nat /\ lastIndex(carried(m)) <= Len(h.full[T])
      /\ Len(h.full[T]) \in Nat /\ c <= lastIndex(carried(m))
      BY <1>1, <1>2, <1>3, LastTermWithin DEF CarriedOK
<1>6. c > 0 => ChosenUpTo(g, a, T, c, g.full[T][c].term)
  <2> SUFFICES ASSUME c > 0 PROVE ChosenUpTo(g, a, T, c, g.full[T][c].term)
      OBVIOUS
  <2>1. ChosenUpTo(h, a, T, c, h.full[T][c].term)
        BY <1>1, <1>2 DEF CarriedOK
  <2>2. g.full[T][c] = h.full[T][c]
        BY <1>5, OwnContinues
  <2> QED BY <2>1, <2>2, ChosenContinues
<1> QED BY <1>1, <1>2, <1>4, <1>5, <1>6 DEF CarriedOK

\* What is committed stays chosen and in the logs.
LEMMA CommitsStep ==
    ASSUME TypeInv, NEW h \in Histories, LogInv(h), NEW g \in Histories, NEW s \in Server,
           HistoryStep(h, g, s), NEW a \in Acks, CommitsChosen(h, a),
           NEW k, SectionOK(k), Anchored(h, k), k.commit \in Nat, Moves(s, k),
           NEW N, NEW P, net' \subseteq net \cup N, pending'[s].effects.send \subseteq P,
           TermsBounded(k), CommitInLog(k), Committed(h, a, k) \/ CommitsOwn(a, s)',
           pending'[s].phase # "writing" =>
                disk[s].log = k.log /\ disk[s].snap = k.snap /\ disk[s].commit = k.commit,
           \A m \in P : CarriesLog(m) => SendsLog(k, m),
           \A m \in N : CarriesLog(m) => CarriedOK(g, a, m)
    PROVE  CommitsChosen(g, a)'
<1>1. Continues(h, g) /\ disk' = disk
      BY DEF HistoryStep, Moves
<1>2. /\ node'[s] = k /\ \A u \in Server : u # s => node'[u] = node[u]
      /\ \A u \in Server : u # s => pending'[u] = pending[u]
      BY DEF Moves
<1>3. \A u \in Server : disk[u].commit \in Nat /\ node[u].commit \in Nat
  <2> SUFFICES ASSUME NEW u \in Server PROVE disk[u].commit \in Nat /\ node[u].commit \in Nat
      OBVIOUS
  <2>1. disk[u].commit \in 0..MaxIndex /\ MaxIndex \in Nat
        BY TypeInvAt, ConstantsType DEF HardStateOK
  <2> QED BY <2>1, TypeInvAt, CommitType
<1>4. ASSUME NEW u \in Server
      PROVE  /\ TermsBounded(disk[u])' /\ TermsBounded(node[u])'
             /\ CommitInLog(disk[u])' /\ CommitInLog(node[u])'
             /\ Committed(g, a, disk[u])'
             /\ Committed(g, a, node[u])' \/ CommitsOwn(a, u)'
             /\ pending'[u].phase # "writing" =>
                    /\ disk'[u].log = node'[u].log /\ disk'[u].snap = node'[u].snap
                    /\ disk'[u].commit = node'[u].commit
             /\ \A m \in pending'[u].effects.send : CarriesLog(m) => SendsLog(node'[u], m)
  <2>1. TermsBounded(disk[u])' /\ CommitInLog(disk[u])'
        BY <1>1 DEF CommitsChosen
  <2>2. Committed(g, a, disk[u])'
    <3>1. Committed(g, a, disk[u])
          BY <1>1, <1>3, Sections, CommittedContinues DEF CommitsChosen
    <3> QED BY <1>1, <3>1
  <2>3. CASE u = s
    <3>1. TermsBounded(node[u])' /\ CommitInLog(node[u])'
          BY <1>2, <2>3
    <3>2. Committed(h, a, k) => Committed(g, a, k)
          BY <1>1, CommittedContinues
    <3>3. Committed(g, a, node[u])' \/ CommitsOwn(a, u)'
          BY <1>2, <2>3, <3>2
    <3> QED BY <1>1, <1>2, <2>1, <2>2, <2>3, <3>1, <3>3
  <2>4. CASE u # s
    <3>1. node'[u] = node[u] /\ pending'[u] = pending[u]
          BY <1>2, <2>4
    <3>2. TermsBounded(node[u])' /\ CommitInLog(node[u])'
          BY <3>1 DEF CommitsChosen
    <3>3. Committed(h, a, node[u]) => Committed(g, a, node[u])
          BY <1>1, <1>3, Sections, CommittedContinues
    <3>4. Committed(g, a, node[u])' \/ CommitsOwn(a, u)'
          BY <3>1, <3>3 DEF CommitsChosen, CommitsOwn
    <3>5. /\ pending'[u].phase # "writing" =>
                /\ disk'[u].log = node'[u].log /\ disk'[u].snap = node'[u].snap
                /\ disk'[u].commit = node'[u].commit
          /\ \A m \in pending'[u].effects.send : CarriesLog(m) => SendsLog(node'[u], m)
          BY <1>1, <3>1 DEF CommitsChosen
    <3> QED BY <2>1, <2>2, <3>2, <3>4, <3>5
  <2> QED BY <2>3, <2>4
<1>5. ASSUME NEW m \in net', CarriesLog(m) PROVE CarriedOK(g, a, m)
  <2>1. CASE m \in net
    <3>1. MessageOK(m) /\ CarriedOK(h, a, m)
          BY <1>5, <2>1 DEF TypeInv, TypeOK, CommitsChosen
    <3> QED BY <1>1, <1>5, <3>1, CarriedContinues
  <2>2. CASE m \in N
        BY <1>5, <2>2
  <2> QED BY <2>1, <2>2
<1> QED BY <1>4, <1>5 DEF CommitsChosen

-----------------------------------------------------------------------------
(* Cluster.submit: one transition of an idle process.                      *)

\* The snapshot of s stays, is taken of the application, or is one received.
SnapCause(s, M, r) ==
    \/ SnapStep(node[s], M, r)
    \/ /\ r.node.snap.index = store[s].applied /\ r.node.snap.data = store[s].history
       /\ ~r.effects.install

\* A transition r of s, caused by a message of M or by none, with the votes of X.
Takes(s, M, X, r) ==
    /\ Idle(s) /\ M \subseteq net /\ \A m \in M : m.to = s
    /\ StepInv(node[s], r) /\ LogStep(node[s], M, r) /\ CommitStep(node[s], M, r)
    /\ VoteStep(node[s], X, r) /\ \A x \in X : Voted(x, s, node[s].term)
    /\ SnapCause(s, M, r)

\* What holds of a process before and after it.
LEMMA TakesFrom ==
    ASSUME TypeInv, VoteInv, MembershipIsCurrent, NEW h \in Histories, LogInv(h),
           NEW a \in Acks, CommitInv(h, a), NEW s \in Server, NEW M, NEW X, NEW r,
           Takes(s, M, X, r)
    PROVE  /\ NodeInv(node[s]) /\ SectionOK(node[s]) /\ node[s].id = s
           /\ NodeInv(r.node) /\ SectionOK(r.node) /\ r.node.id = s
           /\ node[s].term \in Nat /\ r.node.term \in Nat /\ node[s].term <= r.node.term
           /\ node[s].commit \in Nat /\ r.node.commit \in Nat
           /\ disk[s].term = node[s].term /\ disk[s].log = node[s].log
           /\ disk[s].snap = node[s].snap /\ disk[s].commit = node[s].commit
           /\ FromHistory(h, node[s]) /\ Arrives(h, M) /\ Anchored(h, r.node)
           /\ CommitInLog(node[s]) /\ Committed(h, a, node[s]) /\ node[s].applied = node[s].commit
           /\ node[s].membership = InitialMembership
           /\ \A i \in Nat : membershipAt(node[s], i) = InitialMembership
<1>1. Idle(s) /\ M \subseteq net /\ StepInv(node[s], r) /\ LogStep(node[s], M, r)
      BY DEF Takes
<1>2. /\ NodeInv(node[s]) /\ node[s].id = s /\ NodeInv(r.node) /\ r.node.id = s
      /\ SectionOK(node[s]) /\ SectionOK(r.node)
      BY <1>1, TypeInvAt, SectionTypes DEF StepInv
<1>3. /\ node[s].commit \in Nat /\ r.node.commit \in Nat
      /\ node[s].term \in Nat /\ r.node.term \in Nat
  <2>1. node[s].term \in 0..MaxTerm /\ r.node.term \in 0..MaxTerm /\ MaxTerm \in Nat
        BY <1>2, ConstantsType DEF NodeInv, NodeOK, HardStateOK
  <2> QED BY <1>2, <2>1, CommitType
<1>4. node[s].term <= r.node.term
      BY <1>3 DEF Takes, VoteStep
<1>5. pending[s].phase # "writing" /\ up[s]
      BY <1>1 DEF Idle, NoPending
<1>6. /\ disk[s].term = node[s].term
      BY <1>5 DEF VoteInv, WriteOK
<1>7. /\ disk[s].log = node[s].log /\ disk[s].snap = node[s].snap
      /\ disk[s].commit = node[s].commit /\ CommitInLog(node[s])
      /\ Committed(h, a, node[s])
      BY <1>5 DEF CommitInv, CommitsChosen, CommitsOwn
<1>8. FromHistory(h, node[s]) /\ node[s].membership = InitialMembership
      /\ \A i \in Nat : membershipAt(node[s], i) = InitialMembership
      BY <1>1, IdleLog
<1>9. Arrives(h, M)
  <2> SUFFICES ASSUME NEW m \in M, CarriesLog(m)
               PROVE  m.term \in Terms /\ SectionOK(carried(m)) /\ Within(carried(m), h.full[m.term])
      BY DEF Arrives
  <2>1. MessageOK(m) /\ CarriedOK(h, a, m)
        BY <1>1 DEF TypeInv, TypeOK, CommitInv, CommitsChosen
  <2> QED BY <2>1, CarriedType DEF CarriedOK
<1>10. Anchored(h, r.node)
      BY <1>1, <1>2, <1>8, <1>9, StepAnchored DEF LogInv
<1>11. node[s].applied = node[s].commit
      BY <1>5 DEF CommitInv, DeliveryOK
<1> QED BY <1>2, <1>3, <1>4, <1>6, <1>7, <1>8, <1>9, <1>10, <1>11

\* It keeps what the history of its new term holds.
LEMMA TakesKeeps ==
    ASSUME TypeInv, VoteInv, MembershipIsCurrent, NEW h \in Histories, LogInv(h),
           NEW a \in Acks, CommitInv(h, a), NEW s \in Server, NEW M, NEW X, NEW r,
           Takes(s, M, X, r), NEW i \in Nat, i > 0, NEW t, Includes(h, node[s], i, t),
           r.node.term \in Terms /\ h.full[r.node.term] # <<>> =>
                i <= Len(h.full[r.node.term]) /\ h.full[r.node.term][i].term = t
    PROVE  Includes(h, r.node, i, t)
<1>1. PICK n : n = node[s]
      OBVIOUS
<1>2. /\ SectionOK(n) /\ SectionOK(r.node) /\ n.commit \in Nat
      /\ FromHistory(h, n) /\ Arrives(h, M) /\ CommitInLog(n)
      BY <1>1, TakesFrom
<1>3. n.snap.index <= n.commit
      BY <1>2 DEF CommitInLog
<1>4. LogStep(n, M, r) /\ HistoriesAgree(h)
      BY <1>1 DEF Takes, LogInv
<1> QED BY <1>1, <1>2, <1>3, <1>4, StepKeeps

\* What it acknowledged.
LEMMA TakesAcks ==
    ASSUME TypeInv, VoteInv, MembershipIsCurrent, NEW h \in Histories, LogInv(h),
           NEW a \in Acks, CommitInv(h, a), NEW s \in Server, NEW M, NEW X, NEW r,
           Takes(s, M, X, r)
    PROVE  AcksHeld(h, a, s, r.node)
<1> SUFFICES ASSUME NEW t \in Terms, NEW i \in 1..a[t][s], Own(h, t, i),
                    r.node.term = t \/ Choosable(a, durableTerms, t, i)
             PROVE  Includes(h, r.node, i, t)
    BY DEF AcksHeld
<1>1. AcksOK(h, a) /\ AcksHeld(h, a, s, node[s]) /\ LaterHolds(h, a)
      BY DEF CommitInv
<1>2. a[t][s] \in Nat /\ i \in Nat /\ i > 0 /\ a[t][s] > 0
      BY DEF Acks
<1>3. disk[s].term >= t
      BY <1>1, <1>2 DEF AcksOK
<1>4. /\ disk[s].term = node[s].term /\ node[s].term <= r.node.term
      /\ node[s].term \in Nat /\ r.node.term \in Nat /\ t \in Nat
      BY TakesFrom DEF Terms
<1>5. t <= r.node.term /\ (r.node.term = t => node[s].term = t)
      BY <1>3, <1>4
<1>6. Includes(h, node[s], i, t)
      BY <1>1, <1>5 DEF AcksHeld
<1>7. ASSUME r.node.term \in Terms, h.full[r.node.term] # <<>>
      PROVE  i <= Len(h.full[r.node.term]) /\ h.full[r.node.term][i].term = t
  <2>1. CASE r.node.term = t
        BY <1>2, <2>1 DEF Own
  <2>2. CASE r.node.term # t
    <3>1. t < r.node.term /\ i \in 1..Len(h.full[t])
          BY <1>4, <1>5, <2>2 DEF Own
    <3> QED BY <1>1, <1>7, <2>2, <3>1 DEF LaterHolds
  <2> QED BY <2>1, <2>2
<1> QED BY <1>2, <1>6, <1>7, TakesKeeps

\* A log that is as far as something that may be chosen holds it.
LEMMA AsFarIncludes ==
    ASSUME NEW h \in Histories, HistoriesAgree(h), HistoryTerms(h), NEW a, LaterHolds(h, a),
           NEW n, SectionOK(n), FromHistory(h, n), NEW t \in Terms, NEW i \in Nat, Own(h, t, i),
           Choosable(a, durableTerms, t, i), AsFar(n, i, t)
    PROVE  Includes(h, n, i, t)
<1>1. PICK u \in Terms : Within(n, h.full[u])
      BY DEF FromHistory
<1>2. PICK l \in Nat : l = lastIndex(n)
      BY SectionAt
<1>3. PICK v : v = lastTerm(n)
      OBVIOUS
<1>4. i > 0 /\ i <= Len(h.full[t]) /\ h.full[t][i].term = t /\ i \in 1..Len(h.full[t])
      /\ Len(h.full[t]) \in Nat
      BY DEF Own, Histories
<1>5. l > 0
  <2> SUFFICES ASSUME l = 0 PROVE FALSE
      OBVIOUS
  <2>1. lastTerm(n) = 0
        BY <1>2 DEF lastTerm, termAt
  <2> QED BY <2>1 DEF AsFar, Terms
<1>6. l <= Len(h.full[u]) /\ v = h.full[u][l].term /\ Len(h.full[u]) \in Nat
      BY <1>1, <1>2, <1>3, <1>5, LastTermWithin
<1>7. v \in Terms /\ h.full[v] # <<>>
      BY <1>5, <1>6, HistoryTerm
<1>8. l <= Len(h.full[v]) /\ \A j \in 1..l : h.full[v][j] = h.full[u][j]
  <2>1. l \in 1..Len(h.full[u])
        BY <1>5, <1>6
  <2> QED BY <1>6, <2>1 DEF HistoriesAgree
<1>9. i <= l /\ h.full[v][i].term = t
  <2>1. CASE v = t /\ l >= i
        BY <1>4, <2>1
  <2>2. CASE v > t
    <3>1. i <= Len(h.full[v]) /\ h.full[v][i].term = t
          BY <1>4, <1>7, <2>2 DEF LaterHolds
    <3>2. i <= l
      <4> SUFFICES ASSUME l < i PROVE FALSE
          OBVIOUS
      <4>1. l <= i
            OBVIOUS
      <4>2. h.full[v][l].term <= h.full[v][i].term
            BY <1>5, <1>7, <3>1, <4>1, TermsOrdered
      <4>3. h.full[v][l].term = v
        <5>1. l \in 1..l
              BY <1>5
        <5> QED BY <1>6, <1>8, <5>1
      <4> QED BY <1>7, <2>2, <3>1, <4>2, <4>3 DEF Terms
    <3> QED BY <3>1, <3>2
  <2> QED BY <1>2, <1>3, <2>1, <2>2 DEF AsFar
<1>10. h.full[u][i].term = t
  <2>1. i \in 1..l
        BY <1>4, <1>9
  <2> QED BY <1>8, <1>9, <2>1
<1> QED BY <1>1, <1>2, <1>4, <1>9, <1>10, IncludesWithin

\* What may be chosen when fewer processes have moved on.
LEMMA ChoosableLess ==
    ASSUME NEW a, NEW c \in [Server -> Nat], NEW d \in [Server -> Nat],
           \A x \in Server : d[x] <= c[x], NEW t \in Nat, NEW i, Choosable(a, c, t, i)
    PROVE  Choosable(a, d, t, i)
<1>1. PICK Q \in SUBSET Server :
        quorum(InitialMembership, Q) /\ \A x \in Q : a[t][x] >= i \/ c[x] <= t
      BY DEF Choosable
<1>2. ASSUME NEW x \in Q, c[x] <= t PROVE d[x] <= t
  <2>1. c[x] \in Nat /\ d[x] \in Nat /\ d[x] <= c[x]
        OBVIOUS
  <2> QED BY <1>2, <2>1
<1>3. \A x \in Q : a[t][x] >= i \/ d[x] <= t
      BY <1>1, <1>2
<1> QED BY <1>1, <1>3 DEF Choosable

\* Whoever elected s has left the earlier terms.
LEMMA ElectorsLeft ==
    ASSUME TypeInv, VoteInv, MembershipIsCurrent, NEW h \in Histories, LogInv(h),
           NEW a \in Acks, CommitInv(h, a), NEW s \in Server, NEW M, NEW X, NEW r,
           Takes(s, M, X, r), r.node.role = Leader, r.node.electionMembership = InitialMembership
    PROVE  /\ quorum(InitialMembership, r.node.electionVotes)
           /\ \A x \in r.node.electionVotes \cap Server : x # s =>
                /\ node[s].role # Follower /\ r.node.term = node[s].term
                /\ Voted(x, s, node[s].term) /\ disk[x].term >= r.node.term
<1>1. /\ quorum(InitialMembership, r.node.electionVotes)
      /\ r.node.electionVotes \subseteq r.node.votes
      BY DEF Takes, VoteStep, VoteOK
<1>2. node[s].id = s /\ r.node.role # Follower
      BY TakesFrom DEF Leader, Follower
<1>3. ASSUME NEW x \in r.node.electionVotes \cap Server, x # s
      PROVE  /\ node[s].role # Follower /\ r.node.term = node[s].term
             /\ Voted(x, s, node[s].term) /\ disk[x].term >= r.node.term
  <2>1. /\ node[s].role # Follower /\ r.node.term = node[s].term /\ x \in node[s].votes \cup X
        BY <1>1, <1>2, <1>3 DEF Takes, VoteStep
  <2>2. Voted(x, s, node[s].term)
        BY <1>3, <2>1 DEF Takes, Voted
  <2>3. node[s].term \in 0..MaxTerm /\ node[s].term \in Nat /\ disk[x].term \in Nat
        BY VoteTypes
  <2>4. Recorded(x, s, node[s].term)
        BY <2>2, <2>3 DEF VoteInv, VotesAreFinal
  <2> QED BY <2>1, <2>2, <2>3, <2>4 DEF Recorded
<1> QED BY <1>1, <1>3

\* A process that leads a term without a history has just been elected.
LEMMA TakesUnborn ==
    ASSUME TypeInv, VoteInv, MembershipIsCurrent, NEW h \in Histories, LogInv(h),
           NEW a \in Acks, CommitInv(h, a), NEW s \in Server, NEW M, NEW X, NEW r,
           Takes(s, M, X, r), r.node.role = Leader, h.full[r.node.term] = <<>>
    PROVE  Wins(node[s], r.node)
<1>1. ~(node[s].role = Leader /\ r.node.term = node[s].term)
      BY IdleLog DEF Takes
<1> QED BY <1>1 DEF Takes, LogStep, Quiet, Stays, Stands, Proposes, Compacts,
                    Follower, Candidate, Leader

\* A new leader holds what may be chosen in earlier terms.
LEMMA TakesWins ==
    ASSUME TypeInv, VoteInv, MembershipIsCurrent, NEW h \in Histories, LogInv(h),
           NEW a \in Acks, CommitInv(h, a), NEW s \in Server, NEW M, NEW X, NEW r,
           Takes(s, M, X, r), r.node.role = Leader, r.node.electionMembership = InitialMembership,
           h.full[r.node.term] = <<>>,
           NEW t \in Terms, NEW i \in 1..Len(h.full[t]), t < r.node.term, Own(h, t, i),
           Choosable(a, [durableTerms EXCEPT ![s] = r.node.term], t, i)
    PROVE  Includes(h, r.node, i, t)
<1>1. PICK n : n = node[s]
      OBVIOUS
<1>2. PICK k : k = r.node
      OBVIOUS
<1>3. PICK d : d = [durableTerms EXCEPT ![s] = k.term]
      OBVIOUS
<1>4. /\ NodeInv(n) /\ SectionOK(n) /\ FromHistory(h, n) /\ n.term \in Nat /\ k.term \in Nat
      /\ n.term <= k.term /\ disk[s].term = n.term /\ t \in Nat /\ i \in Nat /\ i > 0
  <2>1. Len(h.full[t]) \in Nat
        BY DEF Histories
  <2> QED BY <1>1, <1>2, <2>1, TakesFrom DEF Terms
<1>5. durableTerms \in [Server -> Nat] /\ d \in [Server -> Nat]
      BY <1>3, <1>4, DurableType
<1>6. Wins(n, k)
      BY <1>1, <1>2, TakesUnborn
<1>7. /\ quorum(InitialMembership, k.electionVotes)
      /\ \A x \in k.electionVotes \cap Server : x # s =>
                /\ n.role # Follower /\ k.term = n.term
                /\ Voted(x, s, n.term) /\ disk[x].term >= k.term
      BY <1>1, <1>2, ElectorsLeft
<1>8. \A x \in k.electionVotes \cap Server : d[x] > t
  <2> SUFFICES ASSUME NEW x \in k.electionVotes \cap Server PROVE d[x] > t
      OBVIOUS
  <2>1. CASE x = s
        BY <1>2, <1>3, <1>5, <2>1
  <2>2. CASE x # s
    <3>1. d[x] = disk[x].term /\ disk[x].term \in Nat
          BY <1>3, <2>2, VoteTypes DEF durableTerms
    <3> QED BY <1>2, <1>4, <1>7, <2>2, <3>1
  <2> QED BY <2>1, <2>2
<1>9. PICK x \in k.electionVotes \cap Server : a[t][x] >= i
      BY <1>2, <1>3, <1>4, <1>5, <1>7, <1>8, ChoosableMeets
<1>10. Choosable(a, durableTerms, t, i)
  <2>1. \A y \in Server : durableTerms[y] <= d[y]
    <3> SUFFICES ASSUME NEW y \in Server PROVE durableTerms[y] <= d[y]
        OBVIOUS
    <3>1. durableTerms[y] \in Nat /\ durableTerms[y] = disk[y].term
          BY <1>5 DEF durableTerms
    <3>2. d[y] = IF y = s THEN k.term ELSE durableTerms[y]
          BY <1>3, <1>5
    <3> QED BY <1>4, <3>1, <3>2
  <2> QED BY <1>2, <1>3, <1>4, <1>5, <2>1, ChoosableLess
<1>11. i \in 1..a[t][x]
      BY <1>4, <1>9 DEF Acks
<1>12. Includes(h, n, i, t)
  <2>1. CASE x = s
    <3>1. AcksHeld(h, a, s, n)
          BY <1>1 DEF CommitInv
    <3> QED BY <1>10, <1>11, <2>1, <3>1 DEF AcksHeld
  <2>2. CASE x # s
    <3>1. n.role # Follower /\ k.term = n.term /\ Voted(x, s, n.term)
          BY <1>7, <1>9, <2>2
    <3>2. n.role = Candidate
          BY <1>4, <1>6, <3>1 DEF Wins
    <3>3. VoterCovered(h, a, x, s)
          BY <1>1, <3>1, <3>2 DEF CommitInv, VotesCovered
    <3>4. AsFar(n, i, t)
          BY <1>1, <1>2, <1>10, <1>11, <3>1, <3>3 DEF VoterCovered
    <3>5. HistoryTerms(h) /\ LaterHolds(h, a) /\ HistoriesAgree(h)
          BY DEF CommitInv, LogInv
    <3> QED BY <1>4, <1>10, <3>4, <3>5, AsFarIncludes
  <2> QED BY <2>1, <2>2
<1>13. PICK e \in Entry : k.log = Append(n.log, e)
      BY <1>6 DEF Wins, Appends
<1>14. k.snap = n.snap
      BY <1>6 DEF Wins, Appends
<1>15. Includes(h, k, i, t)
      BY <1>4, <1>12, <1>13, <1>14, AppendIncludes
<1> QED BY <1>2, <1>15

\* A candidate that stays one keeps its log to the end.
LEMMA TakesStand ==
    ASSUME TypeInv, VoteInv, MembershipIsCurrent, NEW h \in Histories, LogInv(h),
           NEW a \in Acks, CommitInv(h, a), NEW s \in Server, NEW M, NEW X, NEW r,
           Takes(s, M, X, r), r.node.role = Candidate
    PROVE  /\ r.node.term <= disk[s].term => SameStand(node[s], r.node)
           /\ \A x \in r.node.votes \ {s} :
                r.node.term <= disk[s].term /\ Voted(x, s, r.node.term)
<1>1. PICK n : n = node[s]
      OBVIOUS
<1>2. PICK k : k = r.node
      OBVIOUS
<1>3. /\ SectionOK(n) /\ SectionOK(k) /\ FromHistory(h, n) /\ n.term \in Nat /\ k.term \in Nat
      /\ disk[s].term = n.term /\ n.term <= k.term /\ n.id = s
      BY <1>1, <1>2, TakesFrom
<1>4. ASSUME k.term <= disk[s].term PROVE SameStand(n, k)
  <2>1. k.term = n.term
        BY <1>3, <1>4
  <2>2. Quiet(n, k) \/ Compacts(n, k)
    <3>1. isVoter(n.membership, n.id)
      <4>1. isVoter(InitialMembership, s) \/ n.role = Follower
            BY <1>1 DEF LogInv, ConfigurationIsFixed
      <4>2. n.membership = InitialMembership
            BY <1>1, TakesFrom
      <4>3. CASE n.role # Follower
            BY <1>3, <4>1, <4>2, <4>3
      <4>4. CASE n.role = Follower
        <5>1. Wins(n, k) \/ Stands(n, k) => isVoter(n.membership, n.id)
              BY <1>3, <2>1, <4>4 DEF Wins, Stands, Follower, Candidate
        <5>2. k.role = Candidate /\ LogStep(n, M, r)
              BY <1>1, <1>2 DEF Takes
        <5>3. ~Quiet(n, k) /\ ~Compacts(n, k) /\ ~Proposes(n, k)
              BY <1>2, <4>4 DEF Quiet, Stays, Compacts, Proposes, Follower, Candidate, Leader
        <5> QED BY <1>2, <5>1, <5>2, <5>3 DEF LogStep, Follower, Candidate
      <4> QED BY <4>3, <4>4
    <3>2. ~Wins(n, k) /\ ~Proposes(n, k)
          BY <1>2, <3>1 DEF Wins, Proposes, Candidate, Leader
    <3>3. ~Stands(n, k)
          BY <1>3, <2>1 DEF Stands
    <3> QED BY <1>1, <1>2, <3>2, <3>3 DEF Takes, LogStep, Candidate, Follower
  <2>3. n.role = Candidate
        BY <1>2, <2>2 DEF Quiet, Compacts, Stays, Candidate, Follower
  <2>4. CASE Quiet(n, k)
        BY <2>1, <2>3, <2>4, IncludesSame DEF Quiet, SameLog, SameStand
  <2>5. CASE Compacts(n, k)
    <3>1. PICK u \in Terms : Within(n, h.full[u])
          BY <1>3 DEF FromHistory
    <3>2. lastTerm(k) = lastTerm(n) /\ lastIndex(k) = lastIndex(n)
          BY <1>3, <2>5, <3>1, PartIncludes DEF Compacts, LogInv
    <3> QED BY <2>1, <2>3, <3>2 DEF SameStand
  <2> QED BY <2>2, <2>4, <2>5
<1>5. ASSUME NEW x \in k.votes \ {s} PROVE k.term <= disk[s].term /\ Voted(x, s, k.term)
  <2>1. k.role # Follower /\ x \in Server
    <3>1. NodeInv(k)
          BY <1>2, TakesFrom
    <3>2. k.votes \subseteq Server
          BY <3>1 DEF NodeInv, NodeOK
    <3> QED BY <1>2, <3>2 DEF Follower, Candidate
  <2>2. n.role # Follower /\ k.term = n.term /\ x \in n.votes \cup X
        BY <1>1, <1>2, <1>3, <1>5, <2>1 DEF Takes, VoteStep
  <2>3. Voted(x, s, n.term)
        BY <1>1, <1>5, <2>2 DEF Takes, Voted
  <2> QED BY <1>3, <2>2, <2>3
<1> QED BY <1>1, <1>2, <1>4, <1>5

\* The last term of a node's log.
LEMMA LastTermType ==
    ASSUME NEW n, NodeInv(n)
    PROVE  lastTerm(n) \in Nat
<1>1. HardStateOK(n) /\ lastIndex(n) \in Nat /\ MaxTerm \in Nat
      BY NodeShape, SectionTypes, SectionAt, ConstantsType
<1>2. termAt(n, lastIndex(n)) \in 0..MaxTerm
      BY <1>1, TermAtType
<1> QED BY <1>1, <1>2 DEF lastTerm

\* A vote is given to a candidate whose log is as far as the voter's.
LEMMA TakesGrants ==
    ASSUME TypeInv, VoteInv, MembershipIsCurrent, NEW h \in Histories, LogInv(h),
           NEW a \in Acks, CommitInv(h, a), NEW s \in Server, NEW M, NEW X, NEW r,
           Takes(s, M, X, r),
           NEW g \in Histories, HistoriesAgree(g), HistoryTerms(g), Continues(h, g),
           r.node.role = Follower => FromHistory(g, r.node),
           NEW m \in r.effects.send, Grant(m)
    PROVE  m.from = s /\ m.to \in Server \ {s} /\ GrantOK(h, a, s, m)
<1>1. PICK k : k = r.node
      OBVIOUS
<1>2. /\ NodeInv(k) /\ SectionOK(k) /\ k.id = s /\ Anchored(h, k) /\ AcksHeld(h, a, s, k)
      /\ node[s].id = s
      BY <1>1, TakesFrom, TakesAcks
<1>3. m.from = s /\ MessageOK(m)
      BY <1>2 DEF Takes, StepInv, SendsOK, MessageInv
<1>4. m.to \in Server \ {s}
      BY <1>3 DEF MessageOK
<1>5. PICK c \in Server : c = m.to
      BY <1>4
<1>6. FromHistory(g, k)
  <2>1. m.to = k.votedFor /\ (k.role # Follower => k.votedFor = k.id)
        BY <1>1 DEF Takes, VoteStep, VoteOK
  <2> QED BY <1>1, <1>2, <1>4, <2>1
<1>7. /\ m.term = k.term
      /\ \E q \in M : /\ Asks(q) /\ q.from = m.to /\ q.term = k.term
                      /\ candidateLogIsUpToDate(k, q.lastLogIndex, q.lastLogTerm)
      BY <1>1 DEF Takes, CommitStep, SendCause
<1>8. PICK q \in M : /\ Asks(q) /\ q.from = c /\ q.term = m.term
                     /\ candidateLogIsUpToDate(k, q.lastLogIndex, q.lastLogTerm)
      BY <1>5, <1>7
<1>9. q \in net
      BY DEF Takes
<1>10. q.term <= disk[c].term /\ RequestOK(q)
      BY <1>8, <1>9 DEF CommitInv, VotesCovered
<1>11. ASSUME Candidacy(c, m.term) PROVE VoterCovered(h, a, s, c)
  <2>1. q.lastLogIndex = lastIndex(node[c]) /\ q.lastLogTerm = lastTerm(node[c])
        BY <1>8, <1>10, <1>11 DEF RequestOK
  <2> SUFFICES ASSUME NEW t \in Terms, NEW i \in 1..a[t][s], t < node[c].term, Own(h, t, i),
                      Choosable(a, durableTerms, t, i)
               PROVE  AsFar(node[c], i, t)
      BY DEF VoterCovered
  <2>2. Includes(h, k, i, t)
        BY <1>2 DEF AcksHeld
  <2>3. i \in Nat /\ i > 0
        BY DEF Acks
  <2>4. Includes(g, k, i, t)
        BY <1>2, <2>2, <2>3, IncludesContinues
  <2>5. AsFar(k, i, t)
        BY <1>2, <1>6, <2>3, <2>4, IncludesAsFar
  <2>6. /\ lastTerm(k) \in Nat /\ lastTerm(node[c]) \in Nat /\ t \in Nat
        /\ lastIndex(k) \in Nat /\ lastIndex(node[c]) \in Nat
        BY <1>2, TypeInvAt, LastTermType, SectionTypes, SectionAt DEF Terms
  <2>7. candidateLogIsUpToDate(k, lastIndex(node[c]), lastTerm(node[c]))
        BY <1>8, <2>1
  <2> QED BY <2>3, <2>5, <2>6, <2>7 DEF AsFar, candidateLogIsUpToDate
<1> QED BY <1>3, <1>4, <1>5, <1>8, <1>10, <1>11 DEF GrantOK

\* What is durable in its own term was acknowledged.
LEMMA AckedBelow ==
    ASSUME NEW h \in Histories, HistoriesAgree(h), HistoryTerms(h), NEW a \in Acks, AcksOK(h, a),
           NEW f \in Server, SectionOK(disk[f]), FromHistory(h, disk[f]), TermsBounded(disk[f]),
           NEW T \in Terms, disk[f].term = T, NEW j \in Nat, j > 0, j <= Len(h.full[T]),
           Includes(h, disk[f], j, h.full[T][j].term)
    PROVE  \A i \in 1..j : Own(h, T, i) => a[T][f] >= i
<1> SUFFICES ASSUME NEW i \in 1..j, Own(h, T, i) PROVE a[T][f] >= i
    OBVIOUS
<1>1. PICK d : d = disk[f]
      OBVIOUS
<1>2. PICK u \in Terms : Within(d, h.full[u])
      BY <1>1 DEF FromHistory
<1>3. PICK l \in Nat : l = lastIndex(d)
      BY <1>1, SectionAt
<1>4. j <= l /\ h.full[u][j].term = h.full[T][j].term
      BY <1>1, <1>2, <1>3, IncludesWithin
<1>5. l <= Len(h.full[u]) /\ lastTerm(d) = h.full[u][l].term /\ Len(h.full[u]) \in Nat
      BY <1>1, <1>2, <1>3, <1>4, LastTermWithin
<1>6. j <= Len(h.full[u])
      BY <1>3, <1>4, <1>5
<1>7. h.full[u][i].term = T
  <2>1. h.full[T][i] = h.full[u][i]
        BY <1>4, <1>6, Matching
  <2> QED BY <2>1 DEF Own
<1>8. T <= lastTerm(d) /\ lastTerm(d) \in Terms
  <2>1. i \in Nat /\ i > 0 /\ i <= l
        BY <1>4
  <2> QED BY <1>5, <1>7, <2>1, TermsOrdered
<1>9. lastTerm(d) <= T
  <2>1. l \in d.snap.index..lastIndex(d)
        BY <1>1, <1>3, SectionAt
  <2>2. termAt(d, l) <= d.term
        BY <1>1, <2>1 DEF TermsBounded
  <2> QED BY <1>1, <1>3, <2>2 DEF lastTerm
<1>10. lastTerm(d) = T
      BY <1>8, <1>9 DEF Terms
<1>11. a[T][f] >= l
      BY <1>1, <1>3, <1>10 DEF AcksOK
<1>12. a[T][f] \in Nat
      BY DEF Acks
<1> QED BY <1>4, <1>11, <1>12

\* A log that took what a message carries includes its last entry.
LEMMA TookIncludes ==
    ASSUME NEW h \in Histories, HistoriesAgree(h), NEW k, SectionOK(k), Anchored(h, k),
           NEW c, SectionOK(c), NEW T \in Terms, Within(c, h.full[T]), Took(k, c),
           NEW j \in Nat, j > 0, j = lastIndex(c)
    PROVE  Includes(h, k, j, h.full[T][j].term)
<1>1. PICK b \in Nat : b = k.snap.index
      BY DEF SectionOK
<1>2. b <= j /\ j <= lastIndex(k) /\ termAt(k, j) = h.full[T][j].term
      BY <1>1, LastTermWithin DEF Took
<1>3. CASE j = b
  <2>1. k.snap.term = h.full[T][j].term
        BY <1>1, <1>2, <1>3 DEF termAt
  <2>2. h.full[k.snap.term][j].term = k.snap.term
        BY <1>1, <1>3 DEF Anchored
  <2> QED BY <1>1, <1>2, <1>3, <2>1, <2>2 DEF Includes
<1>4. CASE j # b
  <2>1. entryAt(k, j).term = h.full[T][j].term
        BY <1>1, <1>2, <1>4 DEF termAt, entryExists
  <2>2. j > b
        BY <1>2, <1>4
  <2> QED BY <1>1, <1>2, <2>1, <2>2 DEF Includes
<1> QED BY <1>3, <1>4

\* A log holds what the history of its term holds up to its commit index.
LEMMA CommittedMatches ==
    ASSUME NEW h \in Histories, HistoriesAgree(h), NEW a, LaterHolds(h, a),
           NEW n, SectionOK(n), FromHistory(h, n), n.commit \in Nat, n.term \in Nat,
           Committed(h, a, n), NEW T \in Terms, n.term <= T, h.full[T] # <<>>,
           NEW j \in Nat, j > 0, j <= n.commit
    PROVE  j <= Len(h.full[T]) /\ Includes(h, n, j, h.full[T][j].term)
<1>1. PICK c \in Nat : c = n.commit
      OBVIOUS
<1>2. PICK e \in Terms : Includes(h, n, c, e) /\ ChosenUpTo(h, a, n.term, c, e)
      BY <1>1 DEF Committed
<1>3. c > 0 /\ j \in 1..c
      BY <1>1
<1>4. c <= Len(h.full[T]) /\ h.full[T][c].term = e /\ Len(h.full[T]) \in Nat
  <2>1. Len(h.full[T]) \in Nat
        BY DEF Histories
  <2> QED BY <1>2, <1>3, <2>1, ChosenInLater
<1>5. PICK u \in Terms : Within(n, h.full[u])
      BY DEF FromHistory
<1>6. PICK l \in Nat : l = lastIndex(n)
      BY SectionAt
<1>7. c <= l /\ h.full[u][c].term = e
      BY <1>2, <1>3, <1>5, <1>6, IncludesWithin
<1>8. c <= Len(h.full[u])
  <2>1. l <= Len(h.full[u]) /\ Len(h.full[u]) \in Nat
        BY <1>5, <1>6, LastTermWithin
  <2> QED BY <1>6, <1>7, <2>1
<1>9. h.full[u][j] = h.full[T][j]
  <2>1. h.full[u][c].term = h.full[T][c].term
        BY <1>4, <1>7
  <2>2. \A x \in 1..c : h.full[u][x] = h.full[T][x]
        BY <1>3, <1>4, <1>8, <2>1, Matching, SMTT(40)
  <2> QED BY <1>3, <2>2
<1>10. j <= lastIndex(n) /\ j <= Len(h.full[T])
  <2>1. j <= c /\ c <= l /\ c <= Len(h.full[T]) /\ Len(h.full[T]) \in Nat
        BY <1>3, <1>4, <1>7
  <2>2. j <= l /\ j <= Len(h.full[T])
        BY <2>1
  <2> QED BY <1>6, <2>2
<1>11. PICK x : x = h.full[T][j].term /\ h.full[u][j].term = x
      BY <1>9
<1>12. Includes(h, n, j, x)
      BY <1>5, <1>10, <1>11, IncludesWithin
<1> QED BY <1>10, <1>11, <1>12

\* What a follower confirms it holds, and has acknowledged if it confirms at once.
LEMMA TakesConfirms ==
    ASSUME TypeInv, VoteInv, MembershipIsCurrent, NEW h \in Histories, LogInv(h),
           NEW a \in Acks, CommitInv(h, a), NEW s \in Server, NEW M, NEW X, NEW r,
           Takes(s, M, X, r), NEW m \in r.effects.send, Confirms(m)
    PROVE  /\ m.from = s /\ m.term = r.node.term /\ m.matchIndex <= Len(h.full[m.term])
           /\ m.matchIndex > 0 =>
                Includes(h, r.node, m.matchIndex, h.full[m.term][m.matchIndex].term)
           /\ ~r.dirty => MatchOK(h, a, m.term, m.from, m.matchIndex)
<1>1. PICK n : n = node[s]
      OBVIOUS
<1>2. PICK k : k = r.node
      OBVIOUS
<1>3. /\ SectionOK(n) /\ SectionOK(k) /\ n.id = s /\ n.term \in Nat /\ k.term \in Nat
      /\ n.term <= k.term /\ n.commit \in Nat /\ k.commit \in Nat
      /\ disk[s].term = n.term /\ disk[s].log = n.log /\ disk[s].snap = n.snap
      /\ FromHistory(h, n) /\ Anchored(h, k) /\ Committed(h, a, n)
      BY <1>1, <1>2, TakesFrom
<1>4. m.from = s /\ MessageOK(m)
      BY <1>1, <1>3 DEF Takes, StepInv, SendsOK, MessageInv
<1>5. PICK T \in Terms : T = m.term
      BY <1>4, ConfirmsType
<1>6. PICK j \in Nat : j = m.matchIndex
      BY <1>4, ConfirmsType
<1>7. SendCause(n, M, k, r.dirty, m)
      BY <1>1, <1>2 DEF Takes, CommitStep
<1>8. T = k.term
      BY <1>5, <1>7 DEF SendCause
<1>9. PICK q \in M : /\ Follows(k, q) /\ j = lastIndex(carried(q))
                     /\ \/ Took(k, carried(q))
                        \/ /\ lastIndex(carried(q)) <= k.commit
                           /\ k.snap = n.snap /\ k.log = n.log /\ k.commit = n.commit
      BY <1>6, <1>7 DEF SendCause
<1>10. SectionOK(carried(q)) /\ Within(carried(q), h.full[T])
  <2>1. CarriesLog(q) /\ q.term = T /\ Arrives(h, M)
        BY <1>8, <1>9, TakesFrom DEF Follows
  <2> QED BY <2>1 DEF Arrives
<1>11. j <= Len(h.full[T]) /\ Len(h.full[T]) \in Nat
      BY <1>9, <1>10, LastTermWithin
<1>12. HistoriesAgree(h) /\ LaterHolds(h, a) /\ HistoryTerms(h) /\ AcksOK(h, a)
      BY DEF LogInv, CommitInv
<1>13. j > 0 => Includes(h, k, j, h.full[T][j].term)
  <2> SUFFICES ASSUME j > 0 PROVE Includes(h, k, j, h.full[T][j].term)
      OBVIOUS
  <2>1. CASE Took(k, carried(q))
        BY <1>3, <1>9, <1>10, <1>12, <2>1, TookIncludes
  <2>2. CASE /\ lastIndex(carried(q)) <= k.commit
             /\ k.snap = n.snap /\ k.log = n.log /\ k.commit = n.commit
    <3>1. h.full[T] # <<>> /\ j <= n.commit
          BY <1>9, <1>11, <2>2
    <3>2. Includes(h, n, j, h.full[T][j].term)
          BY <1>3, <1>8, <1>12, <3>1, CommittedMatches
    <3> QED BY <2>2, <3>2, IncludesSame
  <2> QED BY <1>9, <2>1, <2>2
<1>14. ASSUME ~r.dirty PROVE MatchOK(h, a, T, s, j)
  <2>1. k.snap = n.snap /\ k.log = n.log /\ k.term = n.term
        BY <1>1, <1>2, <1>14 DEF Takes, CommitStep, CommitCause, VoteStep
  <2>2. PICK e : e = h.full[T][j].term
        OBVIOUS
  <2>3. j > 0 => Includes(h, n, j, e) /\ Includes(h, disk[s], j, e)
    <3>1. Includes(h, k, j, e) <=> Includes(h, n, j, e)
          BY <2>1, IncludesSame
    <3>2. Includes(h, n, j, e) <=> Includes(h, disk[s], j, e)
          BY <1>3, IncludesSame
    <3> QED BY <1>13, <2>2, <3>1, <3>2
  <2>4. disk[s].term = T /\ disk[s].term >= T
        BY <1>3, <1>8, <2>1
  <2>5. j > 0 => \A i \in 1..j : Own(h, T, i) => a[T][s] >= i
    <3>1. SectionOK(disk[s]) /\ FromHistory(h, disk[s]) /\ TermsBounded(disk[s])
          BY Sections DEF CommitInv, CommitsChosen
    <3> QED BY <1>11, <1>12, <2>2, <2>3, <2>4, <3>1, AckedBelow
  <2> QED BY <1>1, <1>11, <2>2, <2>3, <2>4, <2>5 DEF MatchOK
<1> QED BY <1>2, <1>4, <1>5, <1>6, <1>8, <1>11, <1>13, <1>14

\* What a leader believes comes from such confirmations.
LEMMA TakesMatches ==
    ASSUME TypeInv, VoteInv, MembershipIsCurrent, NEW h \in Histories, LogInv(h),
           NEW a \in Acks, CommitInv(h, a), NEW s \in Server, NEW M, NEW X, NEW r,
           Takes(s, M, X, r), r.node.role = Leader
    PROVE  /\ r.node.term \in Terms
           /\ \A f \in Server \ {s} :
                /\ r.node.matchIndex[f] \in Nat
                /\ MatchOK(h, a, r.node.term, f, r.node.matchIndex[f])
<1>1. PICK n : n = node[s]
      OBVIOUS
<1>2. PICK k : k = r.node
      OBVIOUS
<1>3. NodeInv(n) /\ NodeInv(k) /\ k.id = s
      BY <1>1, <1>2, TakesFrom
<1>4. k.term \in Terms
      BY <1>2, <1>3, LeaderTerm DEF Leader, Follower
<1>5. ASSUME NEW f \in Server \ {s} PROVE k.matchIndex[f] \in Nat /\ MatchOK(h, a, k.term, f, k.matchIndex[f])
  <2>1. k.matchIndex[f] \in Nat
    <3>1. k.matchIndex[f] \in 0..MaxIndex /\ MaxIndex \in Nat
          BY <1>3, ConstantsType DEF NodeInv, NodeOK
    <3> QED BY <3>1
  <2>2. CASE k.matchIndex[f] = 0
    <3>1. Len(h.full[k.term]) \in Nat
          BY <1>4 DEF Histories
    <3> QED BY <2>2, <3>1 DEF MatchOK
  <2>3. CASE n.role = Leader /\ k.term = n.term /\ k.matchIndex[f] = n.matchIndex[f]
    <3>1. MatchOK(h, a, n.term, f, n.matchIndex[f])
          BY <1>1, <2>3 DEF CommitInv, MatchesAcked
    <3> QED BY <2>1, <2>3, <3>1
  <2>4. ASSUME n.role = Leader, k.term = n.term, NEW m \in M, Confirms(m), m.from = f,
               m.term = k.term, k.matchIndex[f] = minimum(m.matchIndex, lastIndex(n))
        PROVE  MatchOK(h, a, k.term, f, k.matchIndex[f])
    <3>1. m \in net /\ MessageOK(m)
          BY DEF Takes, TypeInv, TypeOK
    <3>2. MatchOK(h, a, k.term, f, m.matchIndex)
          BY <2>4, <3>1 DEF CommitInv, MatchesAcked
    <3>3. lastIndex(n) = Len(h.full[n.term])
          BY <1>1, <2>4, IdleLog DEF Takes
    <3>4. k.matchIndex[f] = m.matchIndex
      <4>1. m.matchIndex <= Len(h.full[k.term])
            BY <3>2 DEF MatchOK
      <4> QED BY <2>4, <3>3, <4>1 DEF minimum
    <3> QED BY <3>2, <3>4
  <2>5. MatchCause(n, M, k) /\ k.role = Leader
        BY <1>1, <1>2 DEF Takes, CommitStep
  <2> QED BY <1>3, <2>1, <2>2, <2>3, <2>4, <2>5 DEF MatchCause
<1> QED BY <1>2, <1>4, <1>5

\* A follower that stays in its term keeps what it confirmed there.
LEMMA TakesMatched ==
    ASSUME TypeInv, VoteInv, MembershipIsCurrent, NEW h \in Histories, LogInv(h),
           NEW a \in Acks, CommitInv(h, a), NEW s \in Server, NEW M, NEW X, NEW r,
           Takes(s, M, X, r), NEW T \in Terms, NEW j \in Nat, j > 0, MatchOK(h, a, T, s, j),
           r.node.term = T
    PROVE  Includes(h, r.node, j, h.full[T][j].term)
<1>1. /\ disk[s].term = node[s].term /\ node[s].term <= r.node.term
      /\ node[s].term \in Nat /\ r.node.term \in Nat
      BY TakesFrom
<1>2. disk[s].term >= T /\ j <= Len(h.full[T])
      BY DEF MatchOK
<1>3. node[s].term = T
      BY <1>1, <1>2
<1>4. PICK e : e = h.full[T][j].term
      OBVIOUS
<1>5. Includes(h, node[s], j, e)
      BY <1>3, <1>4 DEF MatchOK
<1> QED BY <1>2, <1>4, <1>5, TakesKeeps

-----------------------------------------------------------------------------
(* Submit: the commit index.                                               *)

\* Terms grow along a section, so its last one bounds them.
LEMMA BoundedByLast ==
    ASSUME NEW h \in Histories, HistoriesAgree(h), HistoryTerms(h), NEW d, SectionOK(d),
           NEW u \in Terms, Within(d, h.full[u]), NEW T \in Nat, d.term = T,
           lastIndex(d) > 0 => lastTerm(d) <= T
    PROVE  TermsBounded(d)
<1>1. PICK l \in Nat : l = lastIndex(d)
      BY SectionAt
<1>2. PICK b \in Nat : b = d.snap.index
      BY SectionAt
<1> SUFFICES ASSUME NEW i \in b..l PROVE termAt(d, i) <= T
    BY <1>1, <1>2 DEF TermsBounded
<1>3. i \in Nat /\ i <= l /\ b <= i
      BY <1>1, <1>2
<1>4. CASE i = 0
      BY <1>4 DEF termAt
<1>5. CASE i > 0
  <2>1. l > 0 /\ l <= Len(h.full[u]) /\ lastTerm(d) = h.full[u][l].term
        BY <1>1, <1>3, <1>5, LastTermWithin
  <2>2. h.full[u] \in Seq(Entry)
        BY DEF Histories
  <2>3. termAt(d, i) = h.full[u][i].term
        BY <1>1, <1>2, <1>3, <1>5, <2>2, WithinAt
  <2>4. /\ h.full[u][i].term <= h.full[u][l].term
        /\ h.full[u][i].term \in Terms /\ h.full[u][l].term \in Terms
        BY <1>3, <1>5, <2>1, TermsOrdered
  <2>5. PICK x \in Nat : x = h.full[u][i].term
        BY <2>4 DEF Terms
  <2>6. PICK y \in Nat : y = h.full[u][l].term
        BY <2>4 DEF Terms
  <2>7. x <= y /\ y <= T
        BY <1>1, <2>1, <2>4, <2>5, <2>6
  <2>8. x <= T
        BY <2>7
  <2> QED BY <2>3, <2>5, <2>8
<1> QED BY <1>3, <1>4, <1>5

\* A section of the history of T reaches no later term.
LEMMA BoundedWithin ==
    ASSUME NEW h \in Histories, HistoriesAgree(h), HistoryTerms(h), NEW d, SectionOK(d),
           NEW T \in Terms, Within(d, h.full[T]), d.term = T
    PROVE  TermsBounded(d)
<1>1. PICK l \in Nat : l = lastIndex(d)
      BY SectionAt
<1>2. T \in Nat
      BY DEF Terms
<1>3. ASSUME l > 0 PROVE lastTerm(d) <= T
  <2>1. PICK m \in Nat : m = Len(h.full[T])
        BY DEF Histories
  <2>2. l <= m /\ lastTerm(d) = h.full[T][l].term
        BY <1>1, <1>3, <2>1, LastTermWithin
  <2>3. h.full[T] # <<>>
        BY <1>3, <2>1, <2>2
  <2>4. h.full[T][m].term = T
        BY <2>1, <2>3 DEF HistoryTerms
  <2>5. h.full[T][l].term <= h.full[T][m].term
        BY <1>3, <2>1, <2>2, TermsOrdered
  <2> QED BY <2>2, <2>4, <2>5
<1> QED BY <1>1, <1>2, <1>3, BoundedByLast

\* The terms of a node's log.
LEMMA TermsOfNode ==
    ASSUME NEW n, NodeInv(n), NEW i \in Nat
    PROVE  termAt(n, i) \in Nat
<1>1. HardStateOK(n) /\ MaxTerm \in Nat
      BY NodeShape, ConstantsType
<1>2. termAt(n, i) \in 0..MaxTerm
      BY <1>1, TermAtType
<1> QED BY <1>1, <1>2

\* An entry of the new term at the end.
LEMMA BoundedAppend ==
    ASSUME NEW n, NodeInv(n), TermsBounded(n), n.term \in Nat,
           NEW e \in Entry, NEW k, k.snap = n.snap, k.log = Append(n.log, e),
           NEW T \in Nat, k.term = T, n.term <= T, e.term = T
    PROVE  TermsBounded(k)
<1>0. SectionOK(n)
      BY SectionTypes
<1>1. PICK b \in Nat : b = n.snap.index
      BY <1>0 DEF SectionOK
<1>2. PICK l \in Nat : l = Len(n.log)
      BY <1>0, SectionAt
<1>3. PICK f \in Seq(Entry) : f = n.log
      BY <1>0 DEF SectionOK
<1>4. /\ Len(k.log) = l + 1 /\ k.log[l + 1] = e /\ \A j \in 1..l : k.log[j] = f[j]
  <2>1. /\ Len(Append(f, e)) = Len(f) + 1 /\ Append(f, e)[Len(f) + 1] = e
        /\ \A i \in 1..Len(f) : Append(f, e)[i] = f[i]
        BY AppendAt
  <2> QED BY <1>2, <1>3, <2>1
<1>5. lastIndex(n) = b + l /\ lastIndex(k) = b + (l + 1) /\ k.snap.index = b
      BY <1>1, <1>2, <1>4 DEF lastIndex
<1> SUFFICES ASSUME NEW i \in b..(b + (l + 1)) PROVE termAt(k, i) <= T
    BY <1>5 DEF TermsBounded
<1>6. i \in Nat /\ b <= i
      BY <1>1
<1>7. CASE i <= b + l
  <2>1. i > b => entryAt(k, i) = entryAt(n, i)
    <3>1. i > b => i - b \in 1..l
          BY <1>6, <1>7
    <3> QED BY <1>1, <1>3, <1>4, <1>5, <3>1 DEF entryAt
  <2>2. termAt(k, i) = termAt(n, i)
    <3>1. entryExists(n, i) <=> i > b
          BY <1>1, <1>5, <1>7 DEF entryExists
    <3>2. entryExists(k, i) <=> i > b
      <4>1. i <= b + (l + 1)
            BY <1>6, <1>7
      <4> QED BY <1>5, <4>1 DEF entryExists
    <3> QED BY <1>1, <1>5, <2>1, <3>1, <3>2 DEF termAt
  <2>3. termAt(n, i) <= n.term
    <3>1. i \in b..(b + l)
          BY <1>6, <1>7
    <3> QED BY <1>1, <1>5, <3>1 DEF TermsBounded
  <2>4. termAt(n, i) \in Nat
        BY <1>6, TermsOfNode
  <2> QED BY <2>2, <2>3, <2>4
<1>8. CASE i = b + (l + 1)
  <2>1. i - b = l + 1 /\ i # 0 /\ i # b /\ i > b
        BY <1>8
  <2>2. entryAt(k, i) = e
        BY <1>4, <1>5, <2>1 DEF entryAt
  <2>3. entryExists(k, i)
        BY <1>5, <1>8, <2>1 DEF entryExists
  <2>4. termAt(k, i) = T
        BY <1>5, <2>1, <2>2, <2>3 DEF termAt
  <2> QED BY <2>4
<1> QED BY <1>6, <1>7, <1>8

\* No transition takes a log beyond the term of its process.
LEMMA TakesTerms ==
    ASSUME TypeInv, VoteInv, MembershipIsCurrent, NEW h \in Histories, LogInv(h),
           NEW a \in Acks, CommitInv(h, a), NEW s \in Server, NEW M, NEW X, NEW r,
           Takes(s, M, X, r)
    PROVE  TermsBounded(r.node)
<1>1. PICK n : n = node[s]
      OBVIOUS
<1>2. PICK k : k = r.node
      OBVIOUS
<1> SUFFICES TermsBounded(k)
    BY <1>2
<1>3. /\ NodeInv(n) /\ SectionOK(n) /\ SectionOK(k) /\ n.term \in Nat /\ k.term \in Nat
      /\ n.term <= k.term /\ FromHistory(h, n) /\ Arrives(h, M)
      BY <1>1, <1>2, TakesFrom
<1>4. TermsBounded(n) /\ HistoriesAgree(h) /\ HistoryTerms(h) /\ LogStep(n, M, r)
      BY <1>1 DEF CommitInv, CommitsChosen, LogInv, Takes
<1>5. PICK u \in Terms : Within(n, h.full[u])
      BY <1>3 DEF FromHistory
<1>7. CASE Quiet(n, k) \/ Stands(n, k)
  <2>1. k.snap = n.snap /\ k.log = n.log
        BY <1>7 DEF Quiet, Stands, SameLog
  <2>2. lastIndex(k) = lastIndex(n) /\ \A i : termAt(k, i) = termAt(n, i)
        BY <2>1, IncludesSame
  <2>0. k.snap.index..lastIndex(k) = n.snap.index..lastIndex(n)
        BY <2>1, <2>2
  <2>3. ASSUME NEW i \in n.snap.index..lastIndex(n) PROVE termAt(n, i) <= k.term
    <3>1. i \in Int /\ n.snap.index <= i
          OBVIOUS
    <3>2. n.snap.index \in Nat
          BY <1>3, SectionAt
    <3>3. i \in Nat
          BY <3>1, <3>2
    <3>4. termAt(n, i) <= n.term /\ termAt(n, i) \in Nat
          BY <1>3, <1>4, <3>3, TermsOfNode DEF TermsBounded
    <3> QED BY <1>3, <3>4
  <2>4. \A i \in k.snap.index..lastIndex(k) : termAt(k, i) <= k.term
        BY <2>0, <2>2, <2>3
  <2> QED BY <2>4 DEF TermsBounded
<1>8. CASE Wins(n, k) \/ Proposes(n, k)
  <2>1. PICK e \in Entry : k.log = Append(n.log, e) /\ e.term = k.term
        BY <1>8 DEF Wins, Proposes, Appends
  <2>2. k.snap = n.snap
        BY <1>8 DEF Wins, Proposes, Appends
  <2>3. PICK T \in Nat : T = k.term
        BY <1>3
  <2>4. e.term = T /\ n.term <= T
        BY <1>3, <2>1, <2>3
  <2> QED BY <1>3, <1>4, <2>1, <2>2, <2>3, <2>4, BoundedAppend
<1>9. ASSUME Part(k, n), lastIndex(k) = lastIndex(n) PROVE TermsBounded(k)
  <2>1. Within(k, h.full[u]) /\ lastTerm(k) = lastTerm(n)
        BY <1>3, <1>4, <1>5, <1>9, PartIncludes
  <2>2. lastTerm(n) <= n.term /\ lastTerm(n) \in Nat
    <3>1. lastIndex(n) \in n.snap.index..lastIndex(n) /\ lastIndex(n) \in Nat
          BY <1>3, SectionAt
    <3> QED BY <1>3, <1>4, <3>1, TermsOfNode DEF TermsBounded, lastTerm
  <2>3. lastTerm(k) <= k.term
        BY <1>3, <2>1, <2>2
  <2> QED BY <1>3, <1>4, <2>1, <2>3, BoundedByLast
<1>10. ASSUME NEW m \in M, k.term = m.term,
              \/ m.type = "AppendEntries" /\ Splices(n, k, carried(m))
              \/ Installs(n, k, m)
       PROVE  TermsBounded(k)
  <2>1. CarriesLog(m)
        BY <1>10 DEF CarriesLog, Installs
  <2>2. PICK v \in Terms : v = m.term
        BY <1>3, <2>1 DEF Arrives
  <2>3. SectionOK(carried(m)) /\ Within(carried(m), h.full[v])
        BY <1>3, <2>1, <2>2 DEF Arrives
  <2>4. CASE Splices(n, k, carried(m))
    <3>1. Within(k, h.full[v])
          BY <1>3, <1>4, <1>5, <2>3, <2>4, SpliceWithin
    <3> QED BY <1>3, <1>4, <1>10, <2>2, <3>1, BoundedWithin
  <2>5. CASE Installs(n, k, m) /\ k.log = <<>>
    <3>1. carried(m).snap = k.snap /\ carried(m).log = k.log
          BY <2>5 DEF carried, Installs
    <3>2. Within(k, h.full[v])
          BY <2>3, <3>1, WithinSame
    <3> QED BY <1>3, <1>4, <1>10, <2>2, <3>2, BoundedWithin
  <2>6. CASE Installs(n, k, m) /\ k.log # <<>>
        BY <1>9, <2>6 DEF Installs
  <2> QED BY <1>10, <2>4, <2>5, <2>6
<1> QED BY <1>2, <1>4, <1>7, <1>8, <1>9, <1>10 DEF LogStep, Compacts

\* The configuration of a log whose entries are all plain.
LEMMA PlainEntries ==
    ASSUME NEW d, SectionOK(d), PlainSnapshot(d.snap),
           \A j \in 1..Len(d.log) : ~isConfig(d.log[j]), NEW i \in Nat
    PROVE  membershipAt(d, i) = InitialMembership
<1>1. PICK b \in Nat : b = d.snap.index
      BY DEF SectionOK
<1>2. PICK length \in Nat : length = Len(d.log)
      BY SectionAt
<1>3. baseMembership(d) = InitialMembership
      BY DEF baseMembership, PlainSnapshot
<1>4. CASE i < b
      BY <1>1, <1>4 DEF membershipAt
<1>5. CASE ~(i < b)
  <2> DEFINE c == minimum(i - d.snap.index, Len(d.log))
  <2>1. c \in Nat /\ c <= length
        BY <1>1, <1>2, <1>5 DEF minimum
  <2>2. membershipAt(d, i) = configAfter(baseMembership(d), d.log, c)
        BY <1>1, <1>5 DEF membershipAt
  <2> HIDE DEF c
  <2>3. {j \in 1..c : isConfig(d.log[j])} = {}
        BY <1>2, <2>1
  <2> QED BY <1>3, <2>2, <2>3 DEF configAfter
<1> QED BY <1>4, <1>5

\* So is that of a log, also of one that is about to begin a history.
LEMMA PlainNode ==
    ASSUME NEW h \in Histories, PlainHistory(h), NEW n, NodeInv(n), PlainSnapshot(n.snap),
           \/ FromHistory(h, n)
           \/ /\ n.log # <<>> /\ PlainEntry(n.log[Len(n.log)])
              /\ FromHistory(h, withoutLast(n)),
           NEW i \in Nat
    PROVE  membershipAt(n, i) = InitialMembership
<1>1. SectionOK(n)
      BY SectionTypes
<1>2. CASE FromHistory(h, n)
      BY <1>1, <1>2, PlainLog DEF PlainHistory
<1>3. CASE /\ n.log # <<>> /\ PlainEntry(n.log[Len(n.log)])
           /\ FromHistory(h, withoutLast(n))
  <2>1. PICK t \in Terms : Within(withoutLast(n), h.full[t])
        BY <1>3 DEF FromHistory
  <2>2. PICK b \in Nat : b = n.snap.index
        BY <1>1 DEF SectionOK
  <2>3. PICK f \in Seq(Entry) : f = n.log
        BY <1>1 DEF SectionOK
  <2>4. PICK l \in Nat : l = Len(f) - 1
    <3>1. Len(f) \in Nat /\ Len(f) # 0
          BY <1>3, <2>3
    <3>2. Len(f) - 1 \in Nat
          BY <3>1
    <3> QED BY <3>2
  <2>5. Len(f) = l + 1
        BY <2>3, <2>4
  <2>6. /\ Len(SubSeq(f, 1, l)) = l /\ \A j \in 1..l : SubSeq(f, 1, l)[j] = f[j]
        BY <2>3, <2>5
  <2>7. withoutLast(n).snap = n.snap /\ withoutLast(n).log = SubSeq(f, 1, l)
        BY <2>3, <2>4 DEF withoutLast
  <2>8. \A j \in 1..l : h.full[t][b + j] = f[j]
        BY <2>1, <2>2, <2>6, <2>7 DEF Within
  <2>9. PICK total \in Nat : total = Len(h.full[t])
        BY DEF Histories
  <2>10. b + l <= total
        BY <2>1, <2>2, <2>6, <2>7, <2>9 DEF Within, lastIndex
  <2>11. ASSUME NEW j \in 1..Len(n.log) PROVE ~isConfig(n.log[j])
    <3>1. j \in 1..(l + 1)
          BY <2>3, <2>5
    <3>2. CASE j = l + 1
          BY <1>3, <2>3, <2>5, <3>2 DEF PlainEntry
    <3>3. CASE j # l + 1
      <4>1. j \in 1..l /\ b + j \in 1..total
            BY <2>10, <3>1, <3>3
      <4> QED BY <2>3, <2>8, <2>9, <4>1 DEF PlainHistory, PlainEntry
    <3> QED BY <3>2, <3>3
  <2> QED BY <1>1, <2>11, PlainEntries
<1> QED BY <1>2, <1>3

\* What is chosen up to an index is chosen below it, and later.
LEMMA ChosenBelow ==
    ASSUME NEW h \in Histories, HistoriesAgree(h), NEW a, NEW T \in Nat, NEW c \in Nat, NEW e,
           ChosenUpTo(h, a, T, c, e), NEW u \in Terms, c <= Len(h.full[u]),
           h.full[u][c].term = e, NEW b \in Nat, b > 0, b <= c
    PROVE  ChosenUpTo(h, a, T, b, h.full[u][b].term)
<1>1. PICK t \in Terms : \E i \in 1..Len(h.full[t]) :
        t <= T /\ c <= i /\ Own(h, t, i) /\ Chosen(a, t, i) /\ h.full[t][c].term = e
      BY DEF ChosenUpTo
<1>2. PICK i \in 1..Len(h.full[t]) :
        t <= T /\ c <= i /\ Own(h, t, i) /\ Chosen(a, t, i) /\ h.full[t][c].term = e
      BY <1>1
<1>3. Len(h.full[t]) \in Nat /\ i \in Nat /\ c > 0 /\ b \in 1..c
      BY <1>2 DEF Histories
<1>4. c <= Len(h.full[t]) /\ b <= i
      BY <1>2, <1>3
<1>5. h.full[t][b] = h.full[u][b]
      BY <1>2, <1>3, <1>4, Matching, SMTT(40)
<1>6. PICK x : x = h.full[u][b].term /\ h.full[t][b].term = x
      BY <1>5
<1>7. ChosenUpTo(h, a, T, b, x)
      BY <1>2, <1>4, <1>6, Zenon DEF ChosenUpTo
<1> QED BY <1>6, <1>7

\* What is chosen up to a term is chosen up to a later one.
LEMMA ChosenLater ==
    ASSUME NEW h, NEW a, NEW T \in Nat, NEW U \in Nat, T <= U, NEW c, NEW e,
           ChosenUpTo(h, a, T, c, e)
    PROVE  ChosenUpTo(h, a, U, c, e)
<1>1. \A t \in Terms : t <= T => t <= U
      BY DEF Terms
<1> QED BY <1>1 DEF ChosenUpTo

\* A leader sends what is chosen.
LEMMA SentCarried ==
    ASSUME NEW h \in Histories, HistoriesAgree(h), NEW a, NEW k, SectionOK(k),
           NEW T \in Terms, k.term = T, Within(k, h.full[T]), k.commit \in Nat,
           CommitInLog(k), Committed(h, a, k),
           NEW m, MessageOK(m), CarriesLog(m), SendsLog(k, m), Part(carried(m), k)
    PROVE  CarriedOK(h, a, m)
<1>1. m.term = T /\ SectionOK(carried(m)) /\ carriedCommit(m) \in Nat /\ T \in Nat
      BY CarriedType DEF SendsLog, Terms
<1>2. PICK l \in Nat : l = lastIndex(k)
      BY SectionAt
<1>3. PICK c \in Nat : c = k.commit
      OBVIOUS
<1>4. PICK b \in Nat : b = k.snap.index
      BY SectionAt
<1>5. b <= c /\ c <= l /\ l <= Len(h.full[T]) /\ Len(h.full[T]) \in Nat
      BY <1>2, <1>3, <1>4, LastTermWithin DEF CommitInLog
<1>6. Within(carried(m), h.full[T])
  <2>1. h.full[T] \in Seq(Entry)
        BY DEF Histories
  <2> QED BY <1>1, <2>1, PartWithin
<1>7. c > 0 => ChosenUpTo(h, a, T, c, h.full[T][c].term)
  <2> SUFFICES ASSUME c > 0 PROVE ChosenUpTo(h, a, T, c, h.full[T][c].term)
      OBVIOUS
  <2>1. PICK e \in Terms : Includes(h, k, c, e) /\ ChosenUpTo(h, a, T, c, e)
        BY <1>3 DEF Committed
  <2>2. h.full[T][c].term = e
        BY <2>1, IncludesWithin
  <2> QED BY <2>1, <2>2
<1>8. CASE m.type = "AppendEntries"
  <2>1. carriedCommit(m) = c /\ lastIndex(carried(m)) = l
        BY <1>2, <1>3, <1>8 DEF SendsLog, carriedCommit
  <2> QED BY <1>1, <1>5, <1>6, <1>7, <2>1 DEF CarriedOK
<1>9. CASE m.type = "InstallSnapshot"
  <2>1. carriedCommit(m) = b
        BY <1>4, <1>9 DEF SendsLog, carriedCommit
  <2>2. carried(m).snap = k.snap /\ carried(m).log = <<>>
        BY <1>9 DEF SendsLog, carried
  <2>3. lastIndex(carried(m)) = b
        BY <1>4, <2>2 DEF lastIndex
  <2>4. b > 0 => ChosenUpTo(h, a, T, b, h.full[T][b].term)
    <3> SUFFICES ASSUME b > 0 PROVE ChosenUpTo(h, a, T, b, h.full[T][b].term)
        OBVIOUS
    <3>1. c > 0 /\ c <= Len(h.full[T])
          BY <1>5
    <3>2. PICK e : e = h.full[T][c].term
          OBVIOUS
    <3>3. ChosenUpTo(h, a, T, c, e)
          BY <1>7, <3>1, <3>2
    <3> QED BY <1>1, <1>5, <3>1, <3>2, <3>3, ChosenBelow
  <2> QED BY <1>1, <1>6, <2>1, <2>3, <2>4 DEF CarriedOK
<1> QED BY <1>8, <1>9 DEF CarriesLog

\* A log that has an entry of a history has all that precedes it.
LEMMA IncludesBelow ==
    ASSUME NEW g \in Histories, HistoriesAgree(g), NEW d, SectionOK(d), FromHistory(g, d),
           NEW T \in Terms, NEW j \in Nat, j <= Len(g.full[T]), Includes(g, d, j, g.full[T][j].term),
           NEW c \in Nat, c > 0, c <= j
    PROVE  Includes(g, d, c, g.full[T][c].term)
<1>1. PICK u \in Terms : Within(d, g.full[u])
      BY DEF FromHistory
<1>2. PICK l \in Nat : l = lastIndex(d)
      BY SectionAt
<1>3. j > 0 /\ c \in 1..j
      OBVIOUS
<1>4. j <= l /\ g.full[u][j].term = g.full[T][j].term
      BY <1>1, <1>2, <1>3, IncludesWithin
<1>5. j <= Len(g.full[u])
  <2>1. l <= Len(g.full[u]) /\ Len(g.full[u]) \in Nat
        BY <1>1, <1>2, LastTermWithin
  <2> QED BY <1>4, <2>1
<1>6. g.full[u][c] = g.full[T][c]
      BY <1>3, <1>4, <1>5, Matching
<1>7. c <= lastIndex(d)
      BY <1>2, <1>4
<1> QED BY <1>1, <1>6, <1>7, IncludesWithin

\* A transition that keeps the commit index keeps what it commits.
LEMMA TakesCommitted ==
    ASSUME TypeInv, VoteInv, MembershipIsCurrent, NEW h \in Histories, LogInv(h),
           NEW a \in Acks, CommitInv(h, a), NEW s \in Server, NEW M, NEW X, NEW r,
           Takes(s, M, X, r), r.node.commit = node[s].commit
    PROVE  Committed(h, a, r.node) /\ r.node.commit <= lastIndex(r.node)
<1>1. PICK n : n = node[s]
      OBVIOUS
<1>2. PICK k : k = r.node
      OBVIOUS
<1>3. PICK c \in Nat : c = n.commit
      BY <1>1, TakesFrom
<1>4. k.commit = c
      BY <1>1, <1>2, <1>3
<1>5. /\ n.term \in Nat /\ k.term \in Nat /\ n.term <= k.term /\ Committed(h, a, n)
      /\ SectionOK(k)
      BY <1>1, <1>2, TakesFrom
<1>6. HistoriesAgree(h) /\ LaterHolds(h, a)
      BY DEF LogInv, CommitInv
<1>7. CASE c = 0
      BY <1>2, <1>4, <1>5, <1>7, SectionAt DEF Committed
<1>8. CASE c > 0
  <2>1. PICK e \in Terms : Includes(h, n, c, e) /\ ChosenUpTo(h, a, n.term, c, e)
        BY <1>3, <1>5, <1>8 DEF Committed
  <2>2. ASSUME k.term \in Terms, h.full[k.term] # <<>>
        PROVE  c <= Len(h.full[k.term]) /\ h.full[k.term][c].term = e
        BY <1>5, <1>6, <1>8, <2>1, <2>2, ChosenInLater
  <2>3. Includes(h, k, c, e)
        BY <1>1, <1>2, <1>8, <2>1, <2>2, TakesKeeps
  <2>4. ChosenUpTo(h, a, k.term, c, e)
        BY <1>5, <2>1, ChosenLater
  <2>5. c <= lastIndex(k)
        BY <2>3 DEF Includes
  <2> QED BY <1>2, <1>4, <2>3, <2>4, <2>5 DEF Committed
<1> QED BY <1>7, <1>8

\* A follower learns a commit index with the entries it commits.
LEMMA TakesLearned ==
    ASSUME TypeInv, VoteInv, MembershipIsCurrent, NEW h \in Histories, LogInv(h),
           NEW a \in Acks, CommitInv(h, a), NEW s \in Server, NEW M, NEW X, NEW r,
           Takes(s, M, X, r),
           NEW g \in Histories, HistoriesAgree(g), Continues(h, g), FromHistory(g, r.node),
           NEW m \in M, Follows(r.node, m), Took(r.node, carried(m)),
           node[s].commit < carriedCommit(m),
           r.node.commit = minimum(carriedCommit(m), lastIndex(r.node))
    PROVE  Committed(h, a, r.node) /\ r.node.commit <= lastIndex(r.node)
           /\ node[s].commit <= r.node.commit
<1>1. PICK k : k = r.node
      OBVIOUS
<1>2. SectionOK(k) /\ Anchored(h, k) /\ node[s].commit \in Nat /\ HistoriesAgree(h)
      BY <1>1, TakesFrom DEF LogInv
<1>3. m \in net /\ CarriesLog(m) /\ MessageOK(m) /\ CarriedOK(h, a, m)
  <2>1. m \in net /\ CarriesLog(m)
        BY DEF Takes, Follows
  <2> QED BY <2>1 DEF TypeInv, TypeOK, CommitInv, CommitsChosen
<1>4. PICK T \in Terms : T = m.term
      BY <1>3, CarriedType
<1>5. k.term = T
      BY <1>1, <1>4 DEF Follows
<1>6. PICK c \in Nat : c = carriedCommit(m)
      BY <1>3, CarriedType
<1>7. SectionOK(carried(m)) /\ Within(carried(m), h.full[T])
      BY <1>3, <1>4, CarriedType DEF CarriedOK
<1>8. PICK j \in Nat : j = lastIndex(carried(m))
      BY <1>7, SectionAt
<1>9. PICK l \in Nat : l = lastIndex(k)
      BY <1>2, SectionAt
<1>10. c <= j /\ j <= l /\ c > 0 /\ j > 0 /\ j <= Len(h.full[T]) /\ Len(h.full[T]) \in Nat
  <2>1. c <= j /\ j <= l /\ c > 0
        BY <1>1, <1>2, <1>3, <1>6, <1>8, <1>9 DEF CarriedOK, Took
  <2> QED BY <1>7, <1>8, <2>1, LastTermWithin
<1>11. k.commit = c
      BY <1>1, <1>6, <1>9, <1>10 DEF minimum
<1>12. Includes(h, k, j, h.full[T][j].term)
      BY <1>1, <1>2, <1>7, <1>8, <1>10, TookIncludes
<1>13. Includes(h, k, c, h.full[T][c].term)
  <2>1. g.full[T][j] = h.full[T][j] /\ g.full[T][c] = h.full[T][c] /\ j <= Len(g.full[T])
    <3>1. c <= Len(h.full[T])
          BY <1>10
    <3>2. g.full[T][c] = h.full[T][c]
          BY <1>10, <3>1, OwnContinues
    <3>3. g.full[T][j] = h.full[T][j] /\ j <= Len(g.full[T])
          BY <1>10, OwnContinues
    <3> QED BY <3>2, <3>3
  <2>2. Includes(g, k, j, g.full[T][j].term)
        BY <1>2, <1>10, <1>12, <2>1, IncludesContinues
  <2>3. FromHistory(g, k)
        BY <1>1
  <2>4. Includes(g, k, c, g.full[T][c].term)
        BY <1>2, <1>10, <2>1, <2>2, <2>3, IncludesBelow
  <2> QED BY <1>2, <1>10, <2>1, <2>4, IncludesContinues
<1>14. ChosenUpTo(h, a, T, c, h.full[T][c].term)
      BY <1>3, <1>4, <1>6, <1>10 DEF CarriedOK
<1>15. h.full[T][c].term \in Terms
  <2>1. c <= Len(h.full[T])
        BY <1>10
  <2> QED BY <1>2, <1>10, <2>1, HistoryTerm
<1>16. Committed(h, a, k)
      BY <1>5, <1>11, <1>13, <1>14, <1>15 DEF Committed
<1>17. node[s].commit <= c /\ c <= lastIndex(k)
      BY <1>2, <1>6, <1>9, <1>10
<1> QED BY <1>1, <1>11, <1>16, <1>17

\* A leader commits what a quorum has acknowledged, with its own write.
LEMMA TakesAdvances ==
    ASSUME TypeInv, VoteInv, MembershipIsCurrent, NEW h \in Histories, LogInv(h),
           NEW a \in Acks, CommitInv(h, a), NEW s \in Server, NEW M, NEW X, NEW r,
           Takes(s, M, X, r), Advanced(node[s], r.node),
           NEW g \in Histories, Continues(h, g),
           h.full[r.node.term] # <<>> => Within(r.node, g.full[r.node.term]),
           \A i \in Nat : membershipAt(r.node, i) = InitialMembership
    PROVE  \E Q \in SUBSET Server :
                /\ quorum(InitialMembership, Q)
                /\ \A x \in Q \ {s} : a[r.node.term][x] >= r.node.commit
<1>1. PICK k : k = r.node
      OBVIOUS
<1>2. /\ k.role = Leader /\ node[s].commit < k.commit /\ entryExists(k, k.commit)
      /\ termAt(k, k.commit) = k.term
      /\ quorum(membershipAt(k, k.commit), {f \in Server : k.matchIndex[f] >= k.commit})
      BY <1>1 DEF Advanced
<1>3. PICK T \in Terms : T = k.term
      BY <1>1, <1>2, TakesMatches
<1>4. PICK c \in Nat : c = k.commit
      BY <1>1, TakesFrom
<1>5. PICK Q \in SUBSET Server : Q = {f \in Server : k.matchIndex[f] >= k.commit}
      OBVIOUS
<1>6. quorum(InitialMembership, Q)
      BY <1>1, <1>2, <1>4, <1>5
<1>7. c > 0
      BY <1>1, <1>2, <1>4, TakesFrom
<1>8. ASSUME NEW x \in Q \ {s} PROVE a[T][x] >= c
  <2>1. PICK j \in Nat : j = k.matchIndex[x]
        BY <1>1, <1>2, TakesMatches
  <2>2. MatchOK(h, a, T, x, j) /\ j >= c
        BY <1>1, <1>2, <1>3, <1>4, <1>5, <2>1, TakesMatches
  <2>3. j <= Len(h.full[T]) /\ Len(h.full[T]) \in Nat
    <3>1. Len(h.full[T]) \in Nat
          BY DEF Histories
    <3> QED BY <2>2, <3>1 DEF MatchOK
  <2>4. c <= Len(h.full[T]) /\ h.full[T] # <<>> /\ c \in 1..j
        BY <1>7, <2>2, <2>3
  <2>5. Within(k, g.full[T])
        BY <1>1, <1>3, <2>4
  <2>6. termAt(k, c) = g.full[T][c].term
    <3>1. g.full[T] \in Seq(Entry) /\ SectionOK(k)
          BY <1>1, TakesFrom DEF Histories
    <3>2. k.snap.index < c /\ c <= lastIndex(k)
          BY <1>2, <1>4 DEF entryExists
    <3>3. k.snap.index <= c
      <4>1. PICK b \in Nat : b = k.snap.index
            BY <3>1 DEF SectionOK
      <4> QED BY <3>2, <4>1
    <3>4. \A i \in Nat : i > 0 /\ k.snap.index <= i /\ i <= lastIndex(k) =>
                termAt(k, i) = g.full[T][i].term
          BY <2>5, <3>1, WithinAt
    <3> QED BY <1>7, <3>2, <3>3, <3>4
  <2>7. Own(h, T, c)
    <3>1. g.full[T][c] = h.full[T][c]
          BY <1>7, <2>4, OwnContinues
    <3>2. c \in 1..Len(h.full[T])
          BY <1>7, <2>3, <2>4
    <3> QED BY <1>2, <1>3, <1>4, <2>6, <3>1, <3>2 DEF Own
  <2>8. j > 0
        BY <1>7, <2>2
  <2> QED BY <2>2, <2>4, <2>7, <2>8 DEF MatchOK
<1> QED BY <1>1, <1>3, <1>4, <1>6, <1>8

\* Every transition keeps the commit index in the log, and what it commits
\* chosen, or about to be.
LEMMA TakesCommits ==
    ASSUME TypeInv, VoteInv, MembershipIsCurrent, NEW h \in Histories, LogInv(h),
           NEW a \in Acks, CommitInv(h, a), NEW s \in Server, NEW M, NEW X, NEW r,
           Takes(s, M, X, r),
           NEW g \in Histories, HistoriesAgree(g), Continues(h, g),
           r.node.role = Follower => FromHistory(g, r.node),
           r.node.role = Leader /\ h.full[r.node.term] # <<>> => Within(r.node, g.full[r.node.term]),
           \A i \in Nat : membershipAt(r.node, i) = InitialMembership
    PROVE  /\ CommitInLog(r.node) /\ node[s].commit <= r.node.commit
           /\ \/ Committed(h, a, r.node)
              \/ /\ r.dirty /\ Advanced(node[s], r.node)
                 /\ \E Q \in SUBSET Server :
                        /\ quorum(InitialMembership, Q)
                        /\ \A x \in Q \ {s} : a[r.node.term][x] >= r.node.commit
<1>1. PICK n : n = node[s]
      OBVIOUS
<1>2. PICK k : k = r.node
      OBVIOUS
<1>3. /\ SectionOK(k) /\ SectionOK(n) /\ n.commit \in Nat /\ k.commit \in Nat /\ CommitInLog(n)
      BY <1>1, <1>2, TakesFrom
<1>4. Delivers(n, k, r.effects) /\ CommitCause(n, M, r)
      BY <1>1, <1>2 DEF Takes, CommitStep
<1>5. ASSUME n.commit <= k.commit, k.commit <= lastIndex(k) PROVE CommitInLog(k)
  <2>1. CASE k.snap # n.snap
        BY <1>4, <1>5, <2>1 DEF Delivers, CommitInLog
  <2>2. CASE k.snap = n.snap
    <3>1. n.snap.index \in Nat /\ n.snap.index <= n.commit
          BY <1>3, SectionAt DEF CommitInLog
    <3>2. k.snap.index <= k.commit
          BY <1>3, <1>5, <2>2, <3>1
    <3> QED BY <1>5, <3>2 DEF CommitInLog
  <2> QED BY <2>1, <2>2
<1>6. CASE k.commit = n.commit
  <2>1. Committed(h, a, k) /\ k.commit <= lastIndex(k)
        BY <1>1, <1>2, <1>6, TakesCommitted
  <2>2. n.commit <= k.commit
        BY <1>3, <1>6
  <2> QED BY <1>1, <1>2, <1>5, <2>1, <2>2
<1>7. CASE r.dirty /\ Advanced(n, k)
  <2>1. n.commit <= k.commit /\ k.role = Leader
        BY <1>3, <1>7 DEF Advanced
  <2>2. k.commit <= lastIndex(k)
        BY <1>7 DEF Advanced, entryExists
  <2>3. \E Q \in SUBSET Server :
                /\ quorum(InitialMembership, Q)
                /\ \A x \in Q \ {s} : a[k.term][x] >= k.commit
    <3>1. h.full[r.node.term] # <<>> => Within(r.node, g.full[r.node.term])
          BY <1>2, <2>1
    <3>2. Advanced(node[s], r.node)
          BY <1>1, <1>2, <1>7
    <3> QED BY <1>2, <3>1, <3>2, TakesAdvances
  <2> QED BY <1>1, <1>2, <1>5, <1>7, <2>1, <2>2, <2>3
<1>8. ASSUME NEW m \in M, Follows(k, m), Took(k, carried(m)), n.commit < carriedCommit(m),
             k.commit = minimum(carriedCommit(m), lastIndex(k))
      PROVE  Committed(h, a, k) /\ CommitInLog(k) /\ n.commit <= k.commit
  <2>1. FromHistory(g, k)
        BY <1>2, <1>8 DEF Follows
  <2>2. Committed(h, a, k) /\ k.commit <= lastIndex(k) /\ n.commit <= k.commit
        BY <1>1, <1>2, <1>8, <2>1, TakesLearned
  <2> QED BY <1>5, <2>2
<1> QED BY <1>1, <1>2, <1>4, <1>6, <1>7, <1>8 DEF CommitCause

-----------------------------------------------------------------------------
(* Submit: the application.                                                *)

\* How far the application is after effects.
LEMMA AppliedAfter ==
    ASSUME NEW st, NEW n, NEW e
    PROVE  applyEffects(st, n, e).applied =
                (IF e.install THEN n.snap.index ELSE st.applied) + Cardinality(e.apply)
BY DEF applyEffects

\* Effects that hand over the entries from base to c take it to c.
LEMMA AppliedTo ==
    ASSUME NEW base \in Nat, NEW c \in Nat, base <= c
    PROVE  base + Cardinality((base + 1)..c) = c
<1>1. Cardinality((base + 1)..c) = IF base + 1 > c THEN 0 ELSE c - (base + 1) + 1
      BY FS_Interval
<1> QED BY <1>1

\* The application of an idle process has what is committed.
LEMMA IdleDelivery ==
    ASSUME TypeInv, NEW s \in Server, Idle(s), DeliveryOK(s)
    PROVE  store[s].applied = node[s].commit /\ node[s].commit \in Nat
<1>1. up[s] /\ pending[s].effects.apply = {} /\ ~pending[s].effects.install
      BY DEF Idle, NoPending, NoEffects
<1>2. PICK b \in Nat : b = store[s].applied
      BY TypeInvAt
<1>3. PICK c \in Nat : c = node[s].commit
      BY TypeInvAt, CommitType
<1>4. {} = (b + 1)..c /\ b <= c
      BY <1>1, <1>2, <1>3 DEF DeliveryOK
<1>5. b = c
  <2>1. b + 1 \notin (b + 1)..c
        BY <1>4
  <2> QED BY <1>4, <2>1
<1> QED BY <1>2, <1>3, <1>5

\* A process that is not touched.
LEMMA DeliveryKept ==
    ASSUME NEW u \in Server, DeliveryOK(u), node'[u] = node[u], pending'[u] = pending[u],
           store'[u] = store[u], up'[u] = up[u], disk'[u] = disk[u]
    PROVE  DeliveryOK(u)'
BY DEF DeliveryOK

\* What a transition hands over continues what the application has.
LEMMA TakesDelivers ==
    ASSUME TypeInv, VoteInv, MembershipIsCurrent, NEW h \in Histories, LogInv(h),
           NEW a \in Acks, CommitInv(h, a), NEW s \in Server, NEW M, NEW X, NEW r,
           Takes(s, M, X, r), node[s].commit <= r.node.commit,
           NEW inFlight, NEW t, Submit(s, r, inFlight, t)
    PROVE  \A u \in Server : DeliveryOK(u)'
<1>1. /\ node' = [node EXCEPT ![s] = r.node] /\ disk' = disk /\ up' = up
      /\ \/ /\ r.dirty /\ store' = store
            /\ pending' = [pending EXCEPT ![s] = [phase |-> "writing", effects |-> r.effects]]
         \/ /\ ~r.dirty /\ pending' = pending
            /\ store' = [store EXCEPT ![s] = applyEffects(@, r.node, r.effects)]
      BY DEF Submit
<1>2. ASSUME NEW u \in Server, u # s PROVE DeliveryOK(u)'
  <2>1. /\ node'[u] = node[u] /\ pending'[u] = pending[u] /\ store'[u] = store[u]
        BY <1>1, <1>2 DEF TypeInv, TypeOK, PerServer
  <2>2. DeliveryOK(u)
        BY DEF CommitInv
  <2> QED BY <1>1, <2>1, <2>2, DeliveryKept
<1>3. DeliveryOK(s)'
  <2>1. PICK n : n = node[s]
        OBVIOUS
  <2>2. PICK k : k = r.node
        OBVIOUS
  <2>3. PICK e : e = r.effects
        OBVIOUS
  <2>4. Idle(s) /\ DeliveryOK(s)
        BY DEF Takes, CommitInv
  <2>5. PICK c \in Nat : c = n.commit
        BY <2>1, <2>4, IdleDelivery
  <2>6. PICK d \in Nat : d = k.commit
        BY <2>2, TakesFrom
  <2>7. store[s].applied = c /\ c <= d
        BY <2>1, <2>2, <2>4, <2>5, <2>6, IdleDelivery
  <2>8. PICK b \in Nat : b = n.snap.index
        BY <2>1, TakesFrom, SectionAt
  <2>9. PICK p \in Nat : p = k.snap.index
        BY <2>2, TakesFrom, SectionAt
  <2>10. b <= c /\ up[s] /\ disk[s].commit = c /\ disk[s].snap.index = b
        BY <2>1, <2>4, <2>5, <2>8, TakesFrom DEF CommitInLog, Idle
  <2>11. Delivers(n, k, e) /\ CommitCause(n, M, r)
        BY <2>1, <2>2, <2>3 DEF Takes, CommitStep
  <2>12. b <= p /\ k.applied = d
    <3>1. k.snap # n.snap => b < p \/ c < p
          BY <2>5, <2>8, <2>9, <2>11 DEF Delivers
    <3> QED BY <2>5, <2>6, <2>7, <2>8, <2>9, <2>10, <2>11, <3>1 DEF Delivers
  <2>13. /\ e.install => e.apply = {} /\ d = p /\ c < d
         /\ ~e.install => e.apply = (c + 1)..d
        BY <2>5, <2>6, <2>9, <2>11 DEF Delivers
  <2>14. node'[s] = k /\ up'[s] /\ disk'[s].commit = c /\ disk'[s].snap.index = b
        BY <1>1, <2>2, <2>10 DEF TypeInv, TypeOK, PerServer
  <2>15. CASE r.dirty
    <3>1. pending'[s].effects = e /\ store'[s].applied = c
      <4>1. store' = store
            BY <1>1, <2>15
      <4>2. pending' = [pending EXCEPT ![s] = [phase |-> "writing", effects |-> e]]
            BY <1>1, <2>3, <2>15
      <4> QED BY <2>7, <4>1, <4>2 DEF TypeInv, TypeOK, PerServer
    <3>2. CASE e.install
      <4>0. (p + 1)..p = {}
            OBVIOUS
      <4>1. e.apply = (p + 1)..d /\ c <= p /\ p <= d
        <5>1. e.apply = {} /\ d = p /\ c < d
              BY <2>13, <3>2
        <5>2. c <= p /\ p <= d
              BY <5>1
        <5> QED BY <4>0, <5>1, <5>2
      <4> QED BY <2>6, <2>7, <2>9, <2>12, <2>14, <3>1, <3>2, <4>1 DEF DeliveryOK
    <3>3. CASE ~e.install
      <4>1. e.apply = (c + 1)..d
            BY <2>13, <3>3
      <4> QED BY <2>6, <2>7, <2>9, <2>12, <2>14, <3>1, <3>3, <4>1 DEF DeliveryOK
    <3> QED BY <3>2, <3>3
  <2>16. CASE ~r.dirty
    <3>1. d = c /\ p = b
          BY <2>1, <2>2, <2>5, <2>6, <2>8, <2>9, <2>11, <2>16 DEF CommitCause
    <3>2. ~e.install /\ e.apply = (c + 1)..c
          BY <2>13, <3>1
    <3>3. store'[s] = applyEffects(store[s], k, e) /\ pending'[s] = pending[s]
          BY <1>1, <2>2, <2>3, <2>16 DEF TypeInv, TypeOK, PerServer
    <3>4. store'[s].applied = c
      <4>1. applyEffects(store[s], k, e).applied = c + Cardinality((c + 1)..c)
        <5>1. applyEffects(store[s], k, e).applied =
                (IF e.install THEN k.snap.index ELSE store[s].applied) + Cardinality(e.apply)
              BY AppliedAfter
        <5> QED BY <2>7, <3>2, <5>1
      <4>2. c + Cardinality((c + 1)..c) = c
            BY AppliedTo
      <4> QED BY <3>3, <4>1, <4>2
    <3>5. ~pending'[s].effects.install /\ pending'[s].effects.apply = (c + 1)..c
      <4>1. (c + 1)..c = {}
            OBVIOUS
      <4>2. ~pending[s].effects.install /\ pending[s].effects.apply = {}
            BY <2>4 DEF Idle, NoPending, NoEffects
      <4> QED BY <3>3, <4>1, <4>2
    <3>6. c <= c /\ b <= b
          OBVIOUS
    <3> QED BY <2>6, <2>9, <2>12, <2>14, <3>1, <3>4, <3>5, <3>6 DEF DeliveryOK
  <2> QED BY <2>15, <2>16
<1> QED BY <1>2, <1>3

-----------------------------------------------------------------------------
(* Submit: everything.                                                     *)

\* What the histories say of a process after a step.
LEMMA LeadsAfter ==
    ASSUME NEW g \in Histories, LogInv(g)', NEW s \in Server, NEW n, node'[s] = n, NodeInv(n)
    PROVE  /\ n.role # Leader => FromHistory(g, n)
           /\ n.role = Leader =>
                /\ n.term \in Terms /\ n.electionMembership = InitialMembership
                /\ \/ g.full[n.term] = <<>> /\ pending'[s].phase = "writing"
                   \/ /\ g.full[n.term] # <<>> /\ lastIndex(n) = Len(g.full[n.term])
                      /\ Within(n, g.full[n.term]) /\ FromHistory(g, n)
           /\ \A i \in Nat : membershipAt(n, i) = InitialMembership
           /\ HistoriesAgree(g)
<1>1. /\ (~Unborn(g, s))' => FromHistory(g, n)
      /\ n.role = Leader => LeaderLogOK(g, s)'
      /\ PlainHistory(g) /\ PlainSnapshot(n.snap) /\ HistoriesAgree(g)
      /\ n.role = Leader => n.electionMembership = InitialMembership
  <2>1. /\ (~Unborn(g, s))' => FromHistory(g, n)
        /\ n.role = Leader => LeaderLogOK(g, s)'
        BY DEF LogInv, LogsFromHistory
  <2>2. PlainHistory(g) /\ PlainSnapshot(n.snap) /\ HistoriesAgree(g)
        BY DEF LogInv, ConfigurationIsFixed, PlainHistory, HistoriesAgree
  <2>3. n.role = Leader => n.electionMembership = InitialMembership
        BY DEF LogInv, ConfigurationIsFixed
  <2> QED BY <2>1, <2>2, <2>3
<1>2. n.role = Leader => n.term \in Terms
      BY LeaderTerm DEF Leader, Follower
<1>3. CASE Unborn(g, s)'
  <2>1. n.role = Leader /\ g.full[n.term] = <<>>
        BY <1>3 DEF Unborn
  <2>2. /\ pending'[s].phase = "writing" /\ n.log # <<>> /\ PlainEntry(n.log[Len(n.log)])
        /\ FromHistory(g, withoutLast(n))
        BY <1>1, <2>1 DEF LeaderLogOK
  <2>3. \A i \in Nat : membershipAt(n, i) = InitialMembership
        BY <1>1, <2>2, PlainNode
  <2> QED BY <1>1, <1>2, <2>1, <2>2, <2>3
<1>4. CASE (~Unborn(g, s))'
  <2>1. FromHistory(g, n)
        BY <1>1, <1>4
  <2>2. \A i \in Nat : membershipAt(n, i) = InitialMembership
        BY <1>1, <2>1, PlainNode
  <2>3. n.role = Leader => /\ g.full[n.term] # <<>> /\ Within(n, g.full[n.term])
                           /\ lastIndex(n) = Len(g.full[n.term])
        BY <1>1, <1>4 DEF Unborn, LeaderLogOK
  <2> QED BY <1>1, <1>2, <2>1, <2>2, <2>3
<1> QED BY <1>3, <1>4

\* Cluster.submit keeps the invariant.
LEMMA SubmitCommits ==
    ASSUME TypeInv, TypeInv', VoteInv, VoteInv', MembershipIsCurrent,
           NEW h \in Histories, LogInv(h), NEW a \in Acks, CommitInv(h, a),
           NEW s \in Server, NEW M, NEW X, NEW r, Takes(s, M, X, r),
           NEW g \in Histories, LogInv(g)', HistoryStep(h, g, s),
           NEW inFlight \in SUBSET net, NEW t, Submit(s, r, inFlight, t)
    PROVE  CommitInv(g, a)'
<1>1. PICK n : n = node[s]
      OBVIOUS
<1>2. PICK k : k = r.node
      OBVIOUS
<1>3. /\ NodeInv(k) /\ SectionOK(k) /\ Anchored(h, k) /\ n.term \in Nat /\ k.term \in Nat
      /\ disk[s].term = n.term /\ n.term <= k.term /\ n.commit \in Nat /\ k.commit \in Nat
      /\ disk[s].log = n.log /\ disk[s].snap = n.snap /\ disk[s].commit = n.commit
      /\ n.id = s /\ k.id = s /\ AcksHeld(h, a, s, k)
      BY <1>1, <1>2, TakesFrom, TakesAcks
<1>4. /\ node' = [node EXCEPT ![s] = k] /\ disk' = disk
      /\ \/ /\ r.dirty /\ net' = inFlight
            /\ pending' = [pending EXCEPT ![s] = [phase |-> "writing", effects |-> r.effects]]
         \/ ~r.dirty /\ pending' = pending /\ net' \subseteq inFlight \cup r.effects.send
      BY <1>2 DEF Submit, Send
<1>5. node'[s] = k /\ Moves(s, k)
      BY <1>4 DEF Moves, TypeInv, TypeOK, PerServer
<1>6. PICK N : N = {m \in r.effects.send : ~r.dirty}
      OBVIOUS
<1>7. PICK P : P = {m \in r.effects.send : r.dirty}
      OBVIOUS
<1>8. /\ net' \subseteq net \cup N /\ pending'[s].effects.send \subseteq P
      /\ r.dirty => pending'[s].phase = "writing"
      /\ ~r.dirty => pending'[s].phase # "writing"
  <2>1. pending[s].effects.send = {} /\ pending[s].phase # "writing"
        BY DEF Takes, Idle, NoPending, NoEffects
  <2>2. CASE r.dirty
    <3>1. pending'[s] = [phase |-> "writing", effects |-> r.effects] /\ net' \subseteq net
          BY <1>4, <2>2 DEF TypeInv, TypeOK, PerServer
    <3> QED BY <1>7, <2>2, <3>1
  <2>3. CASE ~r.dirty
        BY <1>4, <1>6, <2>1, <2>3
  <2> QED BY <2>2, <2>3
<1>9. /\ HistoryTerms(h) /\ AcksOK(h, a) /\ LaterHolds(h, a) /\ VotesCovered(h, a)
      /\ MatchesAcked(h, a) /\ CommitsChosen(h, a) /\ HistoriesAgree(h)
      /\ \A x \in Server : AcksHeld(h, a, x, disk[x]) /\ AcksHeld(h, a, x, node[x])
      BY DEF CommitInv, LogInv
<1>10. /\ k.role # Leader => FromHistory(g, k)
       /\ k.role = Leader =>
                /\ k.term \in Terms /\ k.electionMembership = InitialMembership
                /\ \/ g.full[k.term] = <<>> /\ pending'[s].phase = "writing"
                   \/ /\ g.full[k.term] # <<>>
                      /\ Within(k, g.full[k.term]) /\ FromHistory(g, k)
       /\ \A i \in Nat : membershipAt(k, i) = InitialMembership
       /\ HistoriesAgree(g)
      BY <1>3, <1>5, LeadsAfter
<1>11. Continues(h, g) /\ HistoryTerms(g) /\ \A T \in Terms : g.full[T] = <<>> <=> h.full[T] = <<>>
      BY <1>9, HistoryTermsStep, HistoryStepBorn, ZenonT(40) DEF HistoryStep
<1>12. AcksOK(g, a)' /\ \A x \in Server : AcksHeld(g, a, x, disk[x])' /\ AcksHeld(g, a, x, node[x])'
  <2>1. SectionOK(k) /\ Anchored(h, k) /\ AcksHeld(h, a, s, k) /\ Moves(s, k) /\ AcksOK(h, a)
        BY <1>3, <1>5, <1>9
  <2>2. \A x \in Server : AcksHeld(h, a, x, disk[x]) /\ AcksHeld(h, a, x, node[x])
        BY <1>9
  <2> QED BY <2>1, <2>2, AcksStep
<1>13. LaterHolds(g, a)'
  <2>1. ASSUME Unborn(g, s)', NEW T \in Terms, NEW i \in 1..Len(h.full[T]),
               T < k.term, Own(h, T, i),
               Choosable(a, [durableTerms EXCEPT ![s] = k.term], T, i)
        PROVE  Includes(h, k, i, T)
    <3>1. k.role = Leader /\ g.full[k.term] = <<>>
          BY <1>5, <2>1 DEF Unborn
    <3>2. h.full[k.term] = <<>> /\ k.electionMembership = InitialMembership
          BY <1>10, <1>11, <3>1
    <3> QED BY <1>2, <2>1, <3>1, <3>2, TakesWins
  <2> QED BY <1>3, <1>5, <1>9, <2>1, LaterStep
<1>14. VotesCovered(g, a)'
  <2>1. /\ k.role = Candidate /\ k.term <= disk[s].term => SameStand(node[s], k)
        /\ k.role = Candidate => \A x \in k.votes \ {s} :
                k.term <= disk[s].term /\ Voted(x, s, k.term)
        BY <1>2, TakesStand
  <2>2. ASSUME NEW m \in N \cup P
        PROVE  /\ Grant(m) => m.from = s /\ m.to \in Server \ {s} /\ GrantOK(h, a, s, m)
               /\ Asks(m) => /\ m.from = s /\ m.to \in Server \ {s} /\ m.term <= k.term
                             /\ m.lastLogIndex = lastIndex(k) /\ m.lastLogTerm = lastTerm(k)
                             /\ r.dirty
    <3>1. m \in r.effects.send
          BY <1>6, <1>7
    <3>2. Grant(m) => m.from = s /\ m.to \in Server \ {s} /\ GrantOK(h, a, s, m)
      <4>1. r.node.role = Follower => FromHistory(g, r.node)
            BY <1>2, <1>10 DEF Leader, Follower
      <4> QED BY <1>10, <1>11, <3>1, <4>1, TakesGrants
    <3>3. m.from = s /\ MessageOK(m)
          BY <1>1, <1>3, <3>1 DEF Takes, StepInv, SendsOK, MessageInv
    <3>4. m.to \in Server \ {s}
          BY <3>3 DEF MessageOK
    <3>5. SendCause(n, M, k, r.dirty, m)
          BY <1>1, <1>2, <3>1 DEF Takes, CommitStep
    <3>6. Asks(m) => /\ m.term = k.term /\ r.dirty
                     /\ m.lastLogIndex = lastIndex(k) /\ m.lastLogTerm = lastTerm(k)
          BY <3>5 DEF SendCause
    <3>7. Asks(m) => m.term <= k.term
          BY <1>3, <3>6
    <3> QED BY <3>2, <3>3, <3>4, <3>6, <3>7
  <2>3. \A m \in N : ~Asks(m)
        BY <1>6, <2>2
  <2>4. disk[s].term <= k.term
        BY <1>3
  <2>5. /\ \A m \in N \cup P : Grant(m) \/ Asks(m) => m.from = s /\ m.to \in Server \ {s}
        /\ \A m \in N \cup P : Grant(m) => GrantOK(h, a, s, m)
        /\ \A m \in N \cup P : Asks(m) =>
                /\ m.term <= k.term
                /\ k.role = Candidate /\ k.term = m.term =>
                        m.lastLogIndex = lastIndex(k) /\ m.lastLogTerm = lastTerm(k)
        /\ \A m \in N : Asks(m) => m.term <= disk[s].term
        BY <2>2, <2>3
  <2>6. k.term \in Nat /\ Moves(s, k) /\ AcksOK(h, a) /\ VotesCovered(h, a)
        BY <1>3, <1>5, <1>9
  <2>7. net' \subseteq net \cup N /\ pending'[s].effects.send \subseteq P
        BY <1>8
  <2> QED BY <2>1, <2>4, <2>5, <2>6, <2>7, VotesStep
<1>15. MatchesAcked(g, a)'
  <2>1. \A T \in Terms : \A j \in Nat : j > 0 /\ MatchOK(h, a, T, s, j) /\ k.term = T =>
                Includes(h, k, j, h.full[T][j].term)
        BY <1>2, TakesMatched
  <2>2. k.role = Leader => /\ k.term \in Terms
                           /\ \A f \in Server \ {s} :
                                    /\ k.matchIndex[f] \in Nat
                                    /\ MatchOK(h, a, k.term, f, k.matchIndex[f])
        BY <1>2, TakesMatches
  <2>3. \A m \in N \cup P : MessageOK(m)
        BY <1>6, <1>7 DEF Takes, StepInv, SendsOK, MessageInv
  <2>4. \A m \in N : Confirms(m) => MatchOK(h, a, m.term, m.from, m.matchIndex)
        BY <1>6, TakesConfirms
  <2>5. \A m \in P : Confirms(m) =>
                /\ m.from = s /\ m.term = k.term /\ m.matchIndex <= Len(h.full[m.term])
                /\ m.matchIndex > 0 =>
                        Includes(h, k, m.matchIndex, h.full[m.term][m.matchIndex].term)
        BY <1>2, <1>7, TakesConfirms
  <2>6. SectionOK(k) /\ Anchored(h, k) /\ Moves(s, k) /\ MatchesAcked(h, a)
        BY <1>3, <1>5, <1>9
  <2>7. net' \subseteq net \cup N /\ pending'[s].effects.send \subseteq P
        BY <1>8
  <2> QED BY <2>1, <2>2, <2>3, <2>4, <2>5, <2>6, <2>7, MatchesStep, Zenon
<1>16. /\ CommitInLog(k) /\ n.commit <= k.commit
       /\ \/ Committed(h, a, k)
          \/ /\ r.dirty /\ Advanced(n, k)
             /\ \E Q \in SUBSET Server :
                        /\ quorum(InitialMembership, Q)
                        /\ \A x \in Q \ {s} : a[k.term][x] >= k.commit
  <2>1. r.node.role = Follower => FromHistory(g, r.node)
        BY <1>2, <1>10 DEF Leader, Follower
  <2>2. r.node.role = Leader /\ h.full[r.node.term] # <<>> => Within(r.node, g.full[r.node.term])
        BY <1>2, <1>10, <1>11
  <2>3. \A i \in Nat : membershipAt(r.node, i) = InitialMembership
        BY <1>2, <1>10
  <2> QED BY <1>1, <1>2, <1>10, <1>11, <2>1, <2>2, <2>3, TakesCommits
<1>17. CommitsChosen(g, a)'
  <2>1. TermsBounded(k)
        BY <1>2, TakesTerms
  <2>2. Committed(h, a, k) \/ CommitsOwn(a, s)'
        BY <1>5, <1>8, <1>16 DEF CommitsOwn, Advanced
  <2>3. pending'[s].phase # "writing" =>
                disk[s].log = k.log /\ disk[s].snap = k.snap /\ disk[s].commit = k.commit
        BY <1>1, <1>2, <1>3, <1>8 DEF Takes, CommitStep, CommitCause
  <2>4. \A m \in r.effects.send : CarriesLog(m) => SendsLog(k, m) /\ Part(carried(m), k)
        BY <1>1, <1>2 DEF Takes, CommitStep, SendCause, LogStep, SendsPart
  <2>5. ASSUME NEW m \in N, CarriesLog(m) PROVE CarriedOK(g, a, m)
    <3>1. ~r.dirty /\ m \in r.effects.send
          BY <1>6
    <3>2. MessageOK(m) /\ SendsLog(k, m) /\ Part(carried(m), k)
          BY <2>4, <2>5, <3>1 DEF Takes, StepInv, SendsOK, MessageInv
    <3>3. Committed(g, a, k)
          BY <1>3, <1>11, <1>16, <3>1, CommittedContinues
    <3>4. PICK T \in Terms : T = k.term
          BY <1>10, <3>2 DEF SendsLog
    <3>5. Within(k, g.full[T])
          BY <1>8, <1>10, <3>1, <3>2, <3>4 DEF SendsLog
    <3> QED BY <1>3, <1>10, <1>16, <2>5, <3>2, <3>3, <3>4, <3>5, SentCarried
  <2>6. \A m \in P : CarriesLog(m) => SendsLog(k, m)
        BY <1>7, <2>4
  <2> QED BY <1>3, <1>5, <1>8, <1>9, <1>16, <2>1, <2>2, <2>3, <2>5, <2>6, CommitsStep
<1>18. \A u \in Server : DeliveryOK(u)'
      BY <1>1, <1>2, <1>16, TakesDelivers
<1>19. HistoryTerms(g)'
      BY <1>11 DEF HistoryTerms
<1> QED BY <1>12, <1>13, <1>14, <1>15, <1>17, <1>18, <1>19 DEF CommitInv
=============================================================================
