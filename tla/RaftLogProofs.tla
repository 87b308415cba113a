--------------------------- MODULE RaftLogProofs ----------------------------
(***************************************************************************)
(* Logs: configurations, one leader per term and matching logs.            *)
(*                                                                         *)
(* First what each handler of raft/node.go does to the log, the snapshot   *)
(* and the cached configuration of its node, and which sections of the log *)
(* the messages it emits carry.  LogStep lists the possible effects; there *)
(* is one lemma per handler, in the order of module RaftNode.  That the    *)
(* cached configuration is current needs no more.                          *)
(*                                                                         *)
(* Then one leader per term and matching logs, for every cluster whose     *)
(* configuration stays the initial one (no membership change is asked for, *)
(* Target = {}).  The inductive invariant is LogInv of module              *)
(* RaftInvariant: there are histories, one per term, of which every log on *)
(* disk, in memory or in flight is a section.                              *)
(***************************************************************************)
EXTENDS RaftElectionProofs

\* k holds the log, the snapshot and the configuration of n.
SameLog(n, k) == k.snap = n.snap /\ k.log = n.log /\ k.membership = n.membership

\* The cached configuration is the one the log prescribes.
Current(n) == n.membership = membershipAt(n, lastIndex(n))

\* Whatever log a message carries is a part of the log of n.
SendsPart(e, n) ==
    \A m \in e.send : CarriesLog(m) =>
        /\ Part(carried(m), n)
        /\ m.type = "InstallSnapshot" => m.snapshot = n.snap

\* A transition that leaves the log alone.
KeepsLog(n, r) == SameLog(n, r.node) /\ SendsPart(r.effects, r.node)

\* What depends on the log only.
LEMMA SameLogAt ==
    ASSUME NEW n, NEW k, SameLog(n, k)
    PROVE  /\ lastIndex(k) = lastIndex(n)
           /\ \A i : termAt(k, i) = termAt(n, i) /\ entryAt(k, i) = entryAt(n, i)
           /\ \A i : membershipAt(k, i) = membershipAt(n, i)
           /\ \A g : Part(g, k) <=> Part(g, n)
           /\ \A e : SendsPart(e, k) <=> SendsPart(e, n)
           /\ Current(k) <=> Current(n)
<1>1. /\ lastIndex(k) = lastIndex(n)
      /\ \A i : entryAt(k, i) = entryAt(n, i)
      /\ \A i : entryExists(k, i) <=> entryExists(n, i)
      BY DEF SameLog, lastIndex, entryAt, entryExists
<1>2. \A i : termAt(k, i) = termAt(n, i)
      BY <1>1 DEF SameLog, termAt
<1>3. \A i : membershipAt(k, i) = membershipAt(n, i)
      BY DEF SameLog, membershipAt, baseMembership
<1>4. \A g : Part(g, k) <=> Part(g, n)
      BY <1>1, <1>2 DEF SameLog, Part
<1>5. \A e : SendsPart(e, k) <=> SendsPart(e, n)
      BY <1>4 DEF SameLog, SendsPart
<1> QED BY <1>1, <1>2, <1>3, <1>4, <1>5 DEF Current, SameLog

\* Two transitions that leave the log alone make one.
LEMMA SameLogTransitive ==
    ASSUME NEW n, NEW k, NEW l, SameLog(n, k), SameLog(k, l)
    PROVE  SameLog(n, l)
BY DEF SameLog

\* Effects without a log, appended to effects with one.
LEMMA PartEffects ==
    ASSUME NEW n
    PROVE  /\ SendsPart(NoEffects, n) /\ SendsPart(ResetElectionTimer, n)
           /\ \A e, f : SendsPart(e, n) /\ SendsPart(f, n) => SendsPart(Then(e, f), n)
           /\ \A e : e.send = {} => SendsPart(e, n)
BY DEF SendsPart, NoEffects, ResetElectionTimer, Then

\* Answers and vote requests carry no log.
LEMMA AnswerCarriesNoLog ==
    ASSUME NEW n, NEW a, a.type \notin {"AppendEntries", "InstallSnapshot"}
    PROVE  SendsPart(Sends({a}), n)
BY DEF SendsPart, Sends, NoEffects, CarriesLog

\* A suffix of a sequence, entry by entry.
LEMMA SuffixAt ==
    ASSUME NEW S, NEW s \in Seq(S), NEW from \in Nat, from > 0, NEW k \in Nat, k > 0,
           from + k - 1 <= Len(s)
    PROVE  SubSeq(s, from, Len(s))[k] = s[from + k - 1]
OBVIOUS

\* entriesFrom, entry by entry.
LEMMA EntriesFromAt ==
    ASSUME NEW n, HardStateOK(n), NEW i \in Nat, n.snap.index < i, i <= lastIndex(n) + 1,
           NEW k \in 1..Len(entriesFrom(n, i))
    PROVE  entriesFrom(n, i)[k] = entryAt(n, (i - 1) + k)
<1>1. PICK b \in Nat : b = n.snap.index
      BY LastIndexType
<1>2. PICK length \in Nat : length = Len(n.log)
      BY LastIndexType
<1>3. lastIndex(n) = b + length /\ b < i /\ i <= b + length + 1
      BY <1>1, <1>2, LastIndexType
<1>4. entriesFrom(n, i) = SubSeq(n.log, i - b, length)
  <2>1. ~(i <= n.snap.index)
        BY <1>1, <1>3
  <2> QED BY <1>1, <1>2, <2>1, Zenon DEF entriesFrom
<1>5. Len(entriesFrom(n, i)) = b + length + 1 - i
      BY <1>3, EntriesFromType
<1>6. k \in Nat /\ k > 0 /\ k <= b + length + 1 - i
      BY <1>5
<1>7. i - b \in Nat /\ i - b > 0 /\ (i - b) + k - 1 <= length
      BY <1>3, <1>6
<1>8. SubSeq(n.log, i - b, length)[k] = n.log[(i - b) + k - 1]
      BY <1>2, <1>6, <1>7, SuffixAt DEF HardStateOK
<1>9. (i - b) + k - 1 = ((i - 1) + k) - b
      BY <1>6
<1> QED BY <1>1, <1>4, <1>8, <1>9 DEF entryAt

\* The message appendFor builds carries a part of the leader's log.
LEMMA AppendMessagePart ==
    ASSUME NEW n, NodeInv(n), n.role = Leader, NEW member \in Server, member # n.id
    PROVE  LET m == appendMessage(n, member)
           IN  /\ Part(carried(m), n)
               /\ m.type = "InstallSnapshot" => m.snapshot = n.snap
<1> DEFINE append(prev, entries) ==
              [type |-> "AppendEntries", from |-> n.id, to |-> member,
               term |-> n.term, sequence |-> n.appendSequence[member],
               prevLogIndex |-> prev, prevLogTerm |-> termAt(n, prev),
               entries |-> entries, leaderCommit |-> n.commit]
           section(prev, entries) ==
              [snap |-> [index |-> prev, term |-> termAt(n, prev)], log |-> entries]
           next == n.nextIndex[member]
           install == [type |-> "InstallSnapshot", from |-> n.id, to |-> member,
                       term |-> n.term, sequence |-> n.appendSequence[member],
                       snapshot |-> n.snap]
<1>1. HardStateOK(n) /\ n.log \in Seq(Entry) /\ lastIndex(n) <= MaxIndex /\ MaxIndex \in Nat
      BY ConstantsType DEF NodeInv, NodeOK, HardStateOK, LogBounded
<1>2. /\ next \in 1..(lastIndex(n) + 1) /\ next \in 0..MaxIndex
      /\ n.matchIndex[member] \in 0..MaxIndex /\ n.matchIndex[member] <= lastIndex(n)
      BY DEF NodeInv, NodeOK, ProgressBounded
<1>3. /\ lastIndex(n) \in Nat /\ n.snap.index \in Nat /\ Len(n.log) \in Nat
      /\ lastIndex(n) = n.snap.index + Len(n.log)
      BY <1>1, LastIndexType
<1>4. appendMessage(n, member) =
        IF n.matchIndex[member] = MaxIndex THEN append(MaxIndex, <<>>)
        ELSE IF next <= n.snap.index THEN install
        ELSE append(next - 1, entriesFrom(n, next))
      BY <1>2, <1>3 DEF appendMessage
<1>5. \A prev, entries : /\ carried(append(prev, entries)) = section(prev, entries)
                         /\ append(prev, entries).type # "InstallSnapshot"
      BY DEF carried
<1>6. ASSUME NEW prev \in Nat, n.snap.index <= prev, prev <= lastIndex(n),
             NEW entries \in Seq(Entry), prev + Len(entries) <= lastIndex(n),
             \A k \in 1..Len(entries) : entries[k] = entryAt(n, prev + k)
      PROVE  Part(section(prev, entries), n)
      BY <1>6 DEF Part, lastIndex
<1>7. CASE n.matchIndex[member] = MaxIndex
  <2>1. MaxIndex = lastIndex(n)
        BY <1>1, <1>2, <1>3, <1>7
  <2>2. <<>> \in Seq(Entry) /\ Len(<<>>) = 0
        OBVIOUS
  <2>3. Part(section(MaxIndex, <<>>), n)
    <3>1. \A k \in 1..Len(<<>>) : <<>>[k] = entryAt(n, MaxIndex + k)
          BY <2>2
    <3>2. MaxIndex + Len(<<>>) <= lastIndex(n)
          BY <1>1, <1>3, <2>1, <2>2
    <3>3. MaxIndex \in Nat /\ n.snap.index <= MaxIndex /\ MaxIndex <= lastIndex(n)
          BY <1>1, <1>3, <2>1
    <3> HIDE DEF section
    <3> QED BY <1>6, <2>2, <3>1, <3>2, <3>3
  <2> HIDE DEF append, section
  <2> QED BY <1>4, <1>5, <1>7, <2>3
<1>8. CASE n.matchIndex[member] # MaxIndex /\ next <= n.snap.index
  <2>1. appendMessage(n, member) = install
        BY <1>4, <1>8
  <2>2. carried(install) = [snap |-> n.snap, log |-> <<>>]
        BY DEF carried
  <2>3. Part([snap |-> n.snap, log |-> <<>>], n)
        BY <1>3 DEF Part, lastIndex, termAt
  <2> QED BY <2>1, <2>2, <2>3
<1>9. CASE n.matchIndex[member] # MaxIndex /\ ~(next <= n.snap.index)
  <2> DEFINE entries == entriesFrom(n, next)
  <2>1. appendMessage(n, member) = append(next - 1, entries)
        BY <1>4, <1>9
  <2>2. /\ next \in Nat /\ next - 1 \in Nat /\ n.snap.index <= next - 1
        /\ next - 1 <= lastIndex(n) /\ n.snap.index < next /\ next <= lastIndex(n) + 1
        BY <1>2, <1>3, <1>9
  <2>3. entries \in Seq(Entry) /\ Len(entries) = lastIndex(n) + 1 - next
        BY <1>1, <2>2, EntriesFromType
  <2>5. ASSUME NEW k \in 1..Len(entries) PROVE entries[k] = entryAt(n, (next - 1) + k)
        BY <1>1, <2>2, EntriesFromAt
  <2> HIDE DEF entries
  <2>6. (next - 1) + Len(entries) <= lastIndex(n)
        BY <1>3, <2>2, <2>3
  <2>7. Part(section(next - 1, entries), n)
        BY <1>6, <2>2, <2>3, <2>5, <2>6
  <2> HIDE DEF append, section
  <2> QED BY <1>5, <2>1, <2>7
<1> QED BY <1>7, <1>8, <1>9

LogFields == {"snap", "log", "membership"}

\* Assigning other fields leaves the log alone.
LEMMA LogOfOthers ==
    ASSUME NEW n, NEW k, \A f \in LogFields : k[f] = n[f]
    PROVE  SameLog(n, k)
BY DEF SameLog, LogFields

\* becomeFollower leaves the log alone.
LEMMA LogOfStepDown ==
    ASSUME NEW n, Shape(n), NEW term, NEW leader
    PROVE  SameLog(n, becomeFollower(n, term, leader))
<1> DEFINE k == becomeFollower(n, term, leader)
<1>1. \A f \in LogFields : k[f] = n[f]
      BY DEF Shape, becomeFollower, NodeFields, LogFields
<1> QED BY <1>1, LogOfOthers

\* So does applyCommitted.
LEMMA LogOfApply ==
    ASSUME NEW n, Shape(n)
    PROVE  SameLog(n, applyCommitted(n).node)
<1> DEFINE k == [n EXCEPT !.applied = IF @ < n.commit THEN n.commit ELSE @]
<1>1. \A f \in LogFields : k[f] = n[f]
      BY DEF Shape, NodeFields, LogFields
<1>2. applyCommitted(n).node = k
      BY DEF applyCommitted, Result
<1> QED BY <1>1, <1>2, LogOfOthers

\* So does advanceCommit, which only makes a leader without a vote step down.
LEMMA LogOfAdvance ==
    ASSUME NEW n, Shape(n), n.term \in Nat
    PROVE  /\ SameLog(n, advanceCommit(n).node)
           /\ isVoter(n.membership, n.id) => advanceCommit(n).node.role = n.role
<1> DEFINE index == CHOOSE i \in committable(n) : \A j \in committable(n) : j <= i
           committed == [n EXCEPT !.commit = index]
           applied == applyCommitted(committed)
           m == applied.node
           k == IF m.role = Leader /\ ~isVoter(m.membership, m.id)
                THEN becomeFollower(m, m.term, Nil) ELSE m
<1>1. CASE committable(n) = {}
  <2>1. advanceCommit(n) = Result(n, FALSE, NoEffects)
        BY <1>1 DEF advanceCommit
  <2> QED BY <2>1 DEF SameLog, Result
<1>2. CASE committable(n) # {}
  <2>1. advanceCommit(n).node = k
        BY <1>2 DEF advanceCommit, Result
  <2> HIDE DEF index
  <2>2. /\ Shape(committed) /\ \A f \in LogFields : committed[f] = n[f]
        /\ committed.role = n.role /\ committed.id = n.id
        BY DEF Shape, NodeFields, LogFields
  <2> HIDE DEF committed
  <2>3. SameLog(committed, m) /\ m.role = n.role /\ m.id = n.id /\ Shape(m)
        BY <2>2, LogOfApply, KeepsApply DEF Keeps, KeepsVote
  <2> HIDE DEF m
  <2>4. SameLog(n, m)
        BY <2>2, <2>3, LogOfOthers, SameLogTransitive
  <2>5. SameLog(n, k)
        BY <2>3, <2>4, LogOfStepDown, SameLogTransitive
  <2>6. isVoter(n.membership, n.id) => k = m
        BY <2>3, <2>4 DEF SameLog
  <2> HIDE DEF k
  <2> QED BY <2>1, <2>3, <2>5, <2>6
<1> QED BY <1>1, <1>2

\* Appends carry parts of the sender's log.
LEMMA LogOfAppendTo ==
    ASSUME NEW n, NodeInv(n), n.role = Leader, NEW members \in SUBSET (Server \ {n.id})
    PROVE  KeepsLog(n, appendTo(n, members))
<1> DEFINE sequence == [s \in Server |-> IF s \in members THEN n.appendSequence[s] + 1
                                         ELSE n.appendSequence[s]]
           m == [n EXCEPT !.appendSequence = sequence]
           messages == {appendMessage(m, s) : s \in members}
<1>1. appendTo(n, members) = Result(m, FALSE, Sends(messages))
      BY DEF appendTo
<1>2. NodeInv(m) /\ m.id = n.id
  <2>1. StepInv(n, appendTo(n, members))
        BY AppendToType
  <2> HIDE DEF m, messages
  <2> QED BY <1>1, <2>1 DEF StepInv, Result
<1> HIDE DEF sequence
<1>3. \A f \in LogFields : m[f] = n[f]
      BY DEF NodeInv, NodeOK, NodeFields, LogFields
<1>4. m.role = Leader
      BY DEF NodeInv, NodeOK, NodeFields
<1> HIDE DEF m
<1>5. SameLog(n, m)
      BY <1>3, LogOfOthers
<1>6. SendsPart(Sends(messages), m)
  <2>1. \A s \in members : /\ Part(carried(appendMessage(m, s)), m)
                           /\ appendMessage(m, s).type = "InstallSnapshot" =>
                                appendMessage(m, s).snapshot = m.snap
        BY <1>2, <1>4, AppendMessagePart
  <2>2. Sends(messages).send = messages
        BY SendsType
  <2> QED BY <2>1, <2>2 DEF SendsPart
<1> QED BY <1>1, <1>5, <1>6 DEF KeepsLog, Result

\* A result that neither touches the log nor sends anything.
LEMMA LogOfQuiet ==
    ASSUME NEW n, NEW k, NEW dirty, SameLog(n, k)
    PROVE  KeepsLog(n, Result(k, dirty, NoEffects))
BY PartEffects DEF KeepsLog, Result

\* An error leaves the log alone.
LEMMA LogOfFailure ==
    ASSUME NEW n
    PROVE  KeepsLog(n, Failure(n))
BY PartEffects DEF KeepsLog, Failure, SameLog

\* So does what a leader does after appending to its own log.
LEMMA LogOfReplicate ==
    ASSUME NEW n, NodeInv(n), n.role = Leader
    PROVE  /\ KeepsLog(n, replicate(n))
           /\ isVoter(n.membership, n.id) => replicate(n).node.role = Leader
<1> DEFINE matched == [n EXCEPT !.matchIndex[n.id] = lastIndex(n)]
           advanced == advanceCommit(matched)
           sent == IF advanced.node.role = Leader THEN broadcastAppend(advanced.node)
                   ELSE Result(advanced.node, FALSE, NoEffects)
<1>1. replicate(n) = Result(sent.node, TRUE, Then(advanced.effects, sent.effects))
      BY DEF replicate
<1>2. lastIndex(n) \in 0..MaxIndex /\ MaxIndex \in Nat /\ n.id \in Server /\ n.term \in Nat
  <2>1. n.term \in 0..MaxTerm /\ MaxTerm \in Nat /\ MaxIndex \in Nat /\ n.id \in Server
        BY ConstantsType DEF NodeInv, NodeOK, HardStateOK
  <2> QED BY <2>1, LastIndexBounded
<1>3. /\ matched = [f \in NodeFields |-> matched[f]]
      /\ \A f \in NodeFields \ {"matchIndex"} : matched[f] = n[f]
      /\ matched.matchIndex = [n.matchIndex EXCEPT ![n.id] = lastIndex(n)]
      BY DEF NodeInv, NodeOK, NodeFields
<1> HIDE DEF matched
<1>4. /\ matched.matchIndex \in [Server -> 0..MaxIndex]
      /\ \A f \in Server : matched.matchIndex[f] <= lastIndex(n)
      BY <1>2, <1>3, ProgressType
<1>5. /\ NodeInv(matched) /\ matched.id = n.id /\ matched.role = Leader
      /\ matched.term \in Nat /\ Shape(matched)
  <2>1. /\ matched.nextIndex = n.nextIndex /\ \A f \in Server :
              n.nextIndex[f] \in 1..(lastIndex(n) + 1)
        /\ matched.nextIndex \in [Server -> 0..MaxIndex]
        BY <1>3, ProgressType DEF NodeFields
  <2>2. NodeInv(matched) /\ matched.id = n.id /\ matched.role = Leader
        BY <1>3, <1>4, <2>1, ProgressUpdateType
  <2> QED BY <1>2, <1>3, <2>2 DEF NodeFields, Shape
<1>6. SameLog(n, matched)
      BY <1>3, LogOfOthers DEF LogFields, NodeFields
<1>7. /\ SameLog(n, advanced.node) /\ NodeInv(advanced.node) /\ advanced.node.id = n.id
      /\ advanced.effects.send = {}
      /\ isVoter(n.membership, n.id) => advanced.node.role = Leader
  <2>1. StepInv(matched, advanced) /\ advanced.effects.send = {}
        BY <1>5, AdvanceCommitType
  <2>2. /\ SameLog(matched, advanced.node)
        /\ isVoter(matched.membership, matched.id) => advanced.node.role = matched.role
        BY <1>5, LogOfAdvance
  <2> HIDE DEF advanced
  <2>3. SameLog(n, advanced.node)
        BY <1>6, <2>2, SameLogTransitive
  <2> QED BY <1>5, <1>6, <2>1, <2>2, <2>3 DEF StepInv, SameLog
<1> HIDE DEF advanced
<1>8. KeepsLog(advanced.node, sent)
  <2>1. Server \ {advanced.node.id} \in SUBSET (Server \ {advanced.node.id})
        OBVIOUS
  <2>2. advanced.node.role = Leader => KeepsLog(advanced.node, broadcastAppend(advanced.node))
        BY <1>7, <2>1, LogOfAppendTo DEF broadcastAppend
  <2>3. KeepsLog(advanced.node, Result(advanced.node, FALSE, NoEffects))
        BY LogOfQuiet DEF SameLog
  <2> QED BY <2>2, <2>3
<1>9. advanced.node.role = Leader => sent.node.role = Leader
      BY <1>7, KeepsAppendTo DEF broadcastAppend, NodeInv, NodeOK, Shape
<1> HIDE DEF sent
<1>10. SameLog(n, sent.node) /\ SendsPart(sent.effects, sent.node)
  <2>1. SameLog(advanced.node, sent.node) /\ SendsPart(sent.effects, sent.node)
        BY <1>8 DEF KeepsLog
  <2> QED BY <1>7, <2>1, SameLogTransitive
<1>11. SendsPart(Then(advanced.effects, sent.effects), sent.node)
      BY <1>7, <1>10, PartEffects
<1> QED BY <1>1, <1>7, <1>9, <1>10, <1>11 DEF KeepsLog, Result

\* So does a heartbeat.
LEMMA LogOfHeartbeat ==
    ASSUME NEW n, NodeInv(n)
    PROVE  KeepsLog(n, heartbeatTimeout(n))
<1> DEFINE r == broadcastAppend(n)
           q == [r EXCEPT !.effects.timers = {"heartbeat"}]
<1>1. CASE n.role # Leader
      BY <1>1, LogOfQuiet DEF heartbeatTimeout, SameLog
<1>2. CASE n.role = Leader
  <2>1. KeepsLog(n, r)
        BY <1>2, LogOfAppendTo DEF broadcastAppend
  <2>2. q.node = r.node /\ q.effects.send = r.effects.send
        BY DEF broadcastAppend, appendTo, Result, Sends, NoEffects
  <2> HIDE DEF r
  <2>3. KeepsLog(n, q)
        BY <2>1, <2>2 DEF KeepsLog, SendsPart
  <2> QED BY <1>2, <2>3 DEF heartbeatTimeout, r
<1> QED BY <1>1, <1>2

\* So does recording a follower's progress.
LEMMA LogOfProgress ==
    ASSUME NEW n, NodeInv(n), n.role = Leader, NEW m, MessageInv(m), m.to = n.id,
           m.matchIndex \in 0..MaxIndex
    PROVE  KeepsLog(n, recordProgress(n, m))
<1> DEFINE last == minimum(m.matchIndex, lastIndex(n))
           next == nextIndexAfter(last)
           updated == [n EXCEPT !.matchIndex[m.from] = last, !.nextIndex[m.from] = next]
           recorded == IF m.matchIndex > n.matchIndex[m.from] THEN updated ELSE n
           advanced == advanceCommit(recorded)
           lagging == /\ advanced.node.role = Leader
                      /\ advanced.node.matchIndex[m.from] < lastIndex(advanced.node)
           sent == IF lagging THEN appendTo(advanced.node, {m.from})
                   ELSE Result(advanced.node, FALSE, NoEffects)
<1>1. recordProgress(n, m) = Result(sent.node, advanced.effects.apply # {},
                                    Then(advanced.effects, sent.effects))
      BY DEF recordProgress
<1>2. m.from \in Server /\ m.from # n.id
      BY DEF MessageInv, MessageOK
<1>3. NodeInv(updated) /\ SameLog(n, updated) /\ updated.id = n.id
  <2>1. lastIndex(n) \in 0..MaxIndex /\ MaxIndex \in Nat /\ MaxIndex > 0
        BY LastIndexBounded, ConstantsType
  <2>2. /\ last \in Nat /\ last <= lastIndex(n)
        /\ next \in Nat /\ next > 0 /\ next <= lastIndex(n) + 1 /\ next <= MaxIndex
        BY <2>1 DEF minimum, nextIndexAfter
  <2> HIDE DEF last, next
  <2>3. /\ updated = [f \in NodeFields |-> updated[f]]
        /\ \A f \in NodeFields \ {"matchIndex", "nextIndex"} : updated[f] = n[f]
        /\ updated.matchIndex = [n.matchIndex EXCEPT ![m.from] = last]
        /\ updated.nextIndex = [n.nextIndex EXCEPT ![m.from] = next]
        BY DEF NodeInv, NodeOK, NodeFields
  <2> HIDE DEF updated
  <2>4. /\ updated.matchIndex \in [Server -> 0..MaxIndex]
        /\ updated.nextIndex \in [Server -> 0..MaxIndex]
        /\ \A f \in Server : /\ updated.nextIndex[f] \in 1..(lastIndex(n) + 1)
                              /\ updated.matchIndex[f] <= lastIndex(n)
        BY <1>2, <2>1, <2>2, <2>3, ProgressType
  <2>5. NodeInv(updated) /\ updated.id = n.id
        BY <2>3, <2>4, ProgressUpdateType
  <2>6. SameLog(n, updated)
        BY <2>3, LogOfOthers DEF LogFields, NodeFields
  <2> QED BY <2>5, <2>6
<1> HIDE DEF updated
<1>4. NodeInv(recorded) /\ SameLog(n, recorded) /\ recorded.id = n.id
      BY <1>3 DEF SameLog
<1> HIDE DEF recorded
<1>5. Shape(recorded) /\ recorded.term \in Nat
  <2>1. recorded.term \in 0..MaxTerm /\ MaxTerm \in Nat
        BY <1>4, ConstantsType DEF NodeInv, NodeOK, HardStateOK
  <2> QED BY <1>4, <2>1 DEF NodeInv, NodeOK, Shape
<1>6. StepInv(recorded, advanced) /\ advanced.effects.send = {}
      BY <1>4, AdvanceCommitType
<1>7. SameLog(n, advanced.node)
      BY <1>4, <1>5, LogOfAdvance, SameLogTransitive
<1> HIDE DEF advanced
<1>8. NodeInv(advanced.node) /\ advanced.node.id = n.id
      BY <1>4, <1>6 DEF StepInv
<1>9. KeepsLog(advanced.node, sent)
  <2>1. {m.from} \in SUBSET (Server \ {advanced.node.id})
        BY <1>2, <1>8
  <2>2. lagging => KeepsLog(advanced.node, appendTo(advanced.node, {m.from}))
        BY <1>8, <2>1, LogOfAppendTo
  <2>3. KeepsLog(advanced.node, Result(advanced.node, FALSE, NoEffects))
        BY LogOfQuiet DEF SameLog
  <2> HIDE DEF lagging
  <2> QED BY <2>2, <2>3
<1> HIDE DEF sent
<1>10. SameLog(n, sent.node) /\ SendsPart(sent.effects, sent.node)
  <2>1. SameLog(advanced.node, sent.node) /\ SendsPart(sent.effects, sent.node)
        BY <1>9 DEF KeepsLog
  <2> QED BY <1>7, <2>1, SameLogTransitive
<1>11. SendsPart(Then(advanced.effects, sent.effects), sent.node)
      BY <1>6, <1>10, PartEffects
<1> QED BY <1>1, <1>10, <1>11 DEF KeepsLog, Result

\* So do the answers of followers.
LEMMA LogOfResponses ==
    ASSUME NEW n, NodeInv(n), NEW m, MessageInv(m), m.to = n.id,
           m.type \in {"AppendEntriesResponse", "InstallSnapshotResponse"}
    PROVE  KeepsLog(n, handleMessage(n, m))
<1> DEFINE next == n.nextIndex[m.from]
           back == IF next > 1 THEN next - 1 ELSE next
           hinted == IF m.rejectHint > 0 /\ m.rejectHint < back THEN m.rejectHint ELSE back
           resume == IF hinted < 1 THEN 1 ELSE hinted
           k == [n EXCEPT !.nextIndex[m.from] = resume]
<1>1. m.matchIndex \in 0..MaxIndex /\ m.from \in Server /\ m.from # n.id
      BY DEF MessageInv, MessageOK
<1>2. KeepsLog(n, Result(n, FALSE, NoEffects))
      BY LogOfQuiet DEF SameLog
<1>3. n.role = Leader => KeepsLog(n, recordProgress(n, m))
      BY <1>1, LogOfProgress
<1>4. CASE m.type = "InstallSnapshotResponse"
  <2>1. handleMessage(n, m) = handleInstallSnapshotResponse(n, m)
        BY <1>4 DEF handleMessage
  <2>2. \/ handleInstallSnapshotResponse(n, m) = Result(n, FALSE, NoEffects)
        \/ n.role = Leader /\ handleInstallSnapshotResponse(n, m) = recordProgress(n, m)
        BY Zenon DEF handleInstallSnapshotResponse
  <2> QED BY <1>2, <1>3, <2>1, <2>2
<1>5. CASE m.type = "AppendEntriesResponse"
  <2>1. handleMessage(n, m) = handleAppendEntriesResponse(n, m)
        BY <1>5 DEF handleMessage
  <2>2. \/ handleAppendEntriesResponse(n, m) = Result(n, FALSE, NoEffects)
        \/ n.role = Leader /\ handleAppendEntriesResponse(n, m) = recordProgress(n, m)
        \/ n.role = Leader /\ handleAppendEntriesResponse(n, m) = appendTo(k, {m.from})
        BY Zenon DEF handleAppendEntriesResponse
  <2>3. ASSUME n.role = Leader PROVE KeepsLog(n, appendTo(k, {m.from}))
    <3>1. lastIndex(n) \in 0..MaxIndex /\ MaxIndex \in Nat /\ MaxIndex > 0
          BY LastIndexBounded, ConstantsType
    <3>2. next \in 1..(lastIndex(n) + 1) /\ next \in 0..MaxIndex /\ m.rejectHint \in 0..MaxIndex
          BY <1>1, <1>5, <2>3, ProgressType DEF MessageInv, MessageOK
    <3>3. /\ resume \in Nat /\ resume > 0 /\ resume <= lastIndex(n) + 1 /\ resume <= MaxIndex
          BY <3>1, <3>2
    <3> HIDE DEF resume
    <3>4. /\ k = [f \in NodeFields |-> k[f]]
          /\ \A f \in NodeFields \ {"matchIndex", "nextIndex"} : k[f] = n[f]
          /\ k.matchIndex = n.matchIndex
          /\ k.nextIndex = [n.nextIndex EXCEPT ![m.from] = resume]
          BY DEF NodeInv, NodeOK, NodeFields
    <3> HIDE DEF k
    <3>5. /\ k.matchIndex \in [Server -> 0..MaxIndex] /\ k.nextIndex \in [Server -> 0..MaxIndex]
          /\ \A f \in Server : /\ k.nextIndex[f] \in 1..(lastIndex(n) + 1)
                                /\ k.matchIndex[f] <= lastIndex(n)
          BY <1>1, <2>3, <3>1, <3>3, <3>4, ProgressType
    <3>6. NodeInv(k) /\ k.id = n.id /\ k.role = Leader
          BY <2>3, <3>4, <3>5, ProgressUpdateType
    <3>7. SameLog(n, k)
          BY <3>4, LogOfOthers DEF LogFields, NodeFields
    <3>8. {m.from} \in SUBSET (Server \ {k.id})
          BY <1>1, <3>6
    <3>9. KeepsLog(k, appendTo(k, {m.from}))
          BY <3>6, <3>8, LogOfAppendTo
    <3> QED BY <3>7, <3>9, SameLogTransitive DEF KeepsLog
  <2> HIDE DEF k
  <2> QED BY <1>2, <1>3, <2>1, <2>2, <2>3
<1> QED BY <1>4, <1>5
-----------------------------------------------------------------------------
(* What a transition may do to the log.                                    *)

\* k follows, or has the standing of n.
Stays(n, k) ==
    \/ k.role = Follower
    \/ k.role = n.role /\ k.term = n.term /\ k.electionMembership = n.electionMembership

\* The log does not change, nor the standing.
Quiet(n, k) == SameLog(n, k) /\ Stays(n, k)

\* A voter stands for a later term.
Stands(n, k) ==
    /\ SameLog(n, k)
    /\ k.role = Candidate /\ k.term > n.term /\ isVoter(n.membership, n.id)

\* An entry of k's own term, no configuration, is added at the end of the log.
Appends(n, k) ==
    /\ k.snap = n.snap /\ k.membership = n.membership
    /\ \E e \in Entry : k.log = Append(n.log, e) /\ e.term = k.term /\ PlainEntry(e)

\* A candidate wins, at once when it needs no vote but its own.
Wins(n, k) ==
    /\ Appends(n, k)
    /\ isVoter(n.membership, n.id) => k.role = Leader /\ k.electionMembership = n.membership
    /\ \/ n.role = Candidate /\ k.term = n.term
       \/ isVoter(n.membership, n.id) /\ k.term > n.term

\* A leader takes a command.
Proposes(n, k) ==
    /\ Appends(n, k)
    /\ n.role = Leader /\ k.role = Leader /\ k.term = n.term
    /\ k.electionMembership = n.electionMembership

\* A prefix of the log becomes a snapshot.
Compacts(n, k) ==
    /\ Part(k, n) /\ lastIndex(k) = lastIndex(n)
    /\ k.snap.membership = membershipAt(n, k.snap.index)
    /\ Stays(n, k)

\* Up to an index p where n and the section g agree on the term, the log stays;
\* above it, where they disagree or n ends, it is replaced by that of g.
Splices(n, k, g) ==
    /\ k.snap = n.snap /\ lastIndex(k) = lastIndex(g)
    /\ \E p \in Nat :
        /\ n.snap.index <= p /\ p <= lastIndex(n)
        /\ g.snap.index <= p /\ p <= lastIndex(g)
        /\ termAt(n, p) = termAt(g, p)
        /\ p < lastIndex(g) /\ (p < lastIndex(n) => termAt(n, p + 1) # termAt(g, p + 1))
        /\ \A i \in (n.snap.index + 1)..p : entryAt(k, i) = entryAt(n, i)
        /\ \A i \in (p + 1)..lastIndex(k) : entryAt(k, i) = entryAt(g, i)

\* The snapshot of m is installed; of the log, a matching suffix survives.
Installs(n, k, m) ==
    /\ m.type = "InstallSnapshot"
    /\ k.snap = m.snapshot /\ n.commit < m.snapshot.index
    /\ \/ Part(k, n) /\ lastIndex(k) = lastIndex(n)
       \/ k.log = <<>> /\ termAt(n, m.snapshot.index) # m.snapshot.term

\* What a transition r of n, caused by a message of M or by none, does.
LogStep(n, M, r) ==
    /\ SendsPart(r.effects, r.node)
    /\ Current(n) => Current(r.node)
    /\ \/ Quiet(n, r.node)
       \/ Stands(n, r.node)
       \/ r.dirty /\ Wins(n, r.node)
       \/ r.dirty /\ Proposes(n, r.node)
       \/ Compacts(n, r.node)
       \/ \E m \in M : /\ r.node.role = Follower /\ r.node.term = m.term
                       /\ \/ m.type = "AppendEntries" /\ Splices(n, r.node, carried(m))
                          \/ Installs(n, r.node, m)

\* A transition that touches neither log nor vote is quiet.
LEMMA QuietStep ==
    ASSUME NEW n, NEW r, KeepsLog(n, r), KeepsVote(n, r.node), NEW M
    PROVE  LogStep(n, M, r)
<1>1. Quiet(n, r.node)
      BY DEF Quiet, Stays, KeepsLog, KeepsVote
<1>2. Current(n) => Current(r.node)
      BY SameLogAt DEF KeepsLog
<1> QED BY <1>1, <1>2 DEF LogStep, KeepsLog

\* refreshMembership makes the cached configuration current.
LEMMA LogOfRefresh ==
    ASSUME NEW n, Shape(n)
    PROVE  LET k == refreshMembership(n)
           IN  /\ Current(k) /\ k.snap = n.snap /\ k.log = n.log
               /\ \A i : membershipAt(k, i) = membershipAt(n, i)
<1> DEFINE k == refreshMembership(n)
<1>1. /\ k.snap = n.snap /\ k.log = n.log
      /\ k.membership = membershipAt(n, lastIndex(n))
      BY DEF refreshMembership, Shape, NodeFields
<1> HIDE DEF k
<1>2. lastIndex(k) = lastIndex(n)
      BY <1>1 DEF lastIndex
<1>3. \A i : membershipAt(k, i) = membershipAt(n, i)
      BY <1>1 DEF membershipAt, baseMembership
<1> QED BY <1>1, <1>2, <1>3 DEF Current, k

\* An entry that is no configuration leaves the configuration in force.
LEMMA AppendKeepsConfiguration ==
    ASSUME NEW n, HardStateOK(n), Current(n), NEW k, Appends(n, k)
    PROVE  Current(k)
<1>1. PICK e \in Entry : k.log = Append(n.log, e) /\ ~isConfig(e)
      BY DEF Appends, PlainEntry
<1>2. PICK length \in Nat : length = Len(n.log)
      BY LastIndexType
<1>3. PICK b \in Nat : b = n.snap.index
      BY LastIndexType
<1>4. n.log \in Seq(Entry)
      BY DEF HardStateOK
<1>5. Len(k.log) = length + 1 /\ k.snap = n.snap /\ k.membership = n.membership
      BY <1>1, <1>2, <1>4 DEF Appends
<1>6. lastIndex(n) = b + length /\ lastIndex(k) = b + (length + 1)
      BY <1>2, <1>3, <1>5 DEF lastIndex
<1>7. /\ \A j \in 1..length : k.log[j] = n.log[j]
      /\ k.log[length + 1] = e
      BY <1>1, <1>2, <1>4
<1>8. {j \in 1..(length + 1) : isConfig(k.log[j])} = {j \in 1..length : isConfig(n.log[j])}
  <2>1. \A j \in 1..(length + 1) : isConfig(k.log[j]) => j \in 1..length /\ isConfig(n.log[j])
    <3> TAKE j \in 1..(length + 1)
    <3>1. CASE j = length + 1
          BY <1>1, <1>7, <3>1
    <3>2. CASE j \in 1..length
          BY <1>7, <3>2
    <3> QED BY <3>1, <3>2
  <2>2. \A j \in 1..length : j \in 1..(length + 1) /\ k.log[j] = n.log[j]
        BY <1>7
  <2> QED BY <2>1, <2>2, Zenon
<1>9. ASSUME NEW base
      PROVE  configAfter(base, k.log, length + 1) = configAfter(base, n.log, length)
  <2> DEFINE C == {j \in 1..length : isConfig(n.log[j])}
             D == {j \in 1..(length + 1) : isConfig(k.log[j])}
             last(X) == CHOOSE j \in X : \A i \in X : i <= j
  <2>1. D = C
        BY <1>8
  <2>2. /\ configAfter(base, n.log, length) =
            IF C = {} THEN base ELSE n.log[last(C)].membership
        /\ configAfter(base, k.log, length + 1) =
            IF D = {} THEN base ELSE k.log[last(D)].membership
        BY Zenon DEF configAfter
  <2>3. C # {} => last(C) \in 1..length
    <3>1. C \subseteq Nat /\ \A x \in C : x <= length
          OBVIOUS
    <3>2. C # {} => \E x \in C : \A y \in C : y <= x
          BY <3>1, GreatestElement
    <3> QED BY <3>2
  <2> HIDE DEF C, D, last
  <2> QED BY <1>7, <2>1, <2>2, <2>3
<1>10. /\ membershipAt(n, lastIndex(n)) = configAfter(baseMembership(n), n.log, length)
       /\ membershipAt(k, lastIndex(k)) = configAfter(baseMembership(k), k.log, length + 1)
  <2>1. /\ ~(b + length < b) /\ minimum((b + length) - b, length) = length
        /\ ~(b + (length + 1) < b)
        /\ minimum((b + (length + 1)) - b, length + 1) = length + 1
        BY DEF minimum
  <2> QED BY <1>2, <1>3, <1>5, <1>6, <2>1, Zenon DEF membershipAt
<1>11. baseMembership(k) = baseMembership(n)
      BY <1>5 DEF baseMembership
<1> QED BY <1>5, <1>9, <1>10, <1>11 DEF Current

\* What follows from the type of a node.
LEMMA NodeShape ==
    ASSUME NEW n, NodeInv(n)
    PROVE  /\ Shape(n) /\ HardStateOK(n) /\ n.term \in Nat /\ n.term \in 0..MaxTerm
           /\ n.id \in Server
<1>1. n.term \in 0..MaxTerm /\ MaxTerm \in Nat
      BY ConstantsType DEF NodeInv, NodeOK, HardStateOK
<1> QED BY <1>1 DEF NodeInv, NodeOK, Shape

\* A leader that appended an entry of its own term and replicates it.
LEMMA LogOfAppend ==
    ASSUME NEW n, NEW k, NodeInv(k), k.role = Leader, Appends(n, k)
    PROVE  LET r == replicate(k)
           IN  /\ Appends(n, r.node) /\ SendsPart(r.effects, r.node) /\ r.dirty
               /\ r.node.term = k.term
               /\ isVoter(k.membership, k.id) =>
                    r.node.role = Leader /\ r.node.electionMembership = k.electionMembership
<1> DEFINE r == replicate(k)
<1>1. /\ KeepsLog(k, r)
      /\ isVoter(k.membership, k.id) => r.node.role = Leader
      BY LogOfReplicate
<1>2. KeepsVote(k, r.node)
      BY NodeShape, KeepsReplicate DEF Keeps
<1>3. r.dirty
      BY DEF replicate, Result
<1> HIDE DEF r
<1>4. SameLog(k, r.node) /\ SendsPart(r.effects, r.node) /\ r.node.term = k.term
      BY <1>1, <1>2 DEF KeepsLog, KeepsVote
<1>5. Appends(n, r.node)
      BY <1>4 DEF Appends, SameLog
<1>6. r.node.role = Leader => r.node.electionMembership = k.electionMembership
      BY <1>2 DEF KeepsVote, Leader, Follower
<1> QED BY <1>1, <1>3, <1>4, <1>5, <1>6 DEF r

\* becomeLeader adds an empty entry of its term to the log.
LEMMA LogOfBecomeLeader ==
    ASSUME NEW n, NodeInv(n), n.role = Candidate, ~becomeLeader(n).err
    PROVE  LET r == becomeLeader(n)
           IN  /\ Appends(n, r.node) /\ SendsPart(r.effects, r.node) /\ r.dirty
               /\ r.node.term = n.term
               /\ isVoter(n.membership, n.id) =>
                    r.node.role = Leader /\ r.node.electionMembership = n.membership
<1> DEFINE e == newEntry(n, "noop", NoCommand, NoMembership)
           k == elect(n)
           q == replicate(k)
           effects == [q.effects EXCEPT !.timers = {"heartbeat"}]
<1>1. lastIndex(n) # MaxIndex /\ becomeLeader(n) = Result(q.node, TRUE, effects)
  <2>1. becomeLeader(n) = IF lastIndex(n) = MaxIndex THEN Failure(n)
                          ELSE Result(q.node, TRUE, effects)
        BY DEF becomeLeader, elect
  <2>2. Failure(n).err
        BY DEF Failure
  <2> QED BY <2>1, <2>2
<1>2. /\ NodeInv(k) /\ k.id = n.id /\ k.role = Leader /\ k.term = n.term
      /\ k.snap = n.snap /\ k.membership = n.membership
      /\ k.electionMembership = n.membership
      /\ e \in Entry /\ k.log = Append(n.log, e)
      BY <1>1, ElectType
<1>3. e.term = n.term /\ PlainEntry(e)
      BY DEF newEntry, isConfig, PlainEntry
<1> HIDE DEF k, e
<1>4. Appends(n, k)
      BY <1>2, <1>3 DEF Appends
<1>5. /\ Appends(n, q.node) /\ SendsPart(q.effects, q.node) /\ q.dirty
      /\ q.node.term = k.term
      /\ isVoter(k.membership, k.id) =>
           q.node.role = Leader /\ q.node.electionMembership = k.electionMembership
      BY <1>2, <1>4, LogOfAppend
<1>6. effects.send = q.effects.send
      BY DEF replicate, Result, Then
<1> HIDE DEF q, effects
<1>7. SendsPart(effects, q.node)
      BY <1>5, <1>6 DEF SendsPart
<1> QED BY <1>1, <1>2, <1>5, <1>7 DEF Result

\* An election timeout: the node stands, or wins at once.
LEMMA LogOfElectionTimeout ==
    ASSUME NEW n, NodeInv(n), ~electionTimeout(n).err, NEW M
    PROVE  LogStep(n, M, electionTimeout(n))
<1> DEFINE c == [n EXCEPT !.role = Candidate, !.leader = Nil, !.term = @ + 1,
                          !.votedFor = n.id, !.votes = {n.id}, !.electionVotes = {},
                          !.nextIndex = ZeroMap, !.matchIndex = ZeroMap,
                          !.appendSequence = ZeroMap]
           request(s) == [type |-> "RequestVote", from |-> n.id, to |-> s,
                          term |-> c.term, lastLogIndex |-> lastIndex(c),
                          lastLogTerm |-> lastTerm(c)]
           asked == Then(ResetElectionTimer,
                        Sends({request(s) : s \in voterUnion(c.membership) \ {n.id}}))
           won == [becomeLeader(c) EXCEPT !.effects = Then(ResetElectionTimer, @)]
<1>1. \/ electionTimeout(n) = Result(n, FALSE, NoEffects)
      \/ /\ isVoter(n.membership, n.id) /\ n.term # MaxTerm
         /\ electionTimeout(n) = won \/ electionTimeout(n) = Result(c, TRUE, asked)
  <2>1. electionTimeout(n) # Failure(n)
        BY DEF Failure
  <2> QED BY <2>1, Zenon DEF electionTimeout, startElection
<1>2. /\ c = [f \in NodeFields |-> c[f]]
      /\ \A f \in NodeFields \ {"role", "leader", "term", "votedFor", "votes",
              "electionVotes", "nextIndex", "matchIndex", "appendSequence"} : c[f] = n[f]
      /\ c.role = Candidate /\ c.leader = Nil /\ c.term = n.term + 1 /\ c.votedFor = n.id
      /\ c.votes = {n.id} /\ c.electionVotes = {} /\ c.nextIndex = ZeroMap
      /\ c.matchIndex = ZeroMap /\ c.appendSequence = ZeroMap
      BY DEF NodeInv, NodeOK, NodeFields
<1>3. SendsPart(asked, c)
      BY DEF SendsPart, Then, Sends, NoEffects, ResetElectionTimer, CarriesLog
<1> HIDE DEF c, asked
<1>4. SameLog(n, c) /\ c.id = n.id
      BY <1>2, LogOfOthers DEF LogFields, NodeFields
<1>5. CASE electionTimeout(n) = Result(n, FALSE, NoEffects)
  <2>1. KeepsLog(n, Result(n, FALSE, NoEffects))
        BY LogOfQuiet DEF SameLog
  <2>2. KeepsVote(n, Result(n, FALSE, NoEffects).node)
        BY NodeShape, KeepsSelf DEF Result
  <2> QED BY <1>5, <2>1, <2>2, QuietStep
<1>6. CASE isVoter(n.membership, n.id) /\ electionTimeout(n) = Result(c, TRUE, asked)
  <2>1. Stands(n, c)
        BY <1>2, <1>4, <1>6, NodeShape DEF Stands
  <2>2. Current(n) => Current(c)
        BY <1>4, SameLogAt
  <2> QED BY <1>3, <1>6, <2>1, <2>2 DEF LogStep, Result
<1>7. CASE isVoter(n.membership, n.id) /\ n.term # MaxTerm /\ electionTimeout(n) = won
  <2> DEFINE r == becomeLeader(c)
  <2>1. /\ won.node = r.node /\ won.dirty = r.dirty /\ won.err = r.err
        /\ won.effects = Then(ResetElectionTimer, r.effects)
    <3>1. \E x, y, z, w : r = [node |-> x, dirty |-> y, effects |-> z, err |-> w]
          BY DEF becomeLeader, Failure, Result
    <3> HIDE DEF r
    <3> QED BY <3>1 DEF r
  <2>2. NodeInv(c)
    <3>1. n.term + 1 \in 0..MaxTerm /\ n.term + 1 > 0
          BY <1>7, NodeShape, ConstantsType
    <3>2. /\ c.id = n.id /\ c.commit = n.commit /\ c.snap = n.snap /\ c.log = n.log
          /\ c.applied = n.applied /\ c.membership = n.membership
          /\ c.electionMembership = n.electionMembership
          BY <1>2 DEF NodeFields
    <3>3. NodeOK(c)
          BY <1>2, <3>1, <3>2, ConstantsType DEF NodeInv, NodeOK, HardStateOK
    <3>4. LogBounded(c) /\ ProgressBounded(c)
          BY <1>2, <3>1, <3>2
          DEF NodeInv, LogBounded, ProgressBounded, lastIndex, Leader, Candidate
    <3> QED BY <3>3, <3>4 DEF NodeInv
  <2>3. /\ Appends(c, r.node) /\ SendsPart(r.effects, r.node) /\ r.dirty
        /\ r.node.term = c.term
        /\ isVoter(c.membership, c.id) =>
             r.node.role = Leader /\ r.node.electionMembership = c.membership
    <3>1. ~r.err
          BY <1>7, <2>1
    <3> QED BY <1>2, <2>2, <3>1, LogOfBecomeLeader
  <2> HIDE DEF r, won
  <2>4. Appends(n, r.node)
        BY <1>4, <2>3 DEF Appends, SameLog
  <2>5. Wins(n, won.node)
    <3>1. n.term + 1 > n.term
          BY NodeShape
    <3> QED BY <1>2, <1>4, <1>7, <2>1, <2>3, <2>4, <3>1 DEF Wins, SameLog
  <2>6. Current(n) => Current(won.node)
        BY <2>1, <2>4, NodeShape, AppendKeepsConfiguration
  <2>7. SendsPart(won.effects, won.node)
        BY <2>1, <2>3, PartEffects
  <2> QED BY <1>7, <2>1, <2>3, <2>5, <2>6, <2>7 DEF LogStep
<1> QED BY <1>1, <1>5, <1>6, <1>7

\* A vote request touches no log.
LEMMA LogOfRequestVote ==
    ASSUME NEW n, NodeInv(n), NEW m, NEW M
    PROVE  LogStep(n, M, handleRequestVote(n, m))
<1> DEFINE granted == voteGranted(n, m)
           voted == IF granted THEN [n EXCEPT !.votedFor = m.from] ELSE n
           response == [type |-> "RequestVoteResponse", from |-> n.id, to |-> m.from,
                        term |-> n.term, voteGranted |-> granted]
           effects == Then(IF granted THEN ResetElectionTimer ELSE NoEffects, Sends({response}))
           dirty == granted /\ n.votedFor # m.from
<1>1. handleRequestVote(n, m) = Result(voted, dirty, effects)
      BY DEF handleRequestVote
<1> HIDE DEF granted
<1>2. /\ \A f \in LogFields : voted[f] = n[f]
      /\ voted.role = n.role /\ voted.term = n.term
      /\ voted.electionMembership = n.electionMembership
      BY DEF NodeInv, NodeOK, NodeFields, LogFields
<1> HIDE DEF voted, dirty
<1>3. SameLog(n, voted) /\ Quiet(n, voted)
      BY <1>2, LogOfOthers DEF Quiet, Stays
<1>4. Current(n) => Current(voted)
      BY <1>3, SameLogAt
<1>5. SendsPart(effects, voted)
      BY AnswerCarriesNoLog, PartEffects
<1> QED BY <1>1, <1>3, <1>4, <1>5 DEF LogStep, Result

\* A vote may complete a quorum.
LEMMA LogOfRequestVoteResponse ==
    ASSUME NEW n, NodeInv(n), NEW m, MessageInv(m), ~handleRequestVoteResponse(n, m).err, NEW M
    PROVE  LogStep(n, M, handleRequestVoteResponse(n, m))
<1> DEFINE counted == [n EXCEPT !.votes = @ \cup {m.from}]
<1>1. \/ handleRequestVoteResponse(n, m) = Result(n, FALSE, NoEffects)
      \/ n.role = Candidate /\ handleRequestVoteResponse(n, m) = becomeLeader(counted)
      \/ handleRequestVoteResponse(n, m) = Result(counted, FALSE, NoEffects)
      BY Zenon DEF handleRequestVoteResponse
<1>2. /\ counted = [f \in NodeFields |-> counted[f]]
      /\ \A f \in NodeFields \ {"votes"} : counted[f] = n[f]
      /\ counted.votes = n.votes \cup {m.from}
      BY DEF NodeInv, NodeOK, NodeFields
<1>3. m.from \in Server
      BY DEF MessageInv, MessageOK
<1> HIDE DEF counted
<1>4. /\ NodeInv(counted) /\ counted.id = n.id /\ counted.role = n.role
      /\ counted.term = n.term /\ counted.electionMembership = n.electionMembership
      BY <1>2, <1>3
      DEF NodeInv, NodeOK, HardStateOK, LogBounded, ProgressBounded, lastIndex, NodeFields
<1>5. SameLog(n, counted)
      BY <1>2, LogOfOthers DEF LogFields, NodeFields
<1>6. Current(n) => Current(counted)
      BY <1>5, SameLogAt
<1>7. LogStep(n, M, Result(n, FALSE, NoEffects))
      BY PartEffects DEF LogStep, Result, Quiet, Stays, SameLog
<1>8. LogStep(n, M, Result(counted, FALSE, NoEffects))
      BY <1>4, <1>5, <1>6, PartEffects DEF LogStep, Result, Quiet, Stays
<1>9. ASSUME n.role = Candidate, handleRequestVoteResponse(n, m) = becomeLeader(counted)
      PROVE  LogStep(n, M, becomeLeader(counted))
  <2> DEFINE r == becomeLeader(counted)
  <2>1. /\ Appends(counted, r.node) /\ SendsPart(r.effects, r.node) /\ r.dirty
        /\ r.node.term = n.term
        /\ isVoter(counted.membership, counted.id) =>
             r.node.role = Leader /\ r.node.electionMembership = counted.membership
        BY <1>4, <1>9, LogOfBecomeLeader
  <2> HIDE DEF r
  <2>2. Appends(n, r.node)
        BY <1>5, <2>1 DEF Appends, SameLog
  <2>3. Wins(n, r.node)
        BY <1>4, <1>5, <1>9, <2>1, <2>2 DEF Wins, SameLog
  <2>4. Current(n) => Current(r.node)
        BY <2>2, NodeShape, AppendKeepsConfiguration
  <2> QED BY <2>1, <2>3, <2>4 DEF LogStep, r
<1> QED BY <1>1, <1>7, <1>8, <1>9

\* A client's command is added to the leader's log.
LEMMA LogOfProposal ==
    ASSUME NEW n, NodeInv(n), NEW command \in Command, ~proposal(n, command).err, NEW M
    PROVE  LogStep(n, M, proposal(n, command))
<1> DEFINE e == newEntry(n, "command", command, NoMembership)
           k == [n EXCEPT !.log = Append(@, e)]
           r == replicate(k)
<1>1. /\ proposal(n, command) = r
      /\ n.role = Leader /\ isVoter(n.membership, n.id) /\ lastIndex(n) # MaxIndex
  <2>1. proposal(n, command) # Failure(n)
        BY DEF Failure
  <2> QED BY <2>1, Zenon DEF proposal
<1>2. /\ "command" \in EntryTypes /\ command \in Command \cup {NoCommand}
      /\ NoMembership \in Membership
      BY ConstantsType DEF EntryTypes
<1>3. NodeInv(k) /\ k.id = n.id /\ k.role = Leader
      BY <1>1, <1>2, LogEntryType, Zenon
<1>4. e \in Entry /\ e.term = n.term /\ PlainEntry(e)
  <2>1. n.term \in 1..MaxTerm
        BY <1>1, NodeShape, ConstantsType DEF NodeInv, ProgressBounded, Leader, Follower
  <2> QED BY <1>2, <2>1 DEF newEntry, Entry, isConfig, PlainEntry
<1>5. /\ \A f \in NodeFields \ {"log"} : k[f] = n[f]
      /\ k.log = Append(n.log, e)
      BY DEF NodeInv, NodeOK, NodeFields
<1> HIDE DEF e, k
<1>6. /\ k.snap = n.snap /\ k.membership = n.membership /\ k.term = n.term
      /\ k.electionMembership = n.electionMembership /\ k.log = Append(n.log, e)
      BY <1>5 DEF NodeFields
<1>7. Appends(n, k)
      BY <1>4, <1>6 DEF Appends
<1>8. /\ Appends(n, r.node) /\ SendsPart(r.effects, r.node) /\ r.dirty
      /\ r.node.term = k.term
      /\ isVoter(k.membership, k.id) =>
           r.node.role = Leader /\ r.node.electionMembership = k.electionMembership
      BY <1>3, <1>7, LogOfAppend
<1> HIDE DEF r
<1>9. Proposes(n, r.node)
      BY <1>1, <1>3, <1>6, <1>8 DEF Proposes
<1>10. Current(n) => Current(r.node)
      BY <1>8, NodeShape, AppendKeepsConfiguration
<1> QED BY <1>1, <1>8, <1>9, <1>10 DEF LogStep

\* A configuration entry takes effect when it is appended.
LEMMA LogOfMembershipEntry ==
    ASSUME NEW n, NodeInv(n), n.role = Leader, lastIndex(n) # MaxIndex,
           NEW type \in {"joint", "final"}, NEW membership \in Membership,
           ~appendMembershipEntry(n, type, membership).err
    PROVE  Current(appendMembershipEntry(n, type, membership).node)
<1> DEFINE k == [n EXCEPT !.log = Append(@, newEntry(n, type, NoCommand, membership))]
           l == refreshMembership(k)
<1>1. appendMembershipEntry(n, type, membership) = replicate(l)
  <2>1. appendMembershipEntry(n, type, membership) # Failure(n)
        BY DEF Failure
  <2> QED BY <2>1, Zenon DEF appendMembershipEntry
<1>2. type \in EntryTypes /\ NoCommand \in Command \cup {NoCommand}
      BY DEF EntryTypes
<1>3. NodeInv(k) /\ k.id = n.id /\ k.role = Leader
      BY <1>2, LogEntryType, Zenon
<1> HIDE DEF k
<1>4. NodeInv(l) /\ l.role = Leader /\ Current(l)
      BY <1>3, NodeShape, RefreshType, LogOfRefresh
<1> HIDE DEF l
<1>5. SameLog(l, replicate(l).node)
      BY <1>4, LogOfReplicate DEF KeepsLog
<1> QED BY <1>1, <1>4, <1>5, SameLogAt

\* Beginning and finalizing a membership change append such an entry.
LEMMA LogOfMembershipInputs ==
    ASSUME NEW n, NodeInv(n)
    PROVE  /\ \A voters, learners \in SUBSET Server :
                ~beginMembership(n, voters, learners).err =>
                    Current(beginMembership(n, voters, learners).node)
           /\ ~finalizeMembership(n).err =>
                Joint(n.membership) /\ Current(finalizeMembership(n).node)
<1>1. Failure(n).err
      BY DEF Failure
<1>2. ASSUME NEW voters \in SUBSET Server, NEW learners \in SUBSET Server,
             ~beginMembership(n, voters, learners).err
      PROVE  Current(beginMembership(n, voters, learners).node)
  <2> DEFINE joint == [voters |-> voters, outgoing |-> n.membership.voters,
                       learners |-> learners \ n.membership.voters,
                       learnersNext |-> learners]
  <2>1. joint \in Membership
        BY DEF NodeInv, NodeOK, Membership
  <2>2. /\ n.role = Leader /\ lastIndex(n) # MaxIndex
        /\ beginMembership(n, voters, learners) = appendMembershipEntry(n, "joint", joint)
        BY <1>1, <1>2, Zenon DEF beginMembership
  <2> HIDE DEF joint
  <2> QED BY <1>2, <2>1, <2>2, LogOfMembershipEntry
<1>3. ASSUME ~finalizeMembership(n).err
      PROVE  Joint(n.membership) /\ Current(finalizeMembership(n).node)
  <2> DEFINE final == stableMembership(n.membership.voters, n.membership.learnersNext)
  <2>1. final \in Membership
        BY DEF NodeInv, NodeOK, Membership, stableMembership
  <2>2. /\ n.role = Leader /\ lastIndex(n) # MaxIndex /\ Joint(n.membership)
        /\ finalizeMembership(n) = appendMembershipEntry(n, "final", final)
        BY <1>1, <1>3, Zenon DEF finalizeMembership
  <2> HIDE DEF final
  <2> QED BY <1>3, <2>1, <2>2, LogOfMembershipEntry
<1> QED BY <1>2, <1>3

\* Compaction keeps the log above the new boundary.
LEMMA LogOfSnapshot ==
    ASSUME NEW n, NodeInv(n), NEW index \in Nat, NEW data, ~takeSnapshot(n, index, data).err,
           NEW M
    PROVE  LogStep(n, M, takeSnapshot(n, index, data))
<1> DEFINE refused == \/ index = 0 \/ index <= n.snap.index \/ index > n.applied
                      \/ index > n.commit \/ termAt(n, index) = 0
           snap == [index |-> index, term |-> termAt(n, index),
                    membership |-> membershipAt(n, index), data |-> data]
           log == entriesFrom(n, index + 1)
           k == [n EXCEPT !.snap = snap, !.log = log]
           l == refreshMembership(k)
<1>1. ~refused /\ takeSnapshot(n, index, data) = Result(l, TRUE, NoEffects)
  <2>1. takeSnapshot(n, index, data) # Failure(n)
        BY DEF Failure
  <2> QED BY <2>1, Zenon DEF takeSnapshot
<1>2. /\ HardStateOK(n) /\ lastIndex(n) \in Nat /\ n.snap.index \in Nat
      /\ Shape(n)
      BY NodeShape, LastIndexType
<1>3. index > n.snap.index /\ index <= lastIndex(n)
  <2>1. index # n.snap.index /\ index # 0 /\ termAt(n, index) # 0 /\ index > n.snap.index
        BY <1>1, <1>2
  <2>2. entryExists(n, index)
        BY <2>1 DEF termAt
  <2> QED BY <2>1, <2>2 DEF entryExists
<1>4. index + 1 \in Nat /\ n.snap.index < index + 1 /\ index + 1 <= lastIndex(n) + 1
      BY <1>2, <1>3
<1>5. log \in Seq(Entry) /\ Len(log) = lastIndex(n) + 1 - (index + 1)
      BY <1>2, <1>4, EntriesFromType
<1>6. \A i \in 1..Len(log) : log[i] = entryAt(n, index + i)
  <2> TAKE i \in 1..Len(log)
  <2>1. log[i] = entryAt(n, ((index + 1) - 1) + i)
        BY <1>2, <1>4, EntriesFromAt
  <2>2. (index + 1) - 1 = index
        OBVIOUS
  <2> HIDE DEF log
  <2> QED BY <2>1, <2>2
<1>7. /\ snap.index = index /\ snap.term = termAt(n, index)
      /\ snap.membership = membershipAt(n, index)
      OBVIOUS
<1> HIDE DEF snap, log
<1>8. Shape(k) /\ k.snap = snap /\ k.log = log
      BY <1>2 DEF Shape, NodeFields
<1>9. Shape(l)
      BY <1>8, KeepsRefresh DEF KeepsVote
<1> HIDE DEF k
<1>10. Current(l) /\ l.snap = snap /\ l.log = log
      BY <1>8, LogOfRefresh
<1>11. KeepsVote(n, l)
  <2>1. Keeps(n, takeSnapshot(n, index, data))
        BY <1>2, KeepsSnapshot
  <2> QED BY <1>1, <2>1 DEF Keeps, Result
<1> HIDE DEF l
<1>12. lastIndex(l) = lastIndex(n)
      BY <1>2, <1>5, <1>7, <1>10 DEF lastIndex
<1>13. Part(l, n)
  <2>1. n.snap.index <= l.snap.index
        BY <1>2, <1>3, <1>7, <1>10
  <2> QED BY <1>2, <1>6, <1>7, <1>10, <1>12, <2>1 DEF Part
<1>14. Compacts(n, l)
      BY <1>7, <1>10, <1>11, <1>12, <1>13 DEF Compacts, Stays, KeepsVote
<1> QED BY <1>1, <1>10, <1>14, PartEffects DEF LogStep, Result

\* w is the first a elements of s, followed by t from position c on.
Spliced(w, s, a, t, c) ==
    /\ Len(w) = a + (Len(t) - c + 1)
    /\ \A i \in 1..a : w[i] = s[i]
    /\ \A i \in Nat : a < i /\ i <= Len(w) => w[i] = t[c + (i - a) - 1]

\* A truncated sequence with a suffix appended.
LEMMA SpliceAt ==
    ASSUME NEW S, NEW s \in Seq(S), NEW t \in Seq(S), NEW a \in Nat, a <= Len(s),
           NEW c \in Nat, c > 0, c <= Len(t)
    PROVE  /\ SubSeq(s, 1, a) \o SubSeq(t, c, Len(t)) \in Seq(S)
           /\ Spliced(SubSeq(s, 1, a) \o SubSeq(t, c, Len(t)), s, a, t, c)
<1> DEFINE u == SubSeq(s, 1, a)
           v == SubSeq(t, c, Len(t))
           w == u \o v
<1>1. u \in Seq(S) /\ Len(u) = a /\ \A i \in 1..a : u[i] = s[i]
      OBVIOUS
<1>2. /\ v \in Seq(S) /\ Len(v) = Len(t) - c + 1
      /\ \A i \in Nat : i > 0 /\ i <= Len(v) => v[i] = t[c + i - 1]
      OBVIOUS
<1> HIDE DEF u, v
<1>3. w \in Seq(S) /\ Len(w) = Len(u) + Len(v)
  <2>1. u \in Seq(S) /\ v \in Seq(S)
        BY <1>1, <1>2
  <2>2. u \o v \in Seq(S) /\ Len(u \o v) = Len(u) + Len(v)
        BY <2>1
  <2> QED BY <2>2
<1>4. \A i \in 1..a : w[i] = s[i]
      BY <1>1, <1>2
<1>5. ASSUME NEW i \in Nat, a < i, i <= Len(w)
      PROVE  w[i] = t[c + (i - a) - 1]
  <2>1. w[i] = v[i - a]
    <3>1. u \in Seq(S) /\ v \in Seq(S) /\ Len(u) = a /\ i \in (Len(u) + 1)..(Len(u) + Len(v))
          BY <1>1, <1>2, <1>3, <1>5
    <3>2. (u \o v)[i] = v[i - Len(u)]
          BY <3>1
    <3> QED BY <3>1, <3>2
  <2>2. i - a \in Nat /\ i - a > 0 /\ i - a <= Len(v)
        BY <1>1, <1>2, <1>3, <1>5
  <2> HIDE DEF w
  <2> QED BY <1>2, <2>1, <2>2
<1> HIDE DEF w
<1>6. Spliced(w, s, a, t, c)
      BY <1>1, <1>2, <1>3, <1>4, <1>5 DEF Spliced
<1> QED BY <1>3, <1>6 DEF u, v, w

\* The entries of an append that matches replace whatever the log holds from
\* the first of them it does not hold.
LEMMA LogOfStore ==
    ASSUME NEW n, NodeInv(n), n.role = Follower,
           NEW m, MessageInv(m), m.type = "AppendEntries",
           n.snap.index <= m.prevLogIndex, previousMatches(n, m),
           Len(m.entries) <= MaxIndex - m.prevLogIndex
    PROVE  LET k == storeEntries(n, m)
           IN  \/ newEntries(n, m) = {} /\ k = n
               \/ Current(k) /\ Splices(n, k, carried(m))
<1> DEFINE first == firstOf(newEntries(n, m))
           kept == truncateFrom(n, m.prevLogIndex + first)
           log == kept \o SubSeq(m.entries, first, Len(m.entries))
           k == [n EXCEPT !.log = log]
           l == refreshMembership(k)
           g == carried(m)
<1>1. CASE newEntries(n, m) = {}
      BY <1>1 DEF storeEntries
<1>2. CASE newEntries(n, m) # {}
  <2>1. storeEntries(n, m) = l
        BY <1>2, Zenon DEF storeEntries
  <2>2. m.entries \in Seq(Entry) /\ m.prevLogIndex \in Nat /\ m.prevLogTerm \in Nat
        BY ConstantsType DEF MessageInv, MessageOK
  <2>3. PICK prev \in Nat : prev = m.prevLogIndex
        BY <2>2
  <2>4. PICK size \in Nat : size = Len(m.entries)
        BY <2>2
  <2>5. newEntries(n, m) \subseteq 1..size /\ newEntries(n, m) \subseteq Nat
        BY <2>4 DEF newEntries
  <2>6. first \in newEntries(n, m) /\ \A j \in newEntries(n, m) : first <= j
        BY <1>2, <2>5, FirstOfType
  <2> HIDE DEF first
  <2>7. first \in Nat /\ first > 0 /\ first <= size
        BY <2>5, <2>6
  <2>8. HardStateOK(n) /\ BoundaryOK(n.snap) /\ n.log \in Seq(Entry) /\ Shape(n)
        BY NodeShape DEF NodeInv, LogBounded, HardStateOK
  <2>9. PICK b \in Nat : b = n.snap.index
        BY <2>8, LastIndexType
  <2>10. PICK length \in Nat : length = Len(n.log)
        BY <2>8, LastIndexType
  <2>11. lastIndex(n) = b + length /\ b <= prev
        BY <2>3, <2>9, <2>10 DEF lastIndex
  <2>12. prev <= b + length
    <3>1. CASE prev = 0
          BY <3>1
    <3>2. CASE prev # 0
      <4>1. m.prevLogTerm # 0
            BY <2>3, <3>2 DEF MessageInv, ProbeOK
      <4>2. termAt(n, prev) # 0
            BY <2>3, <4>1 DEF previousMatches
      <4>3. prev = n.snap.index \/ entryExists(n, prev)
            BY <4>2 DEF termAt
      <4> QED BY <2>9, <2>11, <4>3 DEF entryExists
    <3> QED BY <3>1, <3>2
  <2> DEFINE p == prev + (first - 1)
  <2>13. ASSUME first > 1
         PROVE  p <= b + length /\ termAt(n, p) = m.entries[first - 1].term
    <3>1. first - 1 \in 1..Len(m.entries) /\ first - 1 \notin newEntries(n, m)
          BY <2>4, <2>5, <2>6, <2>7, <2>13
    <3>2. /\ ~(m.prevLogIndex + (first - 1) > lastIndex(n))
          /\ termAt(n, m.prevLogIndex + (first - 1)) = m.entries[first - 1].term
          BY <3>1 DEF newEntries
    <3> QED BY <2>3, <2>7, <2>11, <3>2
  <2>14. p \in Nat /\ b <= p /\ p <= b + length /\ prev <= p /\ p <= prev + size
    <3>1. CASE first = 1
          BY <2>7, <2>11, <2>12, <3>1
    <3>2. CASE first > 1
          BY <2>7, <2>11, <2>13, <3>2
    <3> QED BY <2>7, <3>1, <3>2
  <2>15. /\ g.snap.index = prev /\ g.snap.term = m.prevLogTerm /\ g.log = m.entries
         BY <2>3 DEF carried
  <2>16. lastIndex(g) = prev + size
         BY <2>4, <2>15 DEF lastIndex
  <2>17. termAt(n, p) = termAt(g, p)
    <3> HIDE DEF g
    <3>1. CASE first = 1
      <4>1. p = prev
            BY <3>1
      <4>2. termAt(n, prev) = m.prevLogTerm
            BY <2>3 DEF previousMatches
      <4>3. prev = 0 => termAt(n, prev) = 0 /\ termAt(g, prev) = 0
            BY DEF termAt
      <4>4. prev # 0 => termAt(g, prev) = m.prevLogTerm
            BY <2>15 DEF termAt
      <4> QED BY <4>1, <4>2, <4>3, <4>4
    <3>2. CASE first > 1
      <4>1. p # 0 /\ p # prev /\ entryExists(g, p) /\ p - prev = first - 1
            BY <2>7, <2>14, <2>15, <2>16, <3>2 DEF entryExists
      <4>2. entryAt(g, p) = m.entries[first - 1]
            BY <2>15, <4>1 DEF entryAt
      <4> QED BY <2>13, <2>15, <3>2, <4>1, <4>2 DEF termAt
    <3> QED BY <2>7, <3>1, <3>2
  <2>18. kept = SubSeq(n.log, 1, p - b)
    <3>1. /\ ~(m.prevLogIndex + first <= n.snap.index)
          /\ (m.prevLogIndex + first) - n.snap.index - 1 = p - b
          BY <2>3, <2>7, <2>9, <2>11
    <3>2. kept = SubSeq(n.log, 1, (m.prevLogIndex + first) - n.snap.index - 1)
          BY <3>1 DEF truncateFrom
    <3> HIDE DEF p, kept
    <3> QED BY <3>1, <3>2, Zenon
  <2>19. p - b \in Nat /\ p - b <= length
         BY <2>14
  <2>20. /\ log \in Seq(Entry) /\ Len(log) = (p - b) + (size - first + 1)
         /\ \A i \in 1..(p - b) : log[i] = n.log[i]
         /\ \A i \in Nat : p - b < i /\ i <= Len(log) =>
                log[i] = m.entries[first + (i - (p - b)) - 1]
    <3> HIDE DEF p
    <3>1. /\ p - b \in Nat /\ p - b <= Len(n.log) /\ first \in Nat /\ first > 0
          /\ first <= Len(m.entries)
          BY <2>4, <2>7, <2>10, <2>19
    <3>2. log = SubSeq(n.log, 1, p - b) \o SubSeq(m.entries, first, Len(m.entries))
          BY <2>18
    <3> HIDE DEF log
    <3>3. PICK a \in Nat : a = p - b
          BY <3>1
    <3>4. /\ n.log \in Seq(Entry) /\ m.entries \in Seq(Entry) /\ a <= Len(n.log)
          /\ first \in Nat /\ first > 0 /\ first <= Len(m.entries)
          BY <2>2, <2>8, <3>1, <3>3
    <3>5. log = SubSeq(n.log, 1, a) \o SubSeq(m.entries, first, Len(m.entries))
          BY <3>2, <3>3
    <3>6. log \in Seq(Entry) /\ Spliced(log, n.log, a, m.entries, first)
          BY <3>4, <3>5, SpliceAt, Zenon
    <3> QED BY <2>4, <3>3, <3>6 DEF Spliced
  <2> HIDE DEF log, kept, p, g
  <2>21. Shape(k) /\ k.snap = n.snap /\ k.log = log
         BY <2>8 DEF Shape, NodeFields
  <2> HIDE DEF k
  <2>22. Current(l) /\ l.snap = n.snap /\ l.log = log
         BY <2>21, LogOfRefresh
  <2> HIDE DEF l
  <2>23. l.snap.index = b /\ p = prev + (first - 1)
         BY <2>9, <2>22 DEF p
  <2>24. lastIndex(l) = lastIndex(g)
    <3>1. lastIndex(l) = b + Len(log)
          BY <2>22, <2>23 DEF lastIndex
    <3> QED BY <2>7, <2>16, <2>20, <2>23, <3>1
  <2>25. \A i \in (n.snap.index + 1)..p : entryAt(l, i) = entryAt(n, i)
    <3> TAKE i \in (n.snap.index + 1)..p
    <3>1. i - b \in 1..(p - b)
          BY <2>9, <2>14
    <3> QED BY <2>9, <2>20, <2>22, <2>23, <3>1 DEF entryAt
  <2>26. \A i \in (p + 1)..lastIndex(l) : entryAt(l, i) = entryAt(g, i)
    <3> TAKE i \in (p + 1)..lastIndex(l)
    <3>1. i \in Nat /\ p < i /\ i <= prev + size
          BY <2>14, <2>16, <2>24
    <3>2. i - b \in Nat /\ p - b < i - b /\ i - b <= Len(log)
      <4>1. Len(log) = (p - b) + (size - first + 1)
            BY <2>20
      <4> QED BY <2>7, <2>14, <2>23, <3>1, <4>1
    <3>3. first + ((i - b) - (p - b)) - 1 = i - prev
          BY <2>7, <2>23, <3>1
    <3>4. log[i - b] = m.entries[i - prev]
          BY <2>20, <3>2, <3>3
    <3> QED BY <2>15, <2>22, <2>23, <3>4 DEF entryAt
  <2>27. p < lastIndex(g) /\ (p < lastIndex(n) => termAt(n, p + 1) # termAt(g, p + 1))
    <3>1. p + 1 = prev + first /\ p < prev + size
          BY <2>7, <2>14, <2>23
    <3>2. prev + first > lastIndex(n) \/ termAt(n, prev + first) # m.entries[first].term
          BY <2>3, <2>6 DEF newEntries
    <3>3. p + 1 # 0 /\ p + 1 # prev /\ entryExists(g, p + 1) /\ (p + 1) - prev = first
          BY <2>7, <2>14, <2>15, <2>16, <3>1 DEF entryExists
    <3>4. termAt(g, p + 1) = m.entries[first].term
          BY <2>15, <3>3 DEF termAt, entryAt
    <3> QED BY <2>7, <2>11, <2>14, <2>16, <3>1, <3>2, <3>4
  <2>28. Splices(n, l, g)
    <3>1. /\ n.snap.index <= p /\ p <= lastIndex(n)
          /\ g.snap.index <= p /\ p <= lastIndex(g)
          BY <2>9, <2>11, <2>14, <2>15, <2>16
    <3> QED BY <2>14, <2>17, <2>22, <2>24, <2>25, <2>26, <2>27, <3>1 DEF Splices
  <2> QED BY <2>1, <2>22, <2>28 DEF g
<1> QED BY <1>1, <1>2

\* Splicing is about logs only.
LEMMA SplicesAt ==
    ASSUME NEW n, NEW f, SameLog(n, f), NEW k, NEW l, SameLog(k, l), NEW g, Splices(f, k, g)
    PROVE  Splices(n, l, g)
<1>1. /\ n.snap = f.snap /\ k.snap = l.snap
      /\ lastIndex(n) = lastIndex(f) /\ lastIndex(k) = lastIndex(l)
      /\ \A i : termAt(f, i) = termAt(n, i) /\ entryAt(f, i) = entryAt(n, i)
      /\ \A i : entryAt(l, i) = entryAt(k, i)
      BY SameLogAt DEF SameLog
<1> QED BY <1>1 DEF Splices

\* Accepting entries stores them; moving the commit index touches no log.
LEMMA LogOfAccept ==
    ASSUME NEW n, NodeInv(n), n.role = Follower,
           NEW m, MessageInv(m), m.type = "AppendEntries",
           n.snap.index <= m.prevLogIndex, previousMatches(n, m),
           Len(m.entries) <= MaxIndex - m.prevLogIndex
    PROVE  LET k == acceptEntries(n, m).node
           IN  /\ SameLog(n, k) \/ (Current(k) /\ Splices(n, k, carried(m)))
               /\ k.role = Follower /\ k.term = n.term
<1> DEFINE stored == storeEntries(n, m)
           commit == minimum(m.leaderCommit, lastIndex(stored))
           raised == [stored EXCEPT !.commit = commit]
           k == acceptEntries(n, m).node
<1>1. k = IF m.leaderCommit > n.commit THEN applyCommitted(raised).node ELSE stored
      BY DEF acceptEntries, Result
<1>2. k.role = Follower /\ k.term = n.term
      BY NodeShape, KeepsAccept DEF Keeps, KeepsVote
<1>3. stored = n \/ (Current(stored) /\ Splices(n, stored, carried(m)))
      BY LogOfStore
<1>4. Shape(stored)
      BY NodeShape, KeepsStore DEF KeepsVote
<1> HIDE DEF stored, commit
<1>5. Shape(raised) /\ \A f \in LogFields : raised[f] = stored[f]
      BY <1>4 DEF Shape, NodeFields, LogFields
<1> HIDE DEF raised
<1>6. SameLog(stored, raised)
      BY <1>5, LogOfOthers
<1>7. SameLog(raised, applyCommitted(raised).node)
      BY <1>5, LogOfApply
<1>8. SameLog(stored, stored) /\ SameLog(n, n)
      BY DEF SameLog
<1>9. SameLog(stored, k)
      BY <1>1, <1>6, <1>7, <1>8, SameLogTransitive
<1> HIDE DEF k
<1>10. CASE stored = n
      BY <1>2, <1>9, <1>10 DEF k
<1>11. CASE Current(stored) /\ Splices(n, stored, carried(m))
  <2>1. Current(k)
        BY <1>9, <1>11, SameLogAt
  <2>2. Splices(n, k, carried(m))
        BY <1>8, <1>9, <1>11, SplicesAt
  <2> QED BY <1>2, <2>1, <2>2 DEF k
<1> QED BY <1>3, <1>10, <1>11

\* The receiver of an append or of a snapshot follows the sender first.
LEMMA LogOfFollow ==
    ASSUME NEW n, NodeInv(n), NEW m, MessageInv(m), m.term <= n.term
    PROVE  LET f == followSender(n, m)
           IN  /\ NodeInv(f) /\ f.role = Follower /\ f.term = n.term /\ SameLog(n, f)
               /\ f.commit = n.commit
<1> DEFINE f == followSender(n, m)
<1>1. NodeInv(f) /\ f.role = Follower /\ f.term = n.term
  <2>1. m.term \in Nat /\ n.term \in Nat
        BY NodeShape, ConstantsType DEF MessageInv, MessageOK
  <2> QED BY <2>1, FollowSenderType, NodeShape, KeepsFollowSender DEF KeepsVote
<1>2. SameLog(n, f)
      BY NodeShape, LogOfStepDown DEF followSender, SameLog
<1>3. f.commit = n.commit
      BY NodeShape DEF followSender, becomeFollower, Shape, NodeFields
<1> QED BY <1>1, <1>2, <1>3

\* A refused append or snapshot, answered after following the sender or not.
LEMMA LogOfRefusal ==
    ASSUME NEW n, NEW f, SameLog(n, f), f.role = Follower \/ f = n, NEW a,
           a.type \notin {"AppendEntries", "InstallSnapshot"}, NEW M
    PROVE  /\ LogStep(n, M, Result(f, FALSE, Then(ResetElectionTimer, Sends({a}))))
           /\ LogStep(n, M, Result(f, FALSE, Sends({a})))
<1>1. /\ SendsPart(Sends({a}), f)
      /\ SendsPart(Then(ResetElectionTimer, Sends({a})), f)
      BY AnswerCarriesNoLog, PartEffects
<1>2. Quiet(n, f) /\ (Current(n) => Current(f))
      BY SameLogAt DEF Quiet, Stays
<1> QED BY <1>1, <1>2 DEF LogStep, Result

\* An append is refused, or its entries are spliced into the log.
LEMMA LogOfAppendEntries ==
    ASSUME NEW n, NodeInv(n), NEW m, MessageInv(m), m.type = "AppendEntries",
           m.term <= n.term
    PROVE  LogStep(n, {m}, handleAppendEntries(n, m))
<1> DEFINE f == followSender(n, m)
           answer(g, success, index, hint) == appendResponse(g, m, success, index, hint)
           refuse(hint) == Result(f, FALSE, Then(ResetElectionTimer,
                                                 Sends({answer(f, FALSE, 0, hint)})))
           accepted == acceptEntries(f, m)
           confirm == Sends({answer(accepted.node, TRUE, m.prevLogIndex + Len(m.entries), 0)})
           effects == Then(Then(ResetElectionTimer, accepted.effects), confirm)
<1>1. \/ handleAppendEntries(n, m) =
            Result(n, FALSE, Sends({answer(n, FALSE, 0, nextIndexAfter(lastIndex(n)))}))
      \/ \E hint : handleAppendEntries(n, m) = refuse(hint)
      \/ /\ ~(m.term < n.term)
         /\ ~(m.prevLogIndex < f.snap.index) /\ previousMatches(f, m)
         /\ ~(Len(m.entries) > MaxIndex - m.prevLogIndex)
         /\ handleAppendEntries(n, m) = Result(accepted.node, accepted.dirty, effects)
      BY Zenon DEF handleAppendEntries
<1>2. NodeInv(f) /\ f.role = Follower /\ f.term = n.term /\ SameLog(n, f) /\ SameLog(n, n)
      BY LogOfFollow DEF SameLog
<1>3. \A g, success, index, hint : answer(g, success, index, hint).type = "AppendEntriesResponse"
      BY DEF appendResponse
<1> HIDE DEF f, answer
<1>4. \A hint : LogStep(n, {m}, refuse(hint))
      BY <1>2, <1>3, LogOfRefusal
<1>5. LogStep(n, {m}, Result(n, FALSE, Sends({answer(n, FALSE, 0, nextIndexAfter(lastIndex(n)))})))
      BY <1>2, <1>3, LogOfRefusal
<1>6. ASSUME ~(m.term < n.term), ~(m.prevLogIndex < f.snap.index), previousMatches(f, m),
             ~(Len(m.entries) > MaxIndex - m.prevLogIndex)
      PROVE  LogStep(n, {m}, Result(accepted.node, accepted.dirty, effects))
  <2>1. f.snap.index <= m.prevLogIndex /\ Len(m.entries) <= MaxIndex - m.prevLogIndex
    <3>1. /\ m.prevLogIndex \in 0..MaxIndex /\ m.entries \in Seq(Entry) /\ MaxIndex \in Nat
          /\ Len(m.entries) \in Nat /\ f.snap.index \in 0..MaxIndex
          BY <1>2, LastIndexBounded, ConstantsType DEF MessageInv, MessageOK
    <3> QED BY <1>6, <3>1
  <2>2. accepted.effects.send = {}
        BY <1>2, <1>6, <2>1, AcceptEntriesType
  <2>3. /\ SameLog(f, accepted.node) \/ (Current(accepted.node)
                                            /\ Splices(f, accepted.node, carried(m)))
        /\ accepted.node.role = Follower /\ accepted.node.term = m.term
    <3>1. m.term = n.term
          BY <1>6, NodeShape, ConstantsType DEF MessageInv, MessageOK
    <3> QED BY <1>2, <1>6, <2>1, <3>1, LogOfAccept
  <2> HIDE DEF accepted
  <2>4. SendsPart(effects, accepted.node)
        BY <1>3, <2>2, AnswerCarriesNoLog, PartEffects
  <2> HIDE DEF effects
  <2>5. CASE SameLog(f, accepted.node)
    <3>1. SameLog(n, accepted.node)
          BY <1>2, <2>5, SameLogTransitive
    <3>2. Quiet(n, accepted.node) /\ (Current(n) => Current(accepted.node))
          BY <2>3, <3>1, SameLogAt DEF Quiet, Stays
    <3> QED BY <2>4, <3>2 DEF LogStep, Result
  <2>6. CASE Current(accepted.node) /\ Splices(f, accepted.node, carried(m))
    <3>1. SameLog(accepted.node, accepted.node)
          BY DEF SameLog
    <3>2. Splices(n, accepted.node, carried(m))
          BY <1>2, <2>6, <3>1, SplicesAt
    <3> QED BY <2>3, <2>4, <2>6, <3>2 DEF LogStep, Result
  <2> QED BY <2>3, <2>5, <2>6
<1> HIDE DEF refuse, accepted, effects
<1> QED BY <1>1, <1>4, <1>5, <1>6

\* Of the log, an installed snapshot leaves a suffix that it matches.
LEMMA LogOfInstall ==
    ASSUME NEW n, NodeInv(n), NEW s, SnapshotOK(s), s.index # 0, s.term # 0
    PROVE  LET k == installSnapshot(n, s)
           IN  /\ k.snap = s /\ Current(k)
               /\ \/ Part(k, n) /\ lastIndex(k) = lastIndex(n)
                  \/ k.log = <<>> /\ termAt(n, s.index) # s.term
<1> DEFINE log == retainedSuffix(n, s)
           k == [n EXCEPT !.snap = s, !.log = log, !.commit = s.index, !.applied = s.index]
           l == refreshMembership(k)
<1>1. HardStateOK(n) /\ lastIndex(n) \in Nat /\ n.snap.index \in Nat /\ Shape(n)
      BY NodeShape, LastIndexType
<1>2. s.index \in Nat /\ s.index > 0
      BY ConstantsType DEF SnapshotOK
<1>3. \/ log = <<>> /\ termAt(n, s.index) # s.term
      \/ termAt(n, s.index) = s.term /\ log = entriesFrom(n, s.index + 1)
      BY DEF retainedSuffix
<1>4. installSnapshot(n, s) = l
      BY DEF installSnapshot
<1> HIDE DEF log
<1>5. Shape(k) /\ k.snap = s /\ k.log = log
      BY <1>1 DEF Shape, NodeFields
<1> HIDE DEF k
<1>6. Current(l) /\ l.snap = s /\ l.log = log
      BY <1>5, LogOfRefresh
<1> HIDE DEF l
<1>7. ASSUME termAt(n, s.index) = s.term, log = entriesFrom(n, s.index + 1)
      PROVE  Part(l, n) /\ lastIndex(l) = lastIndex(n)
  <2>1. n.snap.index <= s.index /\ s.index <= lastIndex(n)
    <3>1. s.index = n.snap.index \/ entryExists(n, s.index)
          BY <1>2, <1>7 DEF termAt
    <3> QED BY <1>1, <1>2, <3>1, LastIndexType DEF entryExists
  <2>2. s.index + 1 \in Nat /\ n.snap.index < s.index + 1 /\ s.index + 1 <= lastIndex(n) + 1
        BY <1>1, <1>2, <2>1
  <2>3. Len(log) = lastIndex(n) + 1 - (s.index + 1)
        BY <1>1, <1>7, <2>2, EntriesFromType
  <2>4. \A i \in 1..Len(log) : log[i] = entryAt(n, s.index + i)
    <3> TAKE i \in 1..Len(log)
    <3>1. log[i] = entryAt(n, ((s.index + 1) - 1) + i)
          BY <1>1, <1>7, <2>2, EntriesFromAt
    <3>2. (s.index + 1) - 1 = s.index
          BY <1>2
    <3> QED BY <3>1, <3>2
  <2>5. lastIndex(l) = lastIndex(n)
        BY <1>1, <1>2, <1>6, <2>3 DEF lastIndex
  <2> QED BY <1>1, <1>6, <1>7, <2>1, <2>4, <2>5 DEF Part
<1> QED BY <1>3, <1>4, <1>6, <1>7

\* A snapshot is refused, or installed.
LEMMA LogOfInstallSnapshot ==
    ASSUME NEW n, NodeInv(n), NEW m, MessageInv(m), m.type = "InstallSnapshot",
           m.term <= n.term
    PROVE  LogStep(n, {m}, handleInstallSnapshot(n, m))
<1> DEFINE f == followSender(n, m)
           s == m.snapshot
           answer(g, success, index) == snapshotResponse(g, m, success, index)
           keep(success, index) ==
               Result(f, FALSE, Then(ResetElectionTimer, Sends({answer(f, success, index)})))
           installed == installSnapshot(f, s)
           effects == [Then(ResetElectionTimer, Sends({answer(installed, TRUE, s.index)}))
                            EXCEPT !.install = TRUE]
<1>1. \/ handleInstallSnapshot(n, m) =
            Result(n, FALSE, Sends({answer(n, FALSE, n.snap.index)}))
      \/ \E success, index : handleInstallSnapshot(n, m) = keep(success, index)
      \/ /\ ~(m.term < n.term) /\ s.index # 0 /\ s.term # 0 /\ ~(s.index <= f.commit)
         /\ handleInstallSnapshot(n, m) = Result(installed, TRUE, effects)
      BY Zenon DEF handleInstallSnapshot
<1>2. /\ NodeInv(f) /\ f.role = Follower /\ f.term = n.term /\ SameLog(n, f) /\ SameLog(n, n)
      /\ f.commit = n.commit
      BY LogOfFollow DEF SameLog
<1>3. \A g, success, index : answer(g, success, index).type = "InstallSnapshotResponse"
      BY DEF snapshotResponse
<1>4. SnapshotOK(s)
      BY DEF MessageInv, MessageOK
<1> HIDE DEF f, answer
<1>5. \A success, index : LogStep(n, {m}, keep(success, index))
      BY <1>2, <1>3, LogOfRefusal
<1>6. LogStep(n, {m}, Result(n, FALSE, Sends({answer(n, FALSE, n.snap.index)})))
      BY <1>2, <1>3, LogOfRefusal
<1>7. ASSUME ~(m.term < n.term), s.index # 0, s.term # 0, ~(s.index <= f.commit)
      PROVE  LogStep(n, {m}, Result(installed, TRUE, effects))
  <2>0. n.commit < s.index
    <3>1. n.commit \in Nat /\ s.index \in Nat
          BY <1>4, ConstantsType, SMTT(40) DEF NodeInv, NodeOK, HardStateOK, SnapshotOK
    <3> QED BY <1>2, <1>7, <3>1
  <2>1. /\ installed.snap = s /\ Current(installed)
        /\ \/ Part(installed, f) /\ lastIndex(installed) = lastIndex(f)
           \/ installed.log = <<>> /\ termAt(f, s.index) # s.term
        BY <1>2, <1>4, <1>7, LogOfInstall
  <2>2. installed.role = Follower /\ installed.term = m.term
    <3>0. m.term = n.term
          BY <1>7, NodeShape, ConstantsType DEF MessageInv, MessageOK
    <3> DEFINE log == retainedSuffix(f, s)
               k == [f EXCEPT !.snap = s, !.log = log, !.commit = s.index,
                              !.applied = s.index]
    <3>1. Shape(k) /\ k.role = Follower /\ k.term = m.term
          BY <1>2, <3>0, NodeShape DEF Shape, NodeFields
    <3>2. installed = refreshMembership(k)
          BY DEF installSnapshot
    <3> HIDE DEF k
    <3> QED BY <3>1, <3>2, KeepsRefresh DEF KeepsVote
  <2> HIDE DEF installed
  <2>3. SendsPart(effects, installed)
    <3> DEFINE e == Then(ResetElectionTimer, Sends({answer(installed, TRUE, s.index)}))
    <3>1. SendsPart(e, installed)
          BY <1>3, AnswerCarriesNoLog, PartEffects
    <3>2. [e EXCEPT !.install = TRUE].send = e.send
          BY DEF Then
    <3> HIDE DEF e
    <3>3. effects.send = e.send
          BY <3>2 DEF e
    <3> QED BY <3>1, <3>3 DEF SendsPart
  <2> HIDE DEF effects
  <2>4. /\ Part(installed, f) => Part(installed, n)
        /\ termAt(f, s.index) = termAt(n, s.index) /\ lastIndex(f) = lastIndex(n)
        BY <1>2, SameLogAt
  <2>5. Installs(n, installed, m)
        BY <2>0, <2>1, <2>4 DEF Installs
  <2> HIDE DEF s
  <2> QED BY <2>1, <2>2, <2>3, <2>5 DEF LogStep, Result
<1> HIDE DEF keep, installed, effects
<1> QED BY <1>1, <1>5, <1>6, <1>7

\* Every message handler.
LEMMA LogOfHandler ==
    ASSUME NEW n, NodeInv(n), NEW m, MessageInv(m), m.to = n.id, m.term <= n.term,
           ~handleMessage(n, m).err
    PROVE  LogStep(n, {m}, handleMessage(n, m))
<1>1. m.type \in MessageTypes
      BY DEF MessageInv, MessageOK
<1>2. CASE m.type = "RequestVote"
      BY <1>2, LogOfRequestVote DEF handleMessage
<1>3. CASE m.type = "RequestVoteResponse"
  <2>1. handleMessage(n, m) = handleRequestVoteResponse(n, m)
        BY <1>3 DEF handleMessage
  <2> QED BY <2>1, LogOfRequestVoteResponse
<1>4. CASE m.type = "AppendEntries"
      BY <1>4, LogOfAppendEntries DEF handleMessage
<1>5. CASE m.type = "InstallSnapshot"
      BY <1>5, LogOfInstallSnapshot DEF handleMessage
<1>6. CASE m.type \in {"AppendEntriesResponse", "InstallSnapshotResponse"}
  <2>1. KeepsLog(n, handleMessage(n, m))
        BY <1>6, LogOfResponses
  <2>2. KeepsVote(n, handleMessage(n, m).node)
        BY <1>6, NodeShape, KeepsResponses DEF handleMessage, Keeps
  <2> QED BY <2>1, <2>2, QuietStep
<1> QED BY <1>1, <1>2, <1>3, <1>4, <1>5, <1>6 DEF MessageTypes

\* A step-down before the transition does not change what the transition does.
LEMMA LogStepAfterStepDown ==
    ASSUME NEW n, NEW k, SameLog(n, k), k.role = Follower, k.id = n.id, k.commit = n.commit,
           n.term \in Nat, k.term \in Nat, n.term <= k.term,
           NEW r, r.node.term \in Nat, NEW M, LogStep(k, M, r)
    PROVE  LogStep(n, M, r)
<1>1. /\ \A g : Part(g, k) <=> Part(g, n)
      /\ Current(k) <=> Current(n)
      /\ lastIndex(k) = lastIndex(n)
      /\ \A i : membershipAt(k, i) = membershipAt(n, i)
      BY SameLogAt
<1>2. SameLog(r.node, r.node)
      BY DEF SameLog
<1>3. Quiet(k, r.node) => Quiet(n, r.node)
      BY SameLogTransitive DEF Quiet, Stays
<1>4. Stands(k, r.node) => Stands(n, r.node)
      BY SameLogTransitive DEF Stands, SameLog
<1>5. Appends(k, r.node) => Appends(n, r.node)
      BY DEF Appends, SameLog
<1>6. Wins(k, r.node) => Wins(n, r.node)
      BY <1>5 DEF Wins, SameLog, Follower, Candidate
<1>7. ~Proposes(k, r.node)
      BY DEF Proposes, Follower, Leader
<1>8. Compacts(k, r.node) => Compacts(n, r.node)
      BY <1>1 DEF Compacts, Stays
<1>9. \A m \in M : Splices(k, r.node, carried(m)) => Splices(n, r.node, carried(m))
      BY <1>2, SplicesAt
<1>10. \A m \in M : Installs(k, r.node, m) => Installs(n, r.node, m)
      BY <1>1, SameLogAt DEF Installs
<1> QED BY <1>1, <1>3, <1>4, <1>6, <1>7, <1>8, <1>9, <1>10 DEF LogStep

\* A delivered message: step down if its term is higher, then handle it.
LEMMA LogOfMessage ==
    ASSUME NEW n, NodeInv(n), NEW m, MessageInv(m), m.to = n.id, ~stepMessage(n, m).err
    PROVE  LogStep(n, {m}, stepMessage(n, m))
<1> DEFINE higher == m.term > n.term
           k == IF higher THEN becomeFollower(n, m.term, Nil) ELSE n
           r == handleMessage(k, m)
           q == [r EXCEPT !.dirty = @ \/ higher]
<1>1. m.term \in 0..MaxTerm /\ m.term \in Nat /\ n.term \in Nat
  <2>1. m.term \in 1..MaxTerm /\ MaxTerm \in Nat
        BY ConstantsType DEF MessageInv, MessageOK
  <2> QED BY <2>1, NodeShape
<1>2. stepMessage(n, m) = q
      BY DEF stepMessage
<1>3. /\ NodeInv(k) /\ k.id = n.id /\ m.term <= k.term /\ n.term <= k.term
      /\ k = n \/ (k.role = Follower /\ SameLog(n, k) /\ k.commit = n.commit)
  <2>1. CASE higher
    <3>1. becomeFollower(n, m.term, Nil).commit = n.commit
          BY NodeShape DEF becomeFollower, Shape, NodeFields
    <3> QED BY <1>1, <2>1, <3>1, NodeShape, BecomeFollowerType, LogOfStepDown
  <2>2. CASE ~higher
        BY <1>1, <2>2
  <2> QED BY <2>1, <2>2
<1> HIDE DEF k
<1>4. /\ StepInv(k, r)
      BY <1>3, HandleMessageType
<1> HIDE DEF r
<1>5. /\ q.node = r.node /\ q.effects = r.effects /\ q.err = r.err
      /\ r.dirty => q.dirty
      BY <1>4 DEF StepInv
<1>6. LogStep(k, {m}, r)
      BY <1>2, <1>3, <1>5, LogOfHandler DEF r
<1>7. k.term \in Nat /\ r.node.term \in Nat
      BY <1>3, <1>4, NodeShape DEF StepInv
<1>8. LogStep(n, {m}, r)
      BY <1>1, <1>3, <1>6, <1>7, LogStepAfterStepDown
<1> HIDE DEF q
<1> QED BY <1>2, <1>5, <1>8 DEF LogStep

\* Restarting a node applies entries and touches no log.
LEMMA LogOfStart ==
    ASSUME NEW n, Shape(n)
    PROVE  SameLog(n, Start(n).node)
<1> DEFINE ahead == [n EXCEPT !.applied = n.snap.index]
           installed == IF n.applied < n.snap.index THEN ahead ELSE n
<1>1. Start(n).node = applyCommitted(installed).node
      BY DEF Start, Result
<1>2. Shape(ahead) /\ \A f \in LogFields : ahead[f] = n[f]
      BY DEF Shape, NodeFields, LogFields
<1> HIDE DEF ahead
<1>3. Shape(installed) /\ SameLog(n, installed)
      BY <1>2, LogOfOthers DEF SameLog
<1> HIDE DEF installed
<1> QED BY <1>1, <1>3, LogOfApply, SameLogTransitive

\* A node built from disk holds the log that is on disk.
LEMMA LogOfNew ==
    ASSUME NEW s, NEW d, NEW applied
    PROVE  LET k == New(s, d, applied)
           IN  Current(k) /\ k.snap = d.snap /\ k.log = d.log
<1> DEFINE k == [id |-> s, role |-> Follower, leader |-> Nil,
                 term |-> d.term, votedFor |-> d.votedFor,
                 commit |-> d.commit, snap |-> d.snap, log |-> d.log,
                 applied |-> applied, membership |-> NoMembership,
                 votes |-> {}, electionVotes |-> {}, electionMembership |-> NoMembership,
                 nextIndex |-> ZeroMap, matchIndex |-> ZeroMap, appendSequence |-> ZeroMap]
<1>1. New(s, d, applied) = refreshMembership(k)
      BY DEF New
<1>2. Shape(k) /\ k.snap = d.snap /\ k.log = d.log
      BY DEF Shape, NodeFields
<1> HIDE DEF k
<1> QED BY <1>1, <1>2, LogOfRefresh

-----------------------------------------------------------------------------
(* The cached configuration.  Every handler that touches the log either    *)
(* appends an entry that is no configuration or recomputes the cache, so   *)
(* the property is inductive relative to the type invariant.               *)

\* What a step of s means to a node: one transition of its own.
LEMMA CurrentAfter ==
    ASSUME TypeInv, MembershipIsCurrent, NEW s \in Server, NEW k, Current(k),
           node' = [node EXCEPT ![s] = k]
    PROVE  MembershipIsCurrent'
<1>1. \A u \in Server : node'[u] = IF u = s THEN k ELSE node[u]
      BY DEF TypeInv, TypeOK, PerServer
<1>2. \A u \in Server : Current(node'[u])
      BY <1>1 DEF MembershipIsCurrent, Current
<1> QED BY <1>2 DEF MembershipIsCurrent, Current

\* Timers and client requests keep the cache current.
LEMMA InputsCurrent ==
    ASSUME TypeInv, MembershipIsCurrent, NEW s \in Server,
           \/ ElectionTimeout(s) \/ HeartbeatTimeout(s)
           \/ Snapshot(s) \/ FinalizeMembershipChange(s)
           \/ \E c \in Command : Propose(s, c)
           \/ \E target \in Target : BeginMembershipChange(s, target)
    PROVE  MembershipIsCurrent'
<1> DEFINE n == node[s]
<1>1. NodeInv(n) /\ store[s].applied \in Nat /\ Current(n)
      BY TypeInvAt DEF MembershipIsCurrent, Current
<1>2. \A r, inFlight, t : Submit(s, r, inFlight, t) =>
            ~r.err /\ node' = [node EXCEPT ![s] = r.node]
      BY DEF Submit
<1>3. CASE ElectionTimeout(s)
  <2>1. CASE Submit(s, electionTimeout(n), net, [timer[s] EXCEPT !.election = FALSE])
    <3>1. LogStep(n, {}, electionTimeout(n))
          BY <1>1, <1>2, <2>1, LogOfElectionTimeout
    <3>2. Current(electionTimeout(n).node)
          BY <1>1, <3>1 DEF LogStep
    <3> QED BY <1>2, <2>1, <3>2, CurrentAfter
  <2>2. CASE UNCHANGED node
        BY <2>2 DEF MembershipIsCurrent
  <2> QED BY <1>3, <2>1, <2>2 DEF ElectionTimeout
<1>4. CASE HeartbeatTimeout(s)
  <2>1. Current(heartbeatTimeout(n).node)
        BY <1>1, LogOfHeartbeat, SameLogAt DEF KeepsLog
  <2> QED BY <1>2, <1>4, <2>1, CurrentAfter DEF HeartbeatTimeout
<1>5. CASE Snapshot(s)
  <2> DEFINE r == takeSnapshot(n, store[s].applied, store[s].history)
  <2>1. ~r.err /\ node' = [node EXCEPT ![s] = r.node]
        BY <1>2, <1>5 DEF Snapshot
  <2>2. LogStep(n, {}, r)
        BY <1>1, <2>1, LogOfSnapshot
  <2> HIDE DEF r
  <2>3. Current(r.node)
        BY <1>1, <2>2 DEF LogStep
  <2> QED BY <2>1, <2>3, CurrentAfter
<1>6. CASE FinalizeMembershipChange(s)
      BY <1>1, <1>2, <1>6, LogOfMembershipInputs, CurrentAfter DEF FinalizeMembershipChange
<1>7. CASE \E c \in Command : Propose(s, c)
  <2>1. PICK c \in Command : Propose(s, c)
        BY <1>7
  <2> DEFINE r == proposal(n, c)
  <2>2. ~r.err /\ node' = [node EXCEPT ![s] = r.node]
        BY <1>2, <2>1 DEF Propose
  <2>3. LogStep(n, {}, r)
        BY <1>1, <2>2, LogOfProposal
  <2> HIDE DEF r
  <2>4. Current(r.node)
        BY <1>1, <2>3 DEF LogStep
  <2> QED BY <2>2, <2>4, CurrentAfter
<1>8. CASE \E target \in Target : BeginMembershipChange(s, target)
  <2>1. PICK target \in Target : BeginMembershipChange(s, target)
        BY <1>8
  <2>2. target[1] \in SUBSET Server /\ target[2] \in SUBSET Server
        BY InputAssumption
  <2> DEFINE r == beginMembership(n, target[1], target[2])
  <2>3. ~r.err /\ node' = [node EXCEPT ![s] = r.node]
        BY <1>2, <2>1 DEF BeginMembershipChange
  <2>4. Current(r.node)
        BY <1>1, <2>2, <2>3, LogOfMembershipInputs
  <2> QED BY <2>3, <2>4, CurrentAfter
<1> QED BY <1>3, <1>4, <1>5, <1>6, <1>7, <1>8

\* So does a packet that is delivered or lost.
LEMMA MessagesCurrent ==
    ASSUME TypeInv, MembershipIsCurrent, NEW m \in net, Receive(m) \/ Drop(m)
    PROVE  MembershipIsCurrent'
<1>1. MessageInv(m) /\ m.to \in Server
      BY DEF TypeInv, TypeOK, LogsAreBounded, MessageInv, MessageOK
<1>2. CASE Receive(m)
  <2> DEFINE n == node[m.to]
             r == stepMessage(n, m)
  <2>1. NodeInv(n) /\ n.id = m.to /\ Current(n)
        BY <1>1, TypeInvAt DEF MembershipIsCurrent, Current
  <2>2. ~r.err /\ node' = [node EXCEPT ![m.to] = r.node]
        BY <1>2 DEF Receive, Submit
  <2>3. LogStep(n, {m}, r)
        BY <1>1, <2>1, <2>2, LogOfMessage
  <2> HIDE DEF r
  <2>4. Current(r.node)
        BY <2>1, <2>3 DEF LogStep
  <2> QED BY <1>1, <2>2, <2>4, CurrentAfter
<1>3. CASE Drop(m)
      BY <1>3 DEF Drop, MembershipIsCurrent
<1> QED BY <1>2, <1>3

\* So do crashes and restarts: New recomputes the cache from disk.
LEMMA CrashCurrent ==
    ASSUME TypeInv, MembershipIsCurrent, NEW s \in Server, Crash(s) \/ Restart(s)
    PROVE  MembershipIsCurrent'
<1>1. CASE Crash(s)
  <2>1. node' = [node EXCEPT ![s] = New(s, disk[s], store[s].applied)]
        BY <1>1 DEF Crash
  <2> QED BY <2>1, LogOfNew, CurrentAfter
<1>2. CASE Restart(s)
  <2>1. node' = [node EXCEPT ![s] = Start(node[s]).node]
        BY <1>2 DEF Restart
  <2>2. SameLog(node[s], Start(node[s]).node) /\ Current(node[s])
        BY VoteTypes, LogOfStart DEF MembershipIsCurrent, Current
  <2>3. Current(Start(node[s]).node)
        BY <2>2, SameLogAt
  <2> QED BY <2>1, <2>3, CurrentAfter
<1> QED BY <1>1, <1>2

\* The cached voting configuration of every process is the one its log
\* prescribes: no truncation, compaction, installed snapshot, crash or
\* membership change leaves raft.Node counting votes and acknowledgements
\* against a configuration its log does not hold.
THEOREM ConfigurationIsCurrent == Spec => []MembershipIsCurrent
<1>1. Init => MembershipIsCurrent
      BY LogOfNew DEF Init, MembershipIsCurrent, Current
<1>2. TypeInv /\ MembershipIsCurrent /\ [Next]_vars => MembershipIsCurrent'
  <2> SUFFICES ASSUME TypeInv, MembershipIsCurrent, [Next]_vars PROVE MembershipIsCurrent'
      OBVIOUS
  <2>1. CASE UNCHANGED vars
        BY <2>1 DEF vars, MembershipIsCurrent
  <2>2. ASSUME NEW s \in Server, CompleteWrite(s) \/ AcknowledgeWrite(s)
        PROVE  MembershipIsCurrent'
        BY <2>2 DEF CompleteWrite, AcknowledgeWrite, MembershipIsCurrent
  <2>3. CASE Next
        BY <2>2, <2>3, InputsCurrent, MessagesCurrent, CrashCurrent DEF Next
  <2> QED BY <2>1, <2>3
<1> QED BY <1>1, <1>2, TypeCorrect, PTL DEF Spec

-----------------------------------------------------------------------------
(* Logs and their histories.                                               *)

\* What a history may be.
Histories ==
    [full : [Terms -> Seq(Entry)], lead : [Terms -> Server \cup {Nil}],
     quorum : [Terms -> SUBSET Server]]

\* A section of a log: a boundary and the entries above it.
SectionOK(d) == d.snap.index \in Nat /\ d.log \in Seq(Entry)

\* Nodes, disks and messages hold sections.
LEMMA SectionTypes ==
    /\ \A d : HardStateOK(d) => SectionOK(d)
    /\ \A n : NodeInv(n) => SectionOK(n)
    /\ \A m : MessageOK(m) /\ CarriesLog(m) => SectionOK(carried(m))
<1>1. \A d : HardStateOK(d) => SectionOK(d)
      BY ConstantsType DEF HardStateOK, SnapshotOK, SectionOK
<1>2. \A n : NodeInv(n) => SectionOK(n)
      BY <1>1, NodeShape
<1>3. ASSUME NEW m, MessageOK(m), CarriesLog(m) PROVE SectionOK(carried(m))
  <2>1. CASE m.type = "AppendEntries"
    <3>1. m.prevLogIndex \in 0..MaxIndex /\ m.entries \in Seq(Entry) /\ MaxIndex \in Nat
          BY <1>3, <2>1, ConstantsType DEF MessageOK
    <3> QED BY <2>1, <3>1 DEF carried, SectionOK
  <2>2. CASE m.type = "InstallSnapshot"
    <3>1. m.snapshot.index \in 0..MaxIndex /\ MaxIndex \in Nat
          BY <1>3, <2>2, ConstantsType DEF MessageOK, SnapshotOK
    <3> QED BY <2>2, <3>1 DEF carried, SectionOK
  <2> QED BY <1>3, <2>1, <2>2 DEF CarriesLog
<1> QED BY <1>1, <1>2, <1>3

\* The arithmetic of a section.
LEMMA SectionAt ==
    ASSUME NEW d, SectionOK(d)
    PROVE  /\ d.snap.index \in Nat /\ Len(d.log) \in Nat /\ lastIndex(d) \in Nat
           /\ lastIndex(d) = d.snap.index + Len(d.log)
           /\ d.snap.index <= lastIndex(d)
           /\ \A i \in Nat : entryExists(d, i) <=> d.snap.index < i /\ i <= lastIndex(d)
BY DEF SectionOK, lastIndex, entryExists

\* The entries of a section are those of the sequence it is a section of.
LEMMA WithinAt ==
    ASSUME NEW d, SectionOK(d), NEW f \in Seq(Entry), Within(d, f)
    PROVE  /\ lastIndex(d) <= Len(f)
           /\ \A i \in Nat : d.snap.index < i /\ i <= lastIndex(d) => entryAt(d, i) = f[i]
           /\ \A i \in Nat : i > 0 /\ d.snap.index <= i /\ i <= lastIndex(d) =>
                termAt(d, i) = f[i].term
<1>1. PICK b \in Nat : b = d.snap.index
      BY DEF SectionOK
<1>2. PICK length \in Nat : length = Len(d.log)
      BY SectionAt
<1>3. lastIndex(d) = b + length /\ lastIndex(d) <= Len(f)
      BY <1>1, <1>2 DEF lastIndex, Within
<1>4. \A j \in 1..length : f[b + j] = d.log[j]
      BY <1>1, <1>2 DEF Within
<1>5. ASSUME NEW i \in Nat, b < i, i <= b + length PROVE entryAt(d, i) = f[i]
  <2>1. i - b \in 1..length /\ b + (i - b) = i
        BY <1>5
  <2> QED BY <1>1, <1>4, <2>1 DEF entryAt
<1>6. ASSUME NEW i \in Nat, i > 0, b <= i, i <= b + length PROVE termAt(d, i) = f[i].term
  <2>1. CASE i = b
        BY <1>1, <1>6, <2>1 DEF termAt, Within
  <2>2. CASE i # b
    <3>1. b < i /\ i # 0
          BY <1>6, <2>2
    <3>2. entryExists(d, i) /\ entryAt(d, i) = f[i]
          BY <1>1, <1>3, <1>5, <1>6, <3>1 DEF entryExists
    <3> QED BY <1>1, <2>2, <3>1, <3>2 DEF termAt
  <2> QED BY <2>1, <2>2
<1> QED BY <1>1, <1>3, <1>5, <1>6

\* And conversely.
LEMMA WithinFrom ==
    ASSUME NEW d, SectionOK(d), NEW f \in Seq(Entry), lastIndex(d) <= Len(f),
           d.snap.index > 0 => f[d.snap.index].term = d.snap.term,
           \A i \in Nat : d.snap.index < i /\ i <= lastIndex(d) => entryAt(d, i) = f[i]
    PROVE  Within(d, f)
<1>1. PICK b \in Nat : b = d.snap.index
      BY DEF SectionOK
<1>2. PICK length \in Nat : length = Len(d.log)
      BY SectionAt
<1>3. ASSUME NEW j \in 1..length PROVE f[b + j] = d.log[j]
  <2>1. b + j \in Nat /\ b < b + j /\ b + j <= b + length /\ (b + j) - b = j
        BY <1>3
  <2>2. entryAt(d, b + j) = f[b + j]
        BY <1>1, <1>2, <2>1 DEF lastIndex
  <2> QED BY <1>1, <2>1, <2>2 DEF entryAt
<1> QED BY <1>1, <1>2, <1>3 DEF Within

\* Only the boundary and the entries matter.
LEMMA WithinSame ==
    ASSUME NEW d, NEW e, d.snap = e.snap, d.log = e.log
    PROVE  /\ \A f : Within(d, f) <=> Within(e, f)
           /\ \A h : FromHistory(h, d) <=> FromHistory(h, e)
<1>1. lastIndex(d) = lastIndex(e)
      BY DEF lastIndex
<1>2. \A f : Within(d, f) <=> Within(e, f)
      BY <1>1 DEF Within
<1> QED BY <1>2 DEF FromHistory

\* A part of a section is a section.
LEMMA PartWithin ==
    ASSUME NEW g, SectionOK(g), NEW n, SectionOK(n), Part(g, n),
           NEW f \in Seq(Entry), Within(n, f)
    PROVE  Within(g, f)
<1>1. PICK b \in Nat : b = g.snap.index
      BY DEF SectionOK
<1>2. PICK length \in Nat : length = Len(g.log)
      BY SectionAt
<1>3. /\ n.snap.index \in Nat /\ n.snap.index <= b /\ lastIndex(n) \in Nat
      /\ lastIndex(g) = b + length /\ lastIndex(g) <= lastIndex(n) /\ lastIndex(n) <= Len(f)
      BY <1>1, <1>2, SectionAt, WithinAt DEF Part, lastIndex
<1>4. b > 0 => g.snap.term = f[b].term
      BY <1>1, <1>3, WithinAt DEF Part
<1>5. ASSUME NEW j \in 1..length PROVE g.log[j] = f[b + j]
  <2>1. b + j \in Nat /\ n.snap.index < b + j /\ b + j <= lastIndex(n)
        BY <1>3, <1>5
  <2>2. g.log[j] = entryAt(n, b + j)
        BY <1>1, <1>2 DEF Part
  <2> QED BY <2>1, <2>2, WithinAt
<1>6. lastIndex(g) <= Len(f)
      BY <1>3
<1> QED BY <1>1, <1>2, <1>4, <1>5, <1>6 DEF Within
-----------------------------------------------------------------------------
(* Histories.                                                              *)

\* Two histories with an entry of one term at one index agree up to it.
LEMMA Matching ==
    ASSUME NEW h \in Histories, HistoriesAgree(h), NEW t \in Terms, NEW u \in Terms,
           NEW i \in Nat, i > 0, i <= Len(h.full[t]), i <= Len(h.full[u]),
           h.full[t][i].term = h.full[u][i].term
    PROVE  \A j \in 1..i : h.full[t][j] = h.full[u][j]
<1> DEFINE v == h.full[t][i].term
<1>1. Len(h.full[t]) \in Nat /\ Len(h.full[u]) \in Nat
      BY DEF Histories
<1>2. i \in 1..Len(h.full[t]) /\ i \in 1..Len(h.full[u])
      BY <1>1
<1>3. \A j \in 1..i : h.full[v][j] = h.full[t][j]
      BY <1>2 DEF HistoriesAgree
<1>4. \A j \in 1..i : h.full[v][j] = h.full[u][j]
      BY <1>2 DEF HistoriesAgree
<1> QED BY <1>3, <1>4

\* An entry of a history has a term of its own history, which is not empty.
LEMMA HistoryTerm ==
    ASSUME NEW h \in Histories, HistoriesAgree(h), NEW t \in Terms,
           NEW i \in Nat, i > 0, i <= Len(h.full[t])
    PROVE  /\ h.full[t][i] \in Entry /\ h.full[t][i].term \in Terms
           /\ h.full[h.full[t][i].term] # <<>>
<1> DEFINE u == h.full[t][i].term
<1>1. h.full[t] \in Seq(Entry) /\ Len(h.full[t]) \in Nat
      BY DEF Histories
<1>2. i \in 1..Len(h.full[t])
      BY <1>1
<1>3. h.full[t][i] \in Entry
      BY <1>1, <1>2
<1>4. u \in Terms
      BY <1>3 DEF Entry, Terms
<1>5. i <= Len(h.full[u])
      BY <1>2 DEF HistoriesAgree
<1>6. h.full[u] # <<>>
      BY <1>5
<1> QED BY <1>3, <1>4, <1>6

\* g continues the histories of h.
Continues(h, g) ==
    \A t \in Terms :
        /\ Len(h.full[t]) <= Len(g.full[t])
        /\ \A i \in 1..Len(h.full[t]) : g.full[t][i] = h.full[t][i]

\* What is a section of a history remains one.
LEMMA ContinuesWithin ==
    ASSUME NEW h \in Histories, NEW g \in Histories, Continues(h, g), NEW d, SectionOK(d)
    PROVE  /\ \A t \in Terms : Within(d, h.full[t]) => Within(d, g.full[t])
           /\ FromHistory(h, d) => FromHistory(g, d)
<1>1. ASSUME NEW t \in Terms, Within(d, h.full[t]) PROVE Within(d, g.full[t])
  <2>1. /\ h.full[t] \in Seq(Entry) /\ g.full[t] \in Seq(Entry)
        /\ Len(h.full[t]) \in Nat /\ Len(g.full[t]) \in Nat
        BY DEF Histories
  <2>2. /\ Len(h.full[t]) <= Len(g.full[t])
        /\ \A i \in 1..Len(h.full[t]) : g.full[t][i] = h.full[t][i]
        BY DEF Continues
  <2>3. /\ lastIndex(d) <= Len(h.full[t])
        /\ \A i \in Nat : d.snap.index < i /\ i <= lastIndex(d) =>
                entryAt(d, i) = h.full[t][i]
        BY <1>1, <2>1, WithinAt
  <2>4. /\ d.snap.index \in Nat /\ lastIndex(d) \in Nat /\ d.snap.index <= lastIndex(d)
        BY SectionAt
  <2>5. \A i \in Nat : d.snap.index < i /\ i <= lastIndex(d) => entryAt(d, i) = g.full[t][i]
        BY <2>1, <2>2, <2>3, <2>4
  <2>6. d.snap.index > 0 => g.full[t][d.snap.index].term = d.snap.term
    <3>1. d.snap.index > 0 => d.snap.index \in 1..Len(h.full[t])
          BY <2>1, <2>3, <2>4
    <3>2. d.snap.index > 0 => h.full[t][d.snap.index].term = d.snap.term
          BY <1>1 DEF Within
    <3> QED BY <2>2, <3>1, <3>2
  <2>7. lastIndex(d) <= Len(g.full[t])
        BY <2>1, <2>2, <2>3, <2>4
  <2> QED BY <2>1, <2>5, <2>6, <2>7, WithinFrom
<1> QED BY <1>1 DEF FromHistory

\* handleAppendEntries: what a follower splices together from its own log and
\* the leader's is a section of the history the leader sent.
LEMMA SpliceWithin ==
    ASSUME NEW h \in Histories, HistoriesAgree(h), NEW t \in Terms, NEW u \in Terms,
           NEW n, SectionOK(n), Within(n, h.full[t]),
           NEW g, SectionOK(g), Within(g, h.full[u]),
           NEW k, SectionOK(k), Splices(n, k, g)
    PROVE  Within(k, h.full[u])
<1> DEFINE e == h.full[t]
           f == h.full[u]
<1>1. /\ e \in Seq(Entry) /\ f \in Seq(Entry) /\ Len(e) \in Nat /\ Len(f) \in Nat
      BY DEF Histories
<1>2. PICK p \in Nat :
        /\ n.snap.index <= p /\ p <= lastIndex(n)
        /\ g.snap.index <= p /\ p <= lastIndex(g)
        /\ termAt(n, p) = termAt(g, p)
        /\ \A i \in (n.snap.index + 1)..p : entryAt(k, i) = entryAt(n, i)
        /\ \A i \in (p + 1)..lastIndex(k) : entryAt(k, i) = entryAt(g, i)
      BY DEF Splices
<1>3. k.snap = n.snap /\ lastIndex(k) = lastIndex(g)
      BY DEF Splices
<1>4. PICK b \in Nat : b = n.snap.index
      BY DEF SectionOK
<1>5. PICK last \in Nat : last = lastIndex(g)
      BY SectionAt
<1>6. /\ lastIndex(n) <= Len(e) /\ last <= Len(f) /\ lastIndex(n) \in Nat
      /\ g.snap.index \in Nat
      BY <1>1, <1>5, WithinAt, SectionAt
<1>7. p > 0 => e[p].term = f[p].term
      BY <1>1, <1>2, WithinAt
<1>8. \A j \in 1..p : e[j] = f[j]
  <2>1. CASE p = 0
        BY <2>1
  <2>2. CASE p > 0
    <3>1. p <= Len(e) /\ p <= Len(f)
          BY <1>1, <1>2, <1>5, <1>6
    <3> HIDE DEF e, f
    <3>2. h.full[t][p].term = h.full[u][p].term /\ p <= Len(h.full[t]) /\ p <= Len(h.full[u])
          BY <1>7, <2>2, <3>1 DEF e, f
    <3> QED BY <2>2, <3>2, Matching DEF e, f
  <2> QED BY <2>1, <2>2
<1> HIDE DEF e, f
<1>9. ASSUME NEW i \in Nat, b < i, i <= last PROVE entryAt(k, i) = f[i]
  <2>1. CASE i <= p
    <3>1. i \in (n.snap.index + 1)..p /\ i \in 1..p /\ i <= lastIndex(n)
          BY <1>2, <1>4, <1>6, <1>9, <2>1
    <3>2. entryAt(k, i) = entryAt(n, i)
          BY <1>2, <3>1
    <3>3. entryAt(n, i) = e[i]
          BY <1>1, <1>4, <1>9, <3>1, WithinAt DEF e
    <3> QED BY <1>8, <3>1, <3>2, <3>3
  <2>2. CASE ~(i <= p)
    <3>1. i \in (p + 1)..lastIndex(k) /\ g.snap.index < i /\ i <= lastIndex(g)
          BY <1>2, <1>3, <1>5, <1>6, <1>9, <2>2
    <3>2. entryAt(k, i) = entryAt(g, i)
          BY <1>2, <3>1
    <3>3. entryAt(g, i) = f[i]
          BY <1>1, <3>1, WithinAt DEF f
    <3> QED BY <3>2, <3>3
  <2> QED BY <2>1, <2>2
<1>10. k.snap.index > 0 => f[k.snap.index].term = k.snap.term
  <2>1. b > 0 => b \in 1..p
        BY <1>2, <1>4
  <2>2. b > 0 => e[b].term = n.snap.term
        BY <1>4 DEF Within, e
  <2> QED BY <1>3, <1>4, <1>8, <2>1, <2>2
<1>11. /\ lastIndex(k) <= Len(f)
       /\ \A i \in Nat : k.snap.index < i /\ i <= lastIndex(k) => entryAt(k, i) = f[i]
      BY <1>3, <1>4, <1>5, <1>6, <1>9
<1>12. Within(k, f)
      BY <1>1, <1>10, <1>11, WithinFrom
<1> QED BY <1>12 DEF f

\* A section of a history without configuration entries leaves the initial
\* configuration in force.
LEMMA PlainLog ==
    ASSUME NEW h \in Histories,
           \A t \in Terms : \A i \in 1..Len(h.full[t]) : PlainEntry(h.full[t][i]),
           NEW d, SectionOK(d), FromHistory(h, d), PlainSnapshot(d.snap), NEW i \in Nat
    PROVE  membershipAt(d, i) = InitialMembership
<1>1. PICK t \in Terms : Within(d, h.full[t])
      BY DEF FromHistory
<1>2. PICK b \in Nat : b = d.snap.index
      BY DEF SectionOK
<1>3. PICK length \in Nat : length = Len(d.log)
      BY SectionAt
<1>4. PICK total \in Nat : total = Len(h.full[t])
      BY DEF Histories
<1>5. b + length <= total
      BY <1>1, <1>2, <1>3, <1>4 DEF Within, lastIndex
<1>6. \A j \in 1..length : ~isConfig(d.log[j])
  <2> SUFFICES ASSUME NEW j \in 1..length PROVE ~isConfig(d.log[j])
      OBVIOUS
  <2>1. b + j \in 1..total
        BY <1>5
  <2>2. d.log[j] = h.full[t][b + j]
        BY <1>1, <1>2, <1>3 DEF Within
  <2> QED BY <1>4, <2>1, <2>2 DEF PlainEntry
<1>7. baseMembership(d) = InitialMembership
      BY DEF baseMembership, PlainSnapshot
<1>8. CASE i < b
      BY <1>2, <1>8 DEF membershipAt
<1>9. CASE ~(i < b)
  <2> DEFINE c == minimum(i - d.snap.index, Len(d.log))
  <2>1. c \in Nat /\ c <= length
        BY <1>2, <1>3, <1>9 DEF minimum
  <2>2. membershipAt(d, i) = configAfter(baseMembership(d), d.log, c)
        BY <1>2, <1>9 DEF membershipAt
  <2> HIDE DEF c
  <2>3. {j \in 1..c : isConfig(d.log[j])} = {}
        BY <1>6, <2>1
  <2> QED BY <1>7, <2>2, <2>3 DEF configAfter
<1> QED BY <1>8, <1>9

-----------------------------------------------------------------------------
(* Elections.                                                              *)

\* Whoever elected a leader still has: votes are not taken back, and every
\* new one is on a disk that already records one.
LEMMA ElectedKept ==
    ASSUME TypeInv, NEW h, NEW g, HistoryElected(h),
           g.lead = h.lead, g.quorum = h.quorum,
           \A t \in Terms : g.full[t] # <<>> => h.full[t] # <<>>,
           VotesAreRecorded,
           \A x, c \in Server, t \in Terms : Recorded(x, c, t) => Recorded(x, c, t)',
           \A t \in Terms, c \in Server :
                h.full[t] # <<>> /\ h.lead[t] = c /\ node'[c].term = t => node'[c].role # Candidate
    PROVE  HistoryElected(g)'
<1> SUFFICES ASSUME NEW t \in Terms, g.full[t] # <<>>
             PROVE  /\ g.lead[t] \in Server
                    /\ quorum(InitialMembership, g.quorum[t])
                    /\ Recorded(g.lead[t], g.lead[t], t)'
                    /\ node'[g.lead[t]].term = t => node'[g.lead[t]].role # Candidate
                    /\ \A x \in g.quorum[t] \cap Server :
                        /\ Recorded(x, g.lead[t], t)'
                        /\ \A c \in Server : Voted(x, c, t)' => c = g.lead[t]
    BY DEF HistoryElected
<1>1. PICK l : l = h.lead[t]
      OBVIOUS
<1>2. PICK Q : Q = h.quorum[t]
      OBVIOUS
<1>3. h.full[t] # <<>> /\ g.lead[t] = l /\ g.quorum[t] = Q
      BY <1>1, <1>2
<1>4. /\ l \in Server /\ quorum(InitialMembership, Q) /\ Recorded(l, l, t)
      /\ \A x \in Q \cap Server : Recorded(x, l, t) /\ \A c \in Server : Voted(x, c, t) => c = l
      BY <1>1, <1>2, <1>3 DEF HistoryElected
<1>5. t \in Nat /\ t \in 0..MaxTerm
      BY ConstantsType DEF Terms
<1>6. ASSUME NEW x \in Q \cap Server, NEW c \in Server, Voted(x, c, t)' PROVE c = l
  <2>1. CASE Voted(x, c, t)
        BY <1>4, <1>6, <2>1
  <2>2. CASE disk[x].term = t /\ disk[x].votedFor = c
    <3>1. ~(disk[x].term > t) /\ Recorded(x, l, t)
          BY <1>4, <1>5, <2>2
    <3> QED BY <2>2, <3>1 DEF Recorded
  <2> QED BY <1>5, <1>6, <2>1, <2>2 DEF VotesAreRecorded
<1> QED BY <1>1, <1>3, <1>4, <1>6

\* Recorded votes are not taken back while disks do not change.
LEMMA RecordedKept ==
    ASSUME disk' = disk
    PROVE  \A x, c \in Server, t \in Terms : Recorded(x, c, t) => Recorded(x, c, t)'
BY DEF Recorded

\* No candidate wins a term that has a leader.
LEMMA TermIsFree ==
    ASSUME TypeInv, VoteInv, NEW h, HistoryElected(h), NEW s \in Server, Idle(s),
           NEW k, node' = [node EXCEPT ![s] = k], disk' = disk, VotesAreRecorded,
           k.role = Leader, VoteOK(k), k.electionMembership = InitialMembership,
           k.votes \subseteq Server, k.term \in Terms,
           \/ node[s].role = Candidate /\ k.term = node[s].term
           \/ k.term > node[s].term
    PROVE  h.full[k.term] = <<>>
<1> SUFFICES ASSUME h.full[k.term] # <<>> PROVE FALSE
    OBVIOUS
<1>1. PICK t \in Terms : t = k.term
      OBVIOUS
<1>2. PICK l : l = h.lead[t]
      OBVIOUS
<1>3. /\ l \in Server /\ quorum(InitialMembership, h.quorum[t]) /\ Recorded(l, l, t)
      /\ node[l].term = t => node[l].role # Candidate
      /\ \A x \in h.quorum[t] \cap Server :
            Recorded(x, l, t) /\ \A c \in Server : Voted(x, c, t) => c = l
      BY <1>1, <1>2 DEF HistoryElected
<1>4. quorum(InitialMembership, k.electionVotes) /\ k.electionVotes \subseteq k.votes
      BY DEF VoteOK
<1>5. h.quorum[t] \cap k.electionVotes # {}
      BY <1>3, <1>4, InitialMembershipAssumption, QuorumsIntersect
<1>6. PICK x \in Server : x \in h.quorum[t] /\ x \in k.votes
      BY <1>4, <1>5
<1>7. /\ t \in Nat /\ t \in 0..MaxTerm /\ node[s].term \in Nat /\ disk[s].term \in Nat
      /\ node[s].id = s /\ s # Nil
      BY ConstantsType, VoteTypes, NilAssumption DEF Terms
<1>8. disk[s].term = node[s].term /\ disk[s].votedFor = node[s].votedFor
      BY DEF VoteInv, WriteOK, Idle, NoPending
<1>9. /\ node[s].role = Candidate => node[s].votedFor = s
      BY <1>7 DEF VoteInv, VoteOK, Candidate, Follower
<1>10. l # s
      BY <1>1, <1>3, <1>7, <1>8 DEF Recorded
<1>11. x # s
      BY <1>1, <1>3, <1>6, <1>7, <1>8, <1>9, <1>10 DEF Recorded
<1>12. Voted(x, s, t)'
  <2>1. node'[s] = k
        BY DEF TypeInv, TypeOK, PerServer
  <2> QED BY <1>1, <1>6, <1>11, <2>1 DEF Voted, Leader, Follower
<1>13. Voted(x, s, t) \/ (disk[x].term = t /\ disk[x].votedFor = s)
      BY <1>7, <1>12 DEF VotesAreRecorded
<1>14. CASE Voted(x, s, t)
      BY <1>3, <1>6, <1>10, <1>14
<1>15. CASE disk[x].term = t /\ disk[x].votedFor = s
  <2>1. ~(disk[x].term > t) /\ Recorded(x, l, t)
        BY <1>3, <1>6, <1>7, <1>15
  <2> QED BY <1>10, <1>15, <2>1 DEF Recorded
<1> QED BY <1>13, <1>14, <1>15

-----------------------------------------------------------------------------
(* Steps that do not write.                                                *)

PlainHistory(h) == \A t \in Terms : \A i \in 1..Len(h.full[t]) : PlainEntry(h.full[t][i])

\* From h to g, the leader s may have extended the histories of its terms.
HistoryStep(h, g, s) ==
    /\ HistoriesAgree(g) /\ Continues(h, g) /\ PlainHistory(g)
    /\ g.lead = h.lead /\ g.quorum = h.quorum
    /\ \A t \in Terms :
        /\ g.full[t] = h.full[t] \/ (h.full[t] # <<>> /\ h.lead[t] = s)
        /\ \A i \in (Len(h.full[t]) + 1)..Len(g.full[t]) : g.full[t][i].term = t

\* The history of no term appears or disappears.
LEMMA HistoryStepBorn ==
    ASSUME NEW h \in Histories, NEW g \in Histories, NEW s, HistoryStep(h, g, s)
    PROVE  \A t \in Terms : g.full[t] = <<>> <=> h.full[t] = <<>>
<1> SUFFICES ASSUME NEW t \in Terms PROVE g.full[t] = <<>> <=> h.full[t] = <<>>
    OBVIOUS
<1>1. h.full[t] \in Seq(Entry) /\ g.full[t] \in Seq(Entry)
      BY DEF Histories
<1>2. Len(h.full[t]) <= Len(g.full[t])
      BY DEF HistoryStep, Continues
<1> QED BY <1>1, <1>2 DEF HistoryStep

\* Nothing happens to histories.
LEMMA HistoryStepSame ==
    ASSUME NEW h \in Histories, LogInv(h), NEW s
    PROVE  HistoryStep(h, h, s) /\ PlainHistory(h)
<1>1. \A t \in Terms : Len(h.full[t]) \in Nat
      BY DEF Histories
<1>2. Continues(h, h)
      BY <1>1 DEF Continues
<1>3. \A t \in Terms : \A i \in (Len(h.full[t]) + 1)..Len(h.full[t]) : h.full[t][i].term = t
      BY <1>1
<1> QED BY <1>2, <1>3 DEF HistoryStep, LogInv, ConfigurationIsFixed, PlainHistory

\* A leader's term is a term.
LEMMA LeaderTerm ==
    ASSUME NEW n, NodeInv(n), n.role # Follower
    PROVE  n.term \in Terms
<1>1. n.term \in 0..MaxTerm /\ n.term > 0 /\ MaxTerm \in Nat
      BY ConstantsType DEF NodeInv, NodeOK, HardStateOK, ProgressBounded
<1> QED BY <1>1 DEF Terms

\* A log without its last entry.
LEMMA WithoutLastSection ==
    ASSUME NEW n, NodeInv(n), n.log # <<>>
    PROVE  SectionOK(withoutLast(n)) /\ lastIndex(withoutLast(n)) + 1 = lastIndex(n)
<1>1. SectionOK(n)
      BY SectionTypes
<1>2. n.log \in Seq(Entry) /\ n.snap.index \in Nat
      BY <1>1 DEF SectionOK
<1>3. PICK length \in Nat : length = Len(n.log) - 1
  <2>1. Len(n.log) \in Nat /\ Len(n.log) # 0
        BY <1>2
  <2>2. Len(n.log) - 1 \in Nat
        BY <2>1
  <2> QED BY <2>2
<1>4. Len(n.log) = length + 1
      BY <1>2, <1>3
<1>5. SubSeq(n.log, 1, length) \in Seq(Entry) /\ Len(SubSeq(n.log, 1, length)) = length
      BY <1>2, <1>4
<1>6. withoutLast(n) = [snap |-> n.snap, log |-> SubSeq(n.log, 1, length)]
      BY <1>3 DEF withoutLast
<1>7. withoutLast(n).snap = n.snap /\ withoutLast(n).log = SubSeq(n.log, 1, length)
      BY <1>6
<1>8. SectionOK(withoutLast(n))
      BY <1>2, <1>5, <1>7 DEF SectionOK
<1>9. lastIndex(withoutLast(n)) = n.snap.index + length /\ lastIndex(n) = n.snap.index + (length + 1)
      BY <1>4, <1>5, <1>7 DEF lastIndex
<1> QED BY <1>2, <1>8, <1>9

\* A process that takes no step keeps its place in the histories.
LEMMA OtherLogs ==
    ASSUME TypeInv, NEW h \in Histories, NEW g \in Histories, LogInv(h),
           NEW s, HistoryStep(h, g, s), NEW u \in Server, u # s
    PROVE  /\ FromHistory(g, disk[u])
           /\ ~Unborn(g, u) => FromHistory(g, node[u])
           /\ node[u].role = Leader => LeaderLogOK(g, u)
<1> DEFINE n == node[u]
<1>1. /\ FromHistory(h, disk[u])
      /\ ~Unborn(h, u) => FromHistory(h, n)
      /\ n.role = Leader => LeaderLogOK(h, u)
      BY DEF LogInv, LogsFromHistory
<1>2. NodeInv(n) /\ SectionOK(n) /\ SectionOK(disk[u])
      BY TypeInvAt, SectionTypes
<1>3. n.role = Leader => n.term \in Terms
      BY <1>2, LeaderTerm DEF Leader, Follower
<1>4. FromHistory(g, disk[u])
      BY <1>1, <1>2, ContinuesWithin DEF HistoryStep
<1>5. ~Unborn(g, u) => FromHistory(g, n)
      BY <1>1, <1>2, <1>3, ContinuesWithin, HistoryStepBorn DEF HistoryStep, Unborn
<1>6. ASSUME n.role = Leader PROVE LeaderLogOK(g, u)
  <2>1. CASE h.full[n.term] = <<>>
    <3>1. /\ pending[u].phase = "writing"
          /\ n.log # <<>> /\ n.log[Len(n.log)].term = n.term
          /\ PlainEntry(n.log[Len(n.log)])
          /\ FromHistory(h, withoutLast(n))
          BY <1>1, <1>6, <2>1 DEF LeaderLogOK
    <3>2. FromHistory(g, withoutLast(n))
          BY <1>2, <3>1, WithoutLastSection, ContinuesWithin DEF HistoryStep
    <3>3. g.full[n.term] = <<>>
          BY <1>3, <1>6, <2>1, HistoryStepBorn
    <3> QED BY <3>1, <3>2, <3>3 DEF LeaderLogOK
  <2>2. CASE h.full[n.term] # <<>>
    <3>1. /\ h.lead[n.term] = u /\ lastIndex(n) = Len(h.full[n.term])
          /\ Within(n, h.full[n.term])
          BY <1>1, <1>6, <2>2 DEF LeaderLogOK
    <3>2. g.full[n.term] = h.full[n.term] /\ g.lead = h.lead
          BY <1>3, <1>6, <3>1 DEF HistoryStep
    <3> QED BY <2>2, <3>1, <3>2 DEF LeaderLogOK
  <2> QED BY <2>1, <2>2
<1> QED BY <1>4, <1>5, <1>6

\* What a message carries, once it is in the network.
InFlightOK(g, m) ==
    /\ CarriesLog(m) => FromHistory(g, carried(m))
    /\ m.type = "InstallSnapshot" => PlainSnapshot(m.snapshot)

\* What a message carries that waits for a write of node k.
WaitingOK(k, m) ==
    /\ CarriesLog(m) => Part(carried(m), k)
    /\ m.type = "InstallSnapshot" => PlainSnapshot(m.snapshot)

\* The standing of a node in the initial configuration.
StandingOK(h, s, k) ==
    /\ PlainSnapshot(k.snap)
    /\ k.role # Follower => isVoter(InitialMembership, s)
    /\ k.role = Leader => k.electionMembership = InitialMembership
    /\ \A t \in Terms : h.full[t] # <<>> /\ h.lead[t] = s /\ k.term = t => k.role # Candidate

\* One node takes a step and no disk is written: what has to be shown of it.
LEMMA NodeStep ==
    ASSUME TypeInv, NEW h \in Histories, NEW g \in Histories, LogInv(h),
           NEW s \in Server, HistoryStep(h, g, s),
           NEW k, node' = [node EXCEPT ![s] = k], NodeInv(k), disk' = disk, VotesAreRecorded,
           \A u \in Server \ {s} : pending'[u] = pending[u],
           \A m \in pending'[s].effects.send : WaitingOK(k, m),
           \A m \in net' : m \in net \/ InFlightOK(g, m),
           (k.role = Leader /\ g.full[k.term] = <<>>) \/ FromHistory(g, k),
           k.role = Leader => LeaderLogOK(g, s)',
           StandingOK(h, s, k)
    PROVE  LogInv(g)'
<1>1. \A u \in Server : node'[u] = IF u = s THEN k ELSE node[u]
      BY DEF TypeInv, TypeOK, PerServer
<1>2. \A u \in Server : /\ FromHistory(h, disk[u])
                        /\ \A m \in pending[u].effects.send : CarriesLog(m) => Part(carried(m), node[u])
      BY DEF LogInv, LogsFromHistory
<1>3. HistoriesAgree(g)'
      BY DEF HistoryStep, HistoriesAgree
<1>4. ASSUME NEW u \in Server, u # s
      PROVE  /\ FromHistory(g, disk[u])'
             /\ (~Unborn(g, u) => FromHistory(g, node[u]))'
             /\ (node[u].role = Leader => LeaderLogOK(g, u))'
             /\ \A m \in pending'[u].effects.send : CarriesLog(m) => Part(carried(m), node'[u])
  <2>1. node'[u] = node[u] /\ pending'[u] = pending[u] /\ disk'[u] = disk[u]
        BY <1>1, <1>4
  <2>2. /\ FromHistory(g, disk[u])
        /\ ~Unborn(g, u) => FromHistory(g, node[u])
        /\ node[u].role = Leader => LeaderLogOK(g, u)
        BY <1>4, OtherLogs
  <2>3. FromHistory(g, disk[u])' /\ (~Unborn(g, u) => FromHistory(g, node[u]))'
        BY <2>1, <2>2 DEF Unborn
  <2>4. (node[u].role = Leader => LeaderLogOK(g, u))'
        BY <2>1, <2>2 DEF LeaderLogOK
  <2> QED BY <1>2, <2>1, <2>3, <2>4
<1>5. /\ FromHistory(g, disk[s])'
      /\ (~Unborn(g, s) => FromHistory(g, node[s]))'
      /\ (node[s].role = Leader => LeaderLogOK(g, s))'
      /\ \A m \in pending'[s].effects.send : CarriesLog(m) => Part(carried(m), node'[s])
  <2>1. SectionOK(disk[s]) /\ node'[s] = k
        BY <1>1, TypeInvAt, SectionTypes
  <2>2. FromHistory(g, disk[s])
        BY <1>2, <2>1, ContinuesWithin DEF HistoryStep
  <2> QED BY <2>1, <2>2 DEF Unborn, WaitingOK
<1>6. \A m \in net' : CarriesLog(m) => FromHistory(g, carried(m))
  <2> SUFFICES ASSUME NEW m \in net, CarriesLog(m) PROVE FromHistory(g, carried(m))
      BY DEF InFlightOK
  <2>1. SectionOK(carried(m))
        BY SectionTypes DEF TypeInv, TypeOK
  <2> QED BY <2>1, ContinuesWithin DEF HistoryStep, LogInv, LogsFromHistory
<1>7. LogsFromHistory(g)'
      BY <1>4, <1>5, <1>6 DEF LogsFromHistory
<1>8. HistoryElected(g)'
  <2>1. \A t \in Terms : g.full[t] # <<>> => h.full[t] # <<>>
        BY HistoryStepBorn
  <2>2. \A t \in Terms, c \in Server :
            h.full[t] # <<>> /\ h.lead[t] = c /\ node'[c].term = t => node'[c].role # Candidate
        BY <1>1 DEF StandingOK, LogInv, HistoryElected
  <2>3. g.lead = h.lead /\ g.quorum = h.quorum /\ HistoryElected(h)
        BY DEF HistoryStep, LogInv
  <2> QED BY <2>1, <2>2, <2>3, RecordedKept, ElectedKept
<1>9. ConfigurationIsFixed(g)'
  <2>1. \A t \in Terms : \A i \in 1..Len(g.full[t]) : PlainEntry(g.full[t][i])
        BY DEF HistoryStep, PlainHistory
  <2>2. ConfigurationIsFixed(h)
        BY DEF LogInv
  <2>3. ASSUME NEW u \in Server
        PROVE  /\ PlainSnapshot(node'[u].snap) /\ PlainSnapshot(disk'[u].snap)
               /\ node'[u].role # Follower => isVoter(InitialMembership, u)
               /\ node'[u].role = Leader => node'[u].electionMembership = InitialMembership
               /\ \A m \in pending'[u].effects.send :
                    m.type = "InstallSnapshot" => PlainSnapshot(m.snapshot)
    <3>1. CASE u = s
          BY <1>1, <2>2, <3>1 DEF StandingOK, WaitingOK, ConfigurationIsFixed
    <3>2. CASE u # s
          BY <1>1, <2>2, <3>2 DEF ConfigurationIsFixed
    <3> QED BY <3>1, <3>2
  <2>4. \A m \in net' : m.type = "InstallSnapshot" => PlainSnapshot(m.snapshot)
        BY <2>2 DEF ConfigurationIsFixed, InFlightOK
  <2> QED BY <2>1, <2>3, <2>4 DEF ConfigurationIsFixed
<1> QED BY <1>3, <1>7, <1>8, <1>9 DEF LogInv

\* The last entry of a longer sequence, and the others.
LEMMA AppendAt ==
    ASSUME NEW S, NEW f \in Seq(S), NEW e \in S
    PROVE  /\ Append(f, e) \in Seq(S) /\ Len(Append(f, e)) = Len(f) + 1 /\ Len(f) \in Nat
           /\ Append(f, e) # <<>> /\ Append(f, e)[Len(f) + 1] = e
           /\ \A i \in 1..Len(f) : Append(f, e)[i] = f[i]
OBVIOUS

\* A log and the history it ends with grow together.
LEMMA AppendWithin ==
    ASSUME NEW n, SectionOK(n), NEW f \in Seq(Entry), Within(n, f), lastIndex(n) = Len(f),
           NEW e \in Entry, NEW k, k.snap = n.snap, k.log = Append(n.log, e)
    PROVE  Within(k, Append(f, e)) /\ lastIndex(k) = Len(Append(f, e)) /\ SectionOK(k)
<1>1. n.log \in Seq(Entry) /\ n.snap.index \in Nat
      BY DEF SectionOK
<1>2. PICK b \in Nat : b = n.snap.index
      BY <1>1
<1>3. PICK length \in Nat : length = Len(n.log)
      BY <1>1
<1>4. /\ k.log \in Seq(Entry) /\ Len(k.log) = length + 1 /\ k.log[length + 1] = e
      /\ \A i \in 1..length : k.log[i] = n.log[i]
      BY <1>1, <1>3, AppendAt
<1>5. Len(f) = b + length
      BY <1>2, <1>3 DEF lastIndex
<1>6. /\ Len(Append(f, e)) = (b + length) + 1 /\ Append(f, e)[(b + length) + 1] = e
      /\ \A i \in 1..(b + length) : Append(f, e)[i] = f[i]
      BY <1>5, AppendAt
<1>7. lastIndex(k) = b + (length + 1)
      BY <1>2, <1>4 DEF lastIndex
<1>8. ASSUME NEW j \in 1..(length + 1) PROVE Append(f, e)[b + j] = k.log[j]
  <2>1. CASE j = length + 1
    <3>1. b + j = (b + length) + 1
          BY <2>1
    <3> QED BY <1>4, <1>6, <2>1, <3>1
  <2>2. CASE j # length + 1
    <3>1. j \in 1..length /\ b + j \in 1..(b + length)
          BY <1>8, <2>2
    <3>2. f[b + j] = n.log[j]
          BY <1>2, <1>3, <3>1 DEF Within
    <3> QED BY <1>4, <1>6, <3>1, <3>2
  <2> QED BY <2>1, <2>2
<1>9. b > 0 => Append(f, e)[b].term = k.snap.term
  <2>1. b > 0 => b \in 1..(b + length)
        OBVIOUS
  <2>2. b > 0 => f[b].term = n.snap.term
        BY <1>2 DEF Within
  <2> QED BY <1>6, <2>1, <2>2
<1>10. lastIndex(k) = Len(Append(f, e)) /\ lastIndex(k) <= Len(Append(f, e))
      BY <1>6, <1>7
<1>11. SectionOK(k)
      BY <1>1, <1>4 DEF SectionOK
<1> QED BY <1>2, <1>4, <1>8, <1>9, <1>10, <1>11 DEF Within

\* A leader that takes a command extends the history of its term.
LEMMA HistoryGrows ==
    ASSUME NEW h \in Histories, HistoriesAgree(h), PlainHistory(h), NEW T \in Terms,
           h.full[T] # <<>>, NEW e \in Entry, e.term = T, PlainEntry(e)
    PROVE  \E g \in Histories :
                HistoryStep(h, g, h.lead[T]) /\ g.full[T] = Append(h.full[T], e)
<1> DEFINE g == [full |-> [h.full EXCEPT ![T] = Append(h.full[T], e)],
                 lead |-> h.lead, quorum |-> h.quorum]
<1>1. /\ h.full \in [Terms -> Seq(Entry)] /\ h.lead \in [Terms -> Server \cup {Nil}]
      /\ h.quorum \in [Terms -> SUBSET Server]
      BY DEF Histories
<1>2. PICK f \in Seq(Entry) : f = h.full[T]
      BY <1>1
<1>3. PICK l \in Nat : l = Len(f)
      BY <1>2
<1>4. /\ Append(f, e) \in Seq(Entry) /\ Len(Append(f, e)) = l + 1 /\ Append(f, e)[l + 1] = e
      /\ \A i \in 1..l : Append(f, e)[i] = f[i]
      BY <1>2, <1>3, AppendAt
<1>5. /\ g \in Histories /\ g.full[T] = Append(f, e) /\ g.lead = h.lead /\ g.quorum = h.quorum
      /\ \A t \in Terms : t # T => g.full[t] = h.full[t]
      BY <1>1, <1>2, <1>4 DEF Histories
<1> HIDE DEF g
<1>6. \A t \in Terms : Len(h.full[t]) \in Nat
      BY <1>1
<1>7. Continues(h, g)
  <2> SUFFICES ASSUME NEW t \in Terms
               PROVE  /\ Len(h.full[t]) <= Len(g.full[t])
                      /\ \A i \in 1..Len(h.full[t]) : g.full[t][i] = h.full[t][i]
      BY DEF Continues
  <2>1. CASE t = T
        BY <1>2, <1>3, <1>4, <1>5, <2>1
  <2>2. CASE t # T
        BY <1>5, <1>6, <2>2
  <2> QED BY <2>1, <2>2
<1>8. HistoriesAgree(g)
  <2> SUFFICES ASSUME NEW t \in Terms, NEW i \in 1..Len(g.full[t])
               PROVE  /\ i <= Len(g.full[g.full[t][i].term])
                      /\ \A j \in 1..i : g.full[g.full[t][i].term][j] = g.full[t][j]
      BY DEF HistoriesAgree
  <2>1. CASE g.full[t][i].term = T /\ t = T
    <3>1. i <= Len(g.full[T])
          BY <1>4, <1>5, <2>1
    <3> QED BY <2>1, <3>1
  <2>2. CASE g.full[t][i].term # T \/ t # T
    <3>1. i \in 1..Len(h.full[t])
      <4>1. CASE t = T
        <5>1. i \in 1..(l + 1) /\ i # l + 1
              BY <1>4, <1>5, <2>2, <4>1
        <5> QED BY <1>2, <1>3, <4>1, <5>1
      <4>2. CASE t # T
            BY <1>5, <4>2
      <4> QED BY <4>1, <4>2
    <3>2. \A j \in 1..i : g.full[t][j] = h.full[t][j]
      <4>1. \A j \in 1..i : j \in 1..Len(h.full[t])
            BY <1>6, <3>1
      <4> QED BY <1>7, <4>1 DEF Continues
    <3>3. PICK u : u = h.full[t][i].term
          OBVIOUS
    <3>4. i \in Nat /\ i > 0 /\ i <= Len(h.full[t]) /\ g.full[t][i].term = u
          BY <1>6, <3>1, <3>2, <3>3
    <3>5. u \in Terms
          BY <3>3, <3>4, HistoryTerm
    <3>6. i <= Len(h.full[u]) /\ \A j \in 1..i : h.full[u][j] = h.full[t][j]
          BY <3>1, <3>3 DEF HistoriesAgree
    <3>7. Len(h.full[u]) <= Len(g.full[u]) /\ \A j \in 1..i : g.full[u][j] = h.full[u][j]
      <4>1. \A j \in 1..i : j \in 1..Len(h.full[u])
            BY <1>6, <3>4, <3>5, <3>6
      <4> QED BY <1>7, <3>5, <4>1 DEF Continues
    <3>8. Len(g.full[u]) \in Nat
          BY <1>5, <3>5 DEF Histories
    <3>9. i <= Len(g.full[u])
          BY <1>6, <3>4, <3>5, <3>6, <3>7, <3>8
    <3> QED BY <3>2, <3>4, <3>6, <3>7, <3>9
  <2> QED BY <2>1, <2>2
<1>9. PlainHistory(g)
  <2> SUFFICES ASSUME NEW t \in Terms, NEW i \in 1..Len(g.full[t]) PROVE PlainEntry(g.full[t][i])
      BY DEF PlainHistory
  <2>1. CASE t = T /\ i = l + 1
        BY <1>4, <1>5, <2>1
  <2>2. CASE t = T /\ i # l + 1
    <3>1. i \in 1..l
          BY <1>4, <1>5, <2>2
    <3> QED BY <1>2, <1>3, <1>4, <1>5, <2>2, <3>1 DEF PlainHistory
  <2>3. CASE t # T
        BY <1>5, <2>3 DEF PlainHistory
  <2> QED BY <2>1, <2>2, <2>3
<1>10. \A t \in Terms : \A i \in (Len(h.full[t]) + 1)..Len(g.full[t]) : g.full[t][i].term = t
  <2> TAKE t \in Terms
  <2> TAKE i \in (Len(h.full[t]) + 1)..Len(g.full[t])
  <2>1. CASE t = T
        BY <1>2, <1>3, <1>4, <1>5, <2>1
  <2>2. CASE t # T
        BY <1>5, <1>6, <2>2
  <2> QED BY <2>1, <2>2
<1>11. HistoryStep(h, g, h.lead[T])
      BY <1>5, <1>7, <1>8, <1>9, <1>10 DEF HistoryStep
<1> QED BY <1>2, <1>5, <1>11

\* The log of an idle process is a section of a history, its configuration is
\* the initial one, and if it leads it holds the history of its term.
LEMMA IdleLog ==
    ASSUME TypeInv, MembershipIsCurrent, NEW h \in Histories, LogInv(h), NEW s \in Server, Idle(s)
    PROVE  /\ FromHistory(h, node[s]) /\ node[s].membership = InitialMembership
           /\ \A i \in Nat : membershipAt(node[s], i) = InitialMembership
           /\ PlainSnapshot(node[s].snap)
           /\ node[s].role = Leader =>
                /\ h.full[node[s].term] # <<>> /\ h.lead[node[s].term] = s
                /\ lastIndex(node[s]) = Len(h.full[node[s].term])
                /\ Within(node[s], h.full[node[s].term])
<1>1. NodeInv(node[s]) /\ SectionOK(node[s]) /\ lastIndex(node[s]) \in Nat
      BY TypeInvAt, SectionTypes, SectionAt
<1>2. pending[s].phase # "writing"
      BY DEF Idle, NoPending
<1>3. /\ ~Unborn(h, s) => FromHistory(h, node[s])
      /\ node[s].role = Leader => LeaderLogOK(h, s)
      BY DEF LogInv, LogsFromHistory
<1>4. node[s].role = Leader =>
                /\ h.full[node[s].term] # <<>> /\ h.lead[node[s].term] = s
                /\ lastIndex(node[s]) = Len(h.full[node[s].term])
                /\ Within(node[s], h.full[node[s].term])
      BY <1>2, <1>3 DEF LeaderLogOK
<1>5. FromHistory(h, node[s])
      BY <1>3, <1>4 DEF Unborn
<1>6. /\ PlainSnapshot(node[s].snap)
      /\ \A t \in Terms : \A i \in 1..Len(h.full[t]) : PlainEntry(h.full[t][i])
      BY DEF LogInv, ConfigurationIsFixed
<1>7. \A i \in Nat : membershipAt(node[s], i) = InitialMembership
      BY <1>1, <1>5, <1>6, PlainLog
<1> QED BY <1>1, <1>4, <1>5, <1>6, <1>7 DEF MembershipIsCurrent

\* Cluster.submit: what a transition of an idle process does to its log keeps
\* every log a section of some history.
LEMMA SubmitLogs ==
    ASSUME TypeInv, VoteInv, MembershipIsCurrent, VoteInv', VotesAreRecorded,
           NEW h \in Histories, LogInv(h), NEW s \in Server, Idle(s),
           NEW M \in SUBSET net, NEW r, StepInv(node[s], r), LogStep(node[s], M, r),
           NEW inFlight \in SUBSET net, NEW t, Submit(s, r, inFlight, t)
    PROVE  \E g \in Histories : LogInv(g)' /\ HistoryStep(h, g, s)
<1> DEFINE n == node[s]
<1>1. PICK k : k = r.node
      OBVIOUS
<1>2. /\ NodeInv(n) /\ NodeInv(k) /\ SectionOK(n) /\ SectionOK(k) /\ n.id = s /\ k.id = s
      /\ \A m \in r.effects.send : MessageOK(m)
      BY <1>1, TypeInvAt, SectionTypes DEF StepInv, SendsOK, MessageInv
<1>3. /\ FromHistory(h, n) /\ n.membership = InitialMembership
      /\ \A i \in Nat : membershipAt(n, i) = InitialMembership
      /\ PlainSnapshot(n.snap)
      /\ n.role = Leader => /\ h.full[n.term] # <<>> /\ h.lead[n.term] = s
                            /\ lastIndex(n) = Len(h.full[n.term])
                            /\ Within(n, h.full[n.term])
      BY IdleLog
<1>4. /\ node' = [node EXCEPT ![s] = k] /\ disk' = disk /\ node'[s] = k
      BY <1>1 DEF Submit, TypeInv, TypeOK, PerServer
<1>5. \/ /\ r.dirty /\ net' = inFlight
         /\ pending' = [pending EXCEPT ![s] = [phase |-> "writing", effects |-> r.effects]]
      \/ ~r.dirty /\ net' \subseteq inFlight \cup r.effects.send /\ pending' = pending
      BY DEF Submit, Send
<1>6. /\ \A u \in Server \ {s} : pending'[u] = pending[u]
      /\ r.dirty => pending'[s].phase = "writing"
      /\ \A m \in pending'[s].effects.send : m \in r.effects.send
  <2>1. pending[s].effects.send = {}
        BY DEF Idle, NoPending, NoEffects
  <2> QED BY <1>5, <2>1 DEF TypeInv, TypeOK, PerServer
<1>7. /\ HistoriesAgree(h) /\ PlainHistory(h) /\ HistoryElected(h) /\ ConfigurationIsFixed(h)
      /\ HistoryStep(h, h, s)
      BY HistoryStepSame DEF LogInv
<1>8. /\ n.role # Follower => isVoter(InitialMembership, s) /\ n.term \in Terms
      /\ n.role = Leader => n.electionMembership = InitialMembership
      /\ k.role # Follower => k.term \in Terms
      /\ \A T \in Terms : h.full[T] # <<>> /\ h.lead[T] = s /\ n.term = T => n.role # Candidate
      BY <1>2, <1>7, LeaderTerm DEF ConfigurationIsFixed, HistoryElected
<1>9. SendsPart(r.effects, k)
      BY <1>1 DEF LogStep
<1>10. ASSUME NEW g \in Histories, HistoryStep(h, g, s),
              (k.role = Leader /\ g.full[k.term] = <<>> /\ r.dirty) \/ FromHistory(g, k),
              k.role = Leader => LeaderLogOK(g, s)', StandingOK(h, s, k)
       PROVE  LogInv(g)'
  <2>1. \A m \in pending'[s].effects.send : WaitingOK(k, m)
        BY <1>6, <1>9, <1>10 DEF WaitingOK, SendsPart, StandingOK, CarriesLog
  <2>2. ASSUME NEW m \in net', m \notin net PROVE InFlightOK(g, m)
    <3>1. ~r.dirty /\ m \in r.effects.send
          BY <1>5, <2>2
    <3>2. PICK T \in Terms : Within(k, g.full[T])
          BY <1>10, <3>1 DEF FromHistory
    <3>3. g.full[T] \in Seq(Entry)
          BY DEF Histories
    <3>4. CarriesLog(m) => SectionOK(carried(m)) /\ Part(carried(m), k)
          BY <1>2, <1>9, <3>1, SectionTypes DEF SendsPart
    <3>5. CarriesLog(m) => FromHistory(g, carried(m))
          BY <1>2, <3>2, <3>3, <3>4, PartWithin DEF FromHistory
    <3>6. m.type = "InstallSnapshot" => PlainSnapshot(m.snapshot)
          BY <1>9, <1>10, <3>1 DEF SendsPart, CarriesLog, StandingOK
    <3> QED BY <3>5, <3>6 DEF InFlightOK
  <2>3. (k.role = Leader /\ g.full[k.term] = <<>>) \/ FromHistory(g, k)
        BY <1>10
  <2> QED BY <1>2, <1>4, <1>6, <1>10, <2>1, <2>2, <2>3, NodeStep
<1>11. ASSUME Stays(n, k), PlainSnapshot(k.snap) PROVE StandingOK(h, s, k)
      BY <1>8, <1>11 DEF Stays, StandingOK, Follower, Candidate, Leader
<1>12. ASSUME Stays(n, k), lastIndex(k) = lastIndex(n), k.role = Leader,
              \A T \in Terms : Within(n, h.full[T]) => Within(k, h.full[T])
       PROVE  LeaderLogOK(h, s)'
  <2>1. n.role = Leader /\ k.term = n.term
        BY <1>12 DEF Stays, Leader, Follower
  <2>2. Within(k, h.full[k.term]) /\ k.term \in Terms
        BY <1>3, <1>8, <1>12, <2>1 DEF Leader, Follower
  <2> QED BY <1>3, <1>4, <1>12, <2>1, <2>2 DEF LeaderLogOK
<1>13. CASE Quiet(n, k)
  <2>1. k.snap = n.snap /\ k.log = n.log /\ Stays(n, k) /\ lastIndex(k) = lastIndex(n)
        BY <1>13 DEF Quiet, SameLog, lastIndex
  <2>2. FromHistory(h, k) /\ \A T \in Terms : Within(n, h.full[T]) => Within(k, h.full[T])
        BY <1>3, <2>1, WithinSame
  <2>3. StandingOK(h, s, k)
        BY <1>3, <1>11, <2>1
  <2>4. LogInv(h)'
        BY <1>7, <1>10, <1>12, <2>1, <2>2, <2>3
  <2> QED BY <1>7, <2>4
<1>14. CASE Stands(n, k)
  <2>1. k.snap = n.snap /\ k.log = n.log /\ k.role = Candidate /\ k.term > n.term
        BY <1>14 DEF Stands, SameLog
  <2>2. FromHistory(h, k)
        BY <1>3, <2>1, WithinSame
  <2>3. n.term = disk[s].term /\ n.term \in Nat /\ k.term \in Nat
        BY <1>2, NodeShape DEF VoteInv, WriteOK, Idle, NoPending
  <2>4. isVoter(InitialMembership, s)
        BY <1>2, <1>3, <1>14 DEF Stands
  <2>5. \A T \in Terms : ~(h.full[T] # <<>> /\ h.lead[T] = s /\ k.term = T)
        BY <1>7, <2>1, <2>3 DEF HistoryElected, Recorded
  <2>6. StandingOK(h, s, k)
        BY <1>3, <2>1, <2>4, <2>5 DEF StandingOK, Candidate, Leader
  <2>7. LogInv(h)'
        BY <1>7, <1>10, <2>1, <2>2, <2>6 DEF Candidate, Leader
  <2> QED BY <1>7, <2>7
<1>15. CASE r.dirty /\ Wins(n, k)
  <2>1. /\ Appends(n, k) /\ k.role = Leader /\ k.electionMembership = InitialMembership
        /\ \/ n.role = Candidate /\ k.term = n.term
           \/ k.term > n.term
    <3>1. isVoter(n.membership, n.id)
          BY <1>2, <1>3, <1>8, <1>15 DEF Wins, Candidate, Follower
    <3> QED BY <1>3, <1>15, <3>1 DEF Wins
  <2>2. PICK e \in Entry : k.log = Append(n.log, e) /\ e.term = k.term /\ PlainEntry(e)
        BY <2>1 DEF Appends
  <2>3. VoteOK(k) /\ k.votes \subseteq Server /\ k.term \in Terms
        BY <1>2, <1>4, <1>8, <2>1 DEF VoteInv, NodeInv, NodeOK, Leader, Follower
  <2>4. h.full[k.term] = <<>>
        BY <1>4, <1>7, <2>1, <2>3, TermIsFree
  <2>5. n.log \in Seq(Entry)
        BY <1>2 DEF SectionOK
  <2>6. k.log # <<>> /\ k.log[Len(k.log)] = e /\ SubSeq(k.log, 1, Len(k.log) - 1) = n.log
        BY <2>2, <2>5
  <2>7. FromHistory(h, withoutLast(k))
    <3>1. withoutLast(k).snap = n.snap /\ withoutLast(k).log = n.log
          BY <2>1, <2>6 DEF withoutLast, Appends
    <3> QED BY <1>3, <3>1, WithinSame
  <2>8. LeaderLogOK(h, s)'
        BY <1>4, <1>6, <1>15, <2>2, <2>4, <2>6, <2>7 DEF LeaderLogOK
  <2>9. StandingOK(h, s, k)
    <3>1. isVoter(InitialMembership, s)
          BY <1>2, <1>3, <1>8, <1>15 DEF Wins, Candidate, Follower
    <3> QED BY <1>3, <2>1, <3>1 DEF StandingOK, Candidate, Leader, Appends
  <2>10. LogInv(h)'
        BY <1>7, <1>10, <1>15, <2>1, <2>4, <2>8, <2>9
  <2> QED BY <1>7, <2>10
<1>16. CASE Proposes(n, k)
  <2>1. /\ Appends(n, k) /\ n.role = Leader /\ k.role = Leader /\ k.term = n.term
        /\ k.electionMembership = n.electionMembership /\ k.snap = n.snap
        BY <1>16 DEF Proposes, Appends
  <2>2. PICK e \in Entry : k.log = Append(n.log, e) /\ e.term = k.term /\ PlainEntry(e)
        BY <2>1 DEF Appends
  <2>3. PICK T \in Terms : T = n.term
        BY <1>8, <2>1 DEF Leader, Follower
  <2>4. /\ h.full[T] # <<>> /\ h.lead[T] = s /\ lastIndex(n) = Len(h.full[T])
        /\ Within(n, h.full[T]) /\ h.full[T] \in Seq(Entry)
        BY <1>3, <2>1, <2>3 DEF Histories
  <2>5. PICK g \in Histories : HistoryStep(h, g, s) /\ g.full[T] = Append(h.full[T], e)
        BY <1>7, <2>1, <2>2, <2>3, <2>4, HistoryGrows
  <2>6. Within(k, g.full[T]) /\ lastIndex(k) = Len(g.full[T])
        BY <1>2, <2>1, <2>2, <2>4, <2>5, AppendWithin, SMTT(40)
  <2>7. g.full[T] # <<>> /\ g.lead = h.lead
        BY <2>4, <2>5, HistoryStepBorn DEF HistoryStep
  <2>8. LeaderLogOK(g, s)'
        BY <1>4, <2>1, <2>3, <2>4, <2>6, <2>7 DEF LeaderLogOK
  <2>9. FromHistory(g, k)
        BY <2>6 DEF FromHistory
  <2>10. StandingOK(h, s, k)
        BY <1>3, <1>8, <2>1 DEF StandingOK, Candidate, Leader, Follower
  <2> QED BY <1>10, <2>5, <2>8, <2>9, <2>10
<1>17. CASE Compacts(n, k)
  <2>1. /\ Part(k, n) /\ lastIndex(k) = lastIndex(n) /\ Stays(n, k)
        /\ k.snap.membership = InitialMembership
    <3>1. k.snap.index \in Nat
          BY <1>2 DEF SectionOK
    <3> QED BY <1>3, <1>17, <3>1 DEF Compacts
  <2>2. \A T \in Terms : Within(n, h.full[T]) => Within(k, h.full[T])
    <3>1. \A T \in Terms : h.full[T] \in Seq(Entry)
          BY DEF Histories
    <3> QED BY <1>2, <2>1, <3>1, PartWithin
  <2>3. FromHistory(h, k) /\ PlainSnapshot(k.snap)
        BY <1>3, <2>1, <2>2 DEF FromHistory, PlainSnapshot
  <2>4. StandingOK(h, s, k)
        BY <1>11, <2>1, <2>3
  <2>5. LogInv(h)'
        BY <1>7, <1>10, <1>12, <2>1, <2>2, <2>3, <2>4
  <2> QED BY <1>7, <2>5
<1>18. CASE \E m \in M : /\ k.role = Follower
                         /\ \/ m.type = "AppendEntries" /\ Splices(n, k, carried(m))
                            \/ Installs(n, k, m)
  <2>1. PICK m \in M : /\ k.role = Follower
                       /\ \/ m.type = "AppendEntries" /\ Splices(n, k, carried(m))
                          \/ Installs(n, k, m)
        BY <1>18
  <2>2. /\ CarriesLog(m) /\ SectionOK(carried(m)) /\ FromHistory(h, carried(m))
        /\ m.type = "InstallSnapshot" => PlainSnapshot(m.snapshot)
    <3>1. m \in net /\ MessageOK(m) /\ CarriesLog(m)
          BY <2>1 DEF TypeInv, TypeOK, CarriesLog, Installs
    <3> QED BY <3>1, SectionTypes DEF LogInv, LogsFromHistory, ConfigurationIsFixed
  <2>3. PICK u \in Terms : Within(n, h.full[u])
        BY <1>3 DEF FromHistory
  <2>4. PICK v \in Terms : Within(carried(m), h.full[v])
        BY <2>2 DEF FromHistory
  <2>5. FromHistory(h, k) /\ PlainSnapshot(k.snap)
    <3>1. CASE Splices(n, k, carried(m))
      <4>1. Within(k, h.full[v])
            BY <1>2, <1>7, <2>2, <2>3, <2>4, <3>1, SpliceWithin
      <4> QED BY <1>3, <3>1, <4>1 DEF FromHistory, Splices
    <3>2. CASE Installs(n, k, m) /\ k.log = <<>>
      <4>1. carried(m).snap = k.snap /\ carried(m).log = k.log
            BY <3>2 DEF Installs, carried
      <4> QED BY <2>2, <3>2, <4>1, WithinSame DEF Installs
    <3>3. CASE Installs(n, k, m) /\ Part(k, n)
      <4>1. h.full[u] \in Seq(Entry)
            BY DEF Histories
      <4>2. Within(k, h.full[u])
            BY <1>2, <2>3, <3>3, <4>1, PartWithin
      <4> QED BY <2>2, <3>3, <4>2 DEF Installs, FromHistory
    <3> QED BY <2>1, <3>1, <3>2, <3>3 DEF Installs
  <2>6. StandingOK(h, s, k)
        BY <1>11, <2>1, <2>5 DEF Stays
  <2>7. LogInv(h)'
        BY <1>7, <1>10, <2>1, <2>5, <2>6 DEF Follower, Leader
  <2> QED BY <1>7, <2>7
<1> QED BY <1>1, <1>13, <1>14, <1>15, <1>16, <1>17, <1>18 DEF LogStep

-----------------------------------------------------------------------------
(* The persistence barrier: an election takes effect, and the history of   *)
(* its term begins, when the write that records it completes.              *)

\* The section of a history that a section reaches into.
LEMMA PrefixWithin ==
    ASSUME NEW d, SectionOK(d), NEW f \in Seq(Entry), Within(d, f)
    PROVE  /\ SubSeq(f, 1, lastIndex(d)) \in Seq(Entry)
           /\ Len(SubSeq(f, 1, lastIndex(d))) = lastIndex(d)
           /\ \A i \in 1..lastIndex(d) : SubSeq(f, 1, lastIndex(d))[i] = f[i]
           /\ Within(d, SubSeq(f, 1, lastIndex(d)))
<1>1. PICK last \in Nat : last = lastIndex(d)
      BY SectionAt
<1>2. last <= Len(f) /\ d.snap.index \in Nat /\ d.snap.index <= last
      BY <1>1, SectionAt, WithinAt
<1>3. PICK prefix \in Seq(Entry) : prefix = SubSeq(f, 1, last)
  <2>1. SubSeq(f, 1, last) \in Seq(Entry)
        BY <1>2
  <2> QED BY <2>1
<1>4. Len(prefix) = last /\ \A i \in 1..last : prefix[i] = f[i]
      BY <1>2, <1>3
<1>5. d.snap.index > 0 => prefix[d.snap.index].term = d.snap.term
  <2>1. d.snap.index > 0 => d.snap.index \in 1..last
        BY <1>2
  <2>2. d.snap.index > 0 => f[d.snap.index].term = d.snap.term
        BY DEF Within
  <2> QED BY <1>4, <2>1, <2>2
<1>6. \A i \in Nat : d.snap.index < i /\ i <= lastIndex(d) => entryAt(d, i) = prefix[i]
  <2> SUFFICES ASSUME NEW i \in Nat, d.snap.index < i, i <= last
               PROVE  entryAt(d, i) = prefix[i]
      BY <1>1
  <2>1. i \in 1..last
        BY <1>2
  <2>2. entryAt(d, i) = f[i]
        BY <1>1, WithinAt
  <2> QED BY <1>4, <2>1, <2>2
<1>7. Within(d, prefix)
      BY <1>1, <1>4, <1>5, <1>6, WithinFrom
<1> QED BY <1>1, <1>3, <1>4, <1>7

\* From h to g, the history of the term T begins.
HistoryBegins(h, g, T, f, l, Q) ==
    /\ HistoriesAgree(g) /\ PlainHistory(g) /\ Continues(h, g)
    /\ g.full[T] = f /\ g.lead[T] = l /\ g.quorum[T] = Q
    /\ \A t \in Terms \ {T} :
        g.full[t] = h.full[t] /\ g.lead[t] = h.lead[t] /\ g.quorum[t] = h.quorum[t]

\* A new leader's history: a prefix of an earlier one, and its own first entry.
LEMMA HistoryCanBegin ==
    ASSUME NEW h \in Histories, HistoriesAgree(h), PlainHistory(h),
           NEW T \in Terms, h.full[T] = <<>>, NEW u \in Terms,
           NEW prefix \in Seq(Entry), Len(prefix) <= Len(h.full[u]),
           \A i \in 1..Len(prefix) : prefix[i] = h.full[u][i],
           NEW e \in Entry, e.term = T, PlainEntry(e), NEW l \in Server, NEW Q \in SUBSET Server
    PROVE  \E g \in Histories : HistoryBegins(h, g, T, Append(prefix, e), l, Q)
<1> DEFINE g == [full |-> [h.full EXCEPT ![T] = Append(prefix, e)],
                 lead |-> [h.lead EXCEPT ![T] = l], quorum |-> [h.quorum EXCEPT ![T] = Q]]
<1>1. /\ h.full \in [Terms -> Seq(Entry)] /\ h.lead \in [Terms -> Server \cup {Nil}]
      /\ h.quorum \in [Terms -> SUBSET Server]
      BY DEF Histories
<1>2. PICK p \in Nat : p = Len(prefix)
      OBVIOUS
<1>3. /\ Append(prefix, e) \in Seq(Entry) /\ Len(Append(prefix, e)) = p + 1
      /\ Append(prefix, e)[p + 1] = e
      /\ \A i \in 1..p : Append(prefix, e)[i] = prefix[i]
      BY <1>2, AppendAt
<1>4. /\ g \in Histories /\ g.full[T] = Append(prefix, e) /\ g.lead[T] = l /\ g.quorum[T] = Q
      /\ \A t \in Terms \ {T} :
            g.full[t] = h.full[t] /\ g.lead[t] = h.lead[t] /\ g.quorum[t] = h.quorum[t]
      BY <1>1, <1>3 DEF Histories
<1> HIDE DEF g
<1>5. \A t \in Terms : Len(h.full[t]) \in Nat
      BY <1>1
<1>6. \A i \in 1..p : g.full[T][i] = h.full[u][i] /\ i \in 1..Len(h.full[u])
      BY <1>2, <1>3, <1>4, <1>5
<1>7. Continues(h, g)
  <2>1. Len(h.full[T]) = 0 /\ Len(g.full[T]) \in Nat
        BY <1>4 DEF Histories
  <2> QED BY <1>4, <1>5, <2>1, SMTT(40) DEF Continues
<1>8. ASSUME NEW t \in Terms, NEW i \in 1..Len(h.full[t])
      PROVE  \E v \in Terms \ {T} :
                /\ v = h.full[t][i].term /\ i <= Len(g.full[v])
                /\ \A j \in 1..i : g.full[v][j] = h.full[t][j]
  <2>1. PICK v : v = h.full[t][i].term
        OBVIOUS
  <2>2. i \in Nat /\ i > 0 /\ i <= Len(h.full[t])
        BY <1>5, <1>8
  <2>3. v \in Terms \ {T}
        BY <2>1, <2>2, HistoryTerm
  <2>4. i <= Len(h.full[v]) /\ \A j \in 1..i : h.full[v][j] = h.full[t][j]
        BY <2>1 DEF HistoriesAgree
  <2>5. g.full[v] = h.full[v]
        BY <1>4, <2>3
  <2>6. i <= Len(g.full[v]) /\ \A j \in 1..i : g.full[v][j] = h.full[t][j]
        BY <2>4, <2>5
  <2> QED BY <2>1, <2>3, <2>6
<1>9. HistoriesAgree(g)
  <2> SUFFICES ASSUME NEW t \in Terms, NEW i \in 1..Len(g.full[t])
               PROVE  /\ i <= Len(g.full[g.full[t][i].term])
                      /\ \A j \in 1..i : g.full[g.full[t][i].term][j] = g.full[t][j]
      BY DEF HistoriesAgree
  <2>1. CASE t # T
    <3>1. g.full[t] = h.full[t]
          BY <1>4, <2>1
    <3>2. PICK v \in Terms \ {T} : /\ v = h.full[t][i].term /\ i <= Len(g.full[v])
                                   /\ \A j \in 1..i : g.full[v][j] = h.full[t][j]
          BY <1>8, <3>1
    <3> QED BY <3>1, <3>2
  <2>2. CASE t = T /\ i = p + 1
    <3>1. g.full[t][i].term = t /\ i <= Len(g.full[t])
          BY <1>3, <1>4, <2>2
    <3> QED BY <3>1
  <2>3. CASE t = T /\ i # p + 1
    <3>1. i \in 1..p /\ \A j \in 1..i : j \in 1..p
          BY <1>3, <1>4, <2>3
    <3>2. \A j \in 1..i : g.full[t][j] = h.full[u][j]
          BY <1>6, <2>3, <3>1
    <3>3. i \in 1..Len(h.full[u]) /\ g.full[t][i] = h.full[u][i]
          BY <1>6, <2>3, <3>1
    <3>4. PICK v \in Terms \ {T} : /\ v = h.full[u][i].term /\ i <= Len(g.full[v])
                                   /\ \A j \in 1..i : g.full[v][j] = h.full[u][j]
          BY <1>8, <3>3
    <3> QED BY <3>2, <3>3, <3>4
  <2> QED BY <2>1, <2>2, <2>3
<1>10. PlainHistory(g)
  <2> SUFFICES ASSUME NEW t \in Terms, NEW i \in 1..Len(g.full[t]) PROVE PlainEntry(g.full[t][i])
      BY DEF PlainHistory
  <2>1. CASE t # T
        BY <1>4, <2>1 DEF PlainHistory
  <2>2. CASE t = T /\ i = p + 1
        BY <1>3, <1>4, <2>2
  <2>3. CASE t = T /\ i # p + 1
    <3>1. i \in 1..p
          BY <1>3, <1>4, <2>3
    <3> QED BY <1>6, <2>3, <3>1 DEF PlainHistory
  <2> QED BY <2>1, <2>2, <2>3
<1>11. HistoryBegins(h, g, T, Append(prefix, e), l, Q)
      BY <1>4, <1>7, <1>9, <1>10 DEF HistoryBegins
<1> QED BY <1>4, <1>11

\* What has to be shown of the completion of a write.
LEMMA WriteStep ==
    ASSUME TypeInv, NEW h \in Histories, NEW g \in Histories, LogInv(h),
           HistoriesAgree(g), PlainHistory(g), Continues(h, g),
           NEW s \in Server, CompleteWrite(s),
           \A u \in Server \ {s} : node[u].role = Leader =>
                /\ g.full[node[u].term] = h.full[node[u].term]
                /\ g.lead[node[u].term] = h.lead[node[u].term],
           FromHistory(g, node[s]),
           node[s].role = Leader => /\ g.full[node[s].term] # <<>> /\ g.lead[node[s].term] = s
                                    /\ lastIndex(node[s]) = Len(g.full[node[s].term])
                                    /\ Within(node[s], g.full[node[s].term]),
           HistoryElected(g)'
    PROVE  LogInv(g)'
<1>1. /\ disk' = [disk EXCEPT ![s] = persistentState(node[s])]
      /\ pending' = [pending EXCEPT ![s].phase = "written"]
      /\ UNCHANGED <<node, net>>
      BY DEF CompleteWrite
<1>2. /\ disk'[s].snap = node[s].snap /\ disk'[s].log = node[s].log
      /\ \A u \in Server \ {s} : disk'[u] = disk[u]
      BY <1>1 DEF TypeInv, TypeOK, PerServer, persistentState
<1>3. /\ pending'[s].effects = pending[s].effects
      /\ \A u \in Server \ {s} : pending'[u] = pending[u]
  <2>1. PendingOK(pending[s])
        BY TypeInvAt
  <2> QED BY <1>1, <2>1 DEF TypeInv, TypeOK, PerServer, PendingOK
<1>4. /\ LogsFromHistory(h) /\ ConfigurationIsFixed(h)
      BY DEF LogInv
<1>5. ASSUME NEW u \in Server, u # s
      PROVE  /\ FromHistory(g, disk[u])'
             /\ (~Unborn(g, u) => FromHistory(g, node[u]))'
             /\ (node[u].role = Leader => LeaderLogOK(g, u))'
  <2>1. NodeInv(node[u]) /\ SectionOK(node[u]) /\ SectionOK(disk[u])
        BY TypeInvAt, SectionTypes
  <2>2. /\ FromHistory(h, disk[u])
        /\ ~Unborn(h, u) => FromHistory(h, node[u])
        /\ node[u].role = Leader => LeaderLogOK(h, u)
        BY <1>4 DEF LogsFromHistory
  <2>3. FromHistory(g, disk[u])'
        BY <1>2, <1>5, <2>1, <2>2, ContinuesWithin
  <2>4. (~Unborn(g, u) => FromHistory(g, node[u]))'
        BY <1>1, <1>5, <2>1, <2>2, ContinuesWithin DEF Unborn
  <2>5. ASSUME node[u].role = Leader PROVE LeaderLogOK(g, u)
    <3>1. /\ g.full[node[u].term] = h.full[node[u].term]
          /\ g.lead[node[u].term] = h.lead[node[u].term] /\ LeaderLogOK(h, u)
          BY <1>5, <2>2, <2>5
    <3>2. node[u].log # <<>> /\ FromHistory(h, withoutLast(node[u])) =>
                FromHistory(g, withoutLast(node[u]))
          BY <2>1, WithoutLastSection, ContinuesWithin
    <3> QED BY <3>1, <3>2 DEF LeaderLogOK
  <2>6. (node[u].role = Leader => LeaderLogOK(g, u))'
        BY <1>1, <1>3, <1>5, <2>5 DEF LeaderLogOK
  <2> QED BY <2>3, <2>4, <2>6
<1>6. /\ FromHistory(g, disk[s])' /\ (~Unborn(g, s) => FromHistory(g, node[s]))'
      /\ (node[s].role = Leader => LeaderLogOK(g, s))'
  <2>1. FromHistory(g, disk'[s])
        BY <1>2, WithinSame
  <2>2. (node[s].role = Leader => LeaderLogOK(g, s))'
        BY <1>1 DEF LeaderLogOK
  <2> QED BY <1>1, <2>1, <2>2
<1>7. \A u \in Server : \A m \in pending'[u].effects.send :
            CarriesLog(m) => Part(carried(m), node'[u])
      BY <1>1, <1>3, <1>4 DEF LogsFromHistory
<1>8. \A m \in net' : CarriesLog(m) => FromHistory(g, carried(m))
  <2> SUFFICES ASSUME NEW m \in net, CarriesLog(m) PROVE FromHistory(g, carried(m))
      BY <1>1
  <2>1. SectionOK(carried(m))
        BY SectionTypes DEF TypeInv, TypeOK
  <2> QED BY <1>4, <2>1, ContinuesWithin DEF LogsFromHistory
<1>9. LogsFromHistory(g)'
      BY <1>5, <1>6, <1>7, <1>8 DEF LogsFromHistory
<1>10. ConfigurationIsFixed(g)'
  <2>1. \A t \in Terms : \A i \in 1..Len(g.full[t]) : PlainEntry(g.full[t][i])
        BY DEF PlainHistory
  <2>2. \A u \in Server : PlainSnapshot(disk'[u].snap)
        BY <1>2, <1>4 DEF ConfigurationIsFixed
  <2>3. \A u \in Server : \A m \in pending'[u].effects.send :
            m.type = "InstallSnapshot" => PlainSnapshot(m.snapshot)
        BY <1>3, <1>4 DEF ConfigurationIsFixed
  <2> QED BY <1>1, <1>4, <2>1, <2>2, <2>3 DEF ConfigurationIsFixed
<1>11. HistoriesAgree(g)'
      BY DEF HistoriesAgree
<1> QED BY <1>9, <1>10, <1>11 DEF LogInv

\* A write takes back no vote.
LEMMA WriteRecords ==
    ASSUME TypeInv, VoteInv, NEW s \in Server, CompleteWrite(s)
    PROVE  /\ \A x, c \in Server, t \in Terms : Recorded(x, c, t) => Recorded(x, c, t)'
           /\ \A x, c, t : Voted(x, c, t)' <=> Voted(x, c, t)
           /\ disk'[s].term = node[s].term /\ disk'[s].votedFor = node[s].votedFor
<1>1. disk' = [disk EXCEPT ![s] = persistentState(node[s])] /\ UNCHANGED <<node, net>>
      BY DEF CompleteWrite
<1>2. /\ disk'[s].term = node[s].term /\ disk'[s].votedFor = node[s].votedFor
      /\ \A u \in Server \ {s} : disk'[u] = disk[u]
      BY <1>1 DEF TypeInv, TypeOK, PerServer, persistentState
<1>3. \A x, c, t : Voted(x, c, t)' <=> Voted(x, c, t)
      BY <1>1 DEF Voted
<1>4. ASSUME NEW c \in Server, NEW t \in Terms, Recorded(s, c, t) PROVE Recorded(s, c, t)'
  <2>1. c # Nil /\ node[s].term \in Nat /\ disk[s].term \in Nat /\ t \in Nat /\ WriteOK(s)
        BY VoteTypes, NilAssumption, ConstantsType DEF Terms, VoteInv
  <2> QED BY <1>2, <1>4, <2>1 DEF Recorded, WriteOK
<1>5. ASSUME NEW x \in Server, x # s, NEW c \in Server, NEW t \in Terms, Recorded(x, c, t)
      PROVE  Recorded(x, c, t)'
      BY <1>2, <1>5 DEF Recorded
<1> QED BY <1>2, <1>3, <1>4, <1>5

\* From h to g, the history of the term of s begins: with a prefix of an
\* earlier one, and one entry.
Opens(h, g, s) ==
    LET n == node[s]
        f == g.full[n.term]
    IN  /\ Unborn(h, s) /\ n.term \in Terms /\ Continues(h, g)
        /\ \A t \in Terms \ {n.term} : g.full[t] = h.full[t]
        /\ Len(f) = lastIndex(n) /\ Within(n, f) /\ f[lastIndex(n)].term = n.term
        /\ \E u \in Terms :
            /\ Within(withoutLast(n), h.full[u])
            /\ \A i \in 1..(lastIndex(n) - 1) : i <= Len(h.full[u]) /\ f[i] = h.full[u][i]

\* What the completion of a write of s does to histories.
HistoryWrite(h, g, s) == (g = h /\ ~Unborn(h, s)) \/ Opens(h, g, s)

\* The completion of a write, whether or not it records an election.
LEMMA WriteLogs ==
    ASSUME TypeInv, VoteInv, VotesAreRecorded, NEW h \in Histories, LogInv(h),
           NEW s \in Server, CompleteWrite(s)
    PROVE  \E g \in Histories : LogInv(g)' /\ HistoryWrite(h, g, s)
<1> DEFINE n == node[s]
<1>1. /\ HistoriesAgree(h) /\ PlainHistory(h) /\ HistoryElected(h) /\ ConfigurationIsFixed(h)
      /\ HistoryStep(h, h, s) /\ LogsFromHistory(h)
      BY HistoryStepSame DEF LogInv
<1>2. NodeInv(n) /\ n.id = s /\ SectionOK(n) /\ node' = node
      BY TypeInvAt, SectionTypes DEF CompleteWrite
<1>3. CASE ~Unborn(h, s)
  <2>1. FromHistory(h, n) /\ (n.role = Leader => LeaderLogOK(h, s))
        BY <1>1, <1>3 DEF LogsFromHistory
  <2>2. n.role = Leader => /\ h.full[n.term] # <<>> /\ h.lead[n.term] = s
                           /\ lastIndex(n) = Len(h.full[n.term])
                           /\ Within(n, h.full[n.term])
        BY <1>3, <2>1 DEF Unborn, LeaderLogOK
  <2>3. \A t \in Terms, c \in Server :
            h.full[t] # <<>> /\ h.lead[t] = c /\ node'[c].term = t => node'[c].role # Candidate
        BY <1>1, <1>2 DEF HistoryElected
  <2>4. HistoryElected(h)'
        BY <1>1, <2>3, WriteRecords, ElectedKept
  <2>5. LogInv(h)'
        BY <1>1, <2>1, <2>2, <2>4, WriteStep DEF HistoryStep
  <2> QED BY <1>3, <2>5 DEF HistoryWrite
<1>4. CASE Unborn(h, s)
  <2>1. PICK T \in Terms : T = n.term
        BY <1>2, <1>4, LeaderTerm DEF Unborn, Leader, Follower
  <2>2. /\ n.role = Leader /\ h.full[T] = <<>>
        /\ n.log # <<>> /\ n.log[Len(n.log)].term = T /\ PlainEntry(n.log[Len(n.log)])
        /\ FromHistory(h, withoutLast(n))
        BY <1>1, <1>4, <2>1 DEF Unborn, LogsFromHistory, LeaderLogOK
  <2>3. PICK d : d = withoutLast(n)
        OBVIOUS
  <2>4. SectionOK(d) /\ lastIndex(d) \in Nat
        BY <1>2, <2>2, <2>3, WithoutLastSection, SectionAt
  <2>5. PICK u \in Terms : Within(d, h.full[u])
        BY <2>2, <2>3 DEF FromHistory
  <2>6. PICK prefix \in Seq(Entry) :
            /\ Len(prefix) = lastIndex(d) /\ Within(d, prefix)
            /\ Len(prefix) <= Len(h.full[u])
            /\ \A i \in 1..Len(prefix) : prefix[i] = h.full[u][i]
    <3>1. h.full[u] \in Seq(Entry)
          BY DEF Histories
    <3>2. PICK p : p = SubSeq(h.full[u], 1, lastIndex(d))
          OBVIOUS
    <3>3. /\ p \in Seq(Entry) /\ Len(p) = lastIndex(d) /\ Within(d, p)
          /\ \A i \in 1..lastIndex(d) : p[i] = h.full[u][i]
          BY <2>4, <2>5, <3>1, <3>2, PrefixWithin
    <3>4. lastIndex(d) <= Len(h.full[u])
          BY <2>5 DEF Within
    <3> QED BY <3>3, <3>4
  <2>7. PICK e \in Entry : e = n.log[Len(n.log)] /\ e.term = T /\ PlainEntry(e)
    <3>1. n.log \in Seq(Entry)
          BY <1>2 DEF SectionOK
    <3>2. n.log[Len(n.log)] \in Entry
          BY <2>2, <3>1
    <3> QED BY <2>2, <3>2
  <2>8. n.snap = d.snap /\ n.log = Append(d.log, e)
    <3>1. n.log \in Seq(Entry)
          BY <1>2 DEF SectionOK
    <3>2. d.snap = n.snap /\ d.log = SubSeq(n.log, 1, Len(n.log) - 1)
          BY <2>3 DEF withoutLast
    <3>3. n.log = Append(SubSeq(n.log, 1, Len(n.log) - 1), n.log[Len(n.log)])
          BY <2>2, <3>1
    <3> QED BY <2>7, <3>2, <3>3
  <2>9. /\ Within(n, Append(prefix, e)) /\ lastIndex(n) = Len(Append(prefix, e))
        /\ Append(prefix, e) # <<>>
    <3>1. Append(prefix, e) # <<>>
          BY <2>6, <2>7, AppendAt
    <3>2. PICK k : k = n
          OBVIOUS
    <3>3. /\ k.snap = d.snap /\ k.log = Append(d.log, e) /\ SectionOK(d)
          /\ Within(d, prefix) /\ lastIndex(d) = Len(prefix)
          BY <2>4, <2>6, <2>8, <3>2
    <3> HIDE DEF n
    <3>4. Within(k, Append(prefix, e)) /\ lastIndex(k) = Len(Append(prefix, e))
          BY <2>6, <2>7, <3>3, AppendWithin
    <3> QED BY <3>1, <3>2, <3>4
  <2>10. PICK Q \in SUBSET Server : Q = n.electionVotes
        BY <1>2 DEF NodeInv, NodeOK
  <2>11. PICK g \in Histories : HistoryBegins(h, g, T, Append(prefix, e), s, Q)
        BY <1>1, <2>2, <2>6, <2>7, HistoryCanBegin
  <2>12. /\ HistoriesAgree(g) /\ PlainHistory(g) /\ Continues(h, g)
         /\ g.full[T] = Append(prefix, e) /\ g.lead[T] = s /\ g.quorum[T] = Q
         /\ \A t \in Terms \ {T} :
                g.full[t] = h.full[t] /\ g.lead[t] = h.lead[t] /\ g.quorum[t] = h.quorum[t]
        BY <2>11 DEF HistoryBegins
  <2>13. FromHistory(g, n) /\ Within(n, g.full[n.term]) /\ g.full[n.term] # <<>>
         /\ g.lead[n.term] = s /\ lastIndex(n) = Len(g.full[n.term])
        BY <2>1, <2>9, <2>12 DEF FromHistory
  <2>14. ASSUME NEW v \in Server \ {s}, node[v].role = Leader
         PROVE  /\ g.full[node[v].term] = h.full[node[v].term]
                /\ g.lead[node[v].term] = h.lead[node[v].term]
    <3>1. NodeInv(node[v]) /\ node[v].term \in Terms
          BY <2>14, TypeInvAt, LeaderTerm DEF Leader, Follower
    <3>2. node[v].electionMembership = node[s].electionMembership
          BY <1>1, <2>2, <2>14 DEF ConfigurationIsFixed
    <3>3. node[v].term # T
          BY <2>1, <2>2, <2>14, <3>2, LeadersAreOne DEF Adjacent
    <3> QED BY <2>12, <3>1, <3>3
  <2>15. ASSUME NEW t \in Terms, t # T, g.full[t] # <<>>
         PROVE  /\ g.lead[t] \in Server
                /\ quorum(InitialMembership, g.quorum[t])
                /\ Recorded(g.lead[t], g.lead[t], t)'
                /\ node'[g.lead[t]].term = t => node'[g.lead[t]].role # Candidate
                /\ \A x \in g.quorum[t] \cap Server :
                    /\ Recorded(x, g.lead[t], t)'
                    /\ \A c \in Server : Voted(x, c, t)' => c = g.lead[t]
    <3>1. PICK l : l = h.lead[t]
          OBVIOUS
    <3>2. h.full[t] # <<>> /\ g.lead[t] = l /\ g.quorum[t] = h.quorum[t]
          BY <2>12, <2>15, <3>1
    <3>3. /\ l \in Server /\ quorum(InitialMembership, h.quorum[t]) /\ Recorded(l, l, t)
          /\ node[l].term = t => node[l].role # Candidate
          /\ \A x \in h.quorum[t] \cap Server :
                Recorded(x, l, t) /\ \A c \in Server : Voted(x, c, t) => c = l
          BY <1>1, <3>1, <3>2 DEF HistoryElected
    <3> QED BY <1>2, <3>2, <3>3, WriteRecords
  <2>16. /\ quorum(InitialMembership, Q) /\ Recorded(s, s, T)'
         /\ \A x \in Q \cap Server :
                Recorded(x, s, T)' /\ \A c \in Server : Voted(x, c, T)' => c = s
    <3>1. /\ quorum(InitialMembership, Q) /\ Q \subseteq n.votes /\ n.votedFor = s
          BY <1>1, <1>2, <2>2, <2>10 DEF VoteInv, VoteOK, ConfigurationIsFixed, Leader, Follower
    <3>2. Recorded(s, s, T)'
          BY <2>1, <3>1, WriteRecords DEF Recorded
    <3>3. T \in 0..MaxTerm
          BY ConstantsType DEF Terms
    <3>4. ASSUME NEW x \in Q \cap Server, x # s
          PROVE  Recorded(x, s, T)' /\ \A c \in Server : Voted(x, c, T)' => c = s
      <4>1. Voted(x, s, T)
            BY <2>1, <2>2, <3>1, <3>4 DEF Voted, Leader, Follower
      <4>2. Recorded(x, s, T) /\ \A c \in Server : Voted(x, c, T) => c = s
            BY <3>3, <4>1 DEF VoteInv, VotesAreFinal
      <4> QED BY <4>2, WriteRecords
    <3>5. ASSUME NEW c \in Server, Voted(s, c, T) PROVE c = s
      <4>1. Recorded(s, c, T)
            BY <3>3, <3>5 DEF VoteInv, VotesAreFinal
      <4>2. c # Nil /\ n.term \in Nat /\ disk[s].term \in Nat /\ WriteOK(s)
            BY VoteTypes, NilAssumption DEF VoteInv
      <4> QED BY <2>1, <3>1, <4>1, <4>2 DEF Recorded, WriteOK
    <3> QED BY <3>1, <3>2, <3>4, <3>5, WriteRecords
  <2>17. HistoryElected(g)'
    <3>1. node'[s].role # Candidate
          BY <1>2, <2>2 DEF Leader, Candidate
    <3> QED BY <2>12, <2>15, <2>16, <3>1 DEF HistoryElected
  <2>18. LogInv(g)'
        BY <2>2, <2>12, <2>13, <2>14, <2>17, WriteStep
  <2>19. Opens(h, g, s)
    <3>1. PICK p \in Nat : p = Len(prefix)
          BY <2>6
    <3>2. /\ Len(Append(prefix, e)) = p + 1 /\ Append(prefix, e)[p + 1] = e
          /\ \A i \in 1..p : Append(prefix, e)[i] = prefix[i]
          BY <2>6, <2>7, <3>1, AppendAt
    <3>3. lastIndex(n) = p + 1 /\ Len(g.full[T]) = p + 1 /\ g.full[T][p + 1].term = T
          BY <2>7, <2>9, <2>12, <3>2
    <3>4. \A i \in 1..p : i <= Len(h.full[u]) /\ g.full[T][i] = h.full[u][i]
      <4>1. Len(h.full[u]) \in Nat
            BY DEF Histories
      <4> QED BY <2>6, <2>12, <3>1, <3>2, <4>1
    <3>5. Within(n, g.full[T])
          BY <2>1, <2>13
    <3>6. (p + 1) - 1 = p
          BY <3>1
    <3> HIDE DEF n
    <3> QED BY <1>4, <2>1, <2>5, <2>3, <2>12, <3>3, <3>4, <3>5, <3>6 DEF Opens, n
  <2> QED BY <2>18, <2>19 DEF HistoryWrite
<1> QED BY <1>3, <1>4

\* The acknowledgement of a write releases sections of the log that was
\* written.
LEMMA AcknowledgeLogs ==
    ASSUME TypeInv, VotesAreRecorded, NEW h \in Histories, LogInv(h),
           NEW s \in Server, AcknowledgeWrite(s)
    PROVE  LogInv(h)'
<1>1. /\ pending[s].phase = "written"
      /\ net' \subseteq net \cup pending[s].effects.send
      /\ pending' = [pending EXCEPT ![s] = NoPending]
      /\ UNCHANGED <<node, disk>>
      BY DEF AcknowledgeWrite, Send
<1>2. /\ pending'[s].effects.send = {}
      /\ \A u \in Server \ {s} : pending'[u] = pending[u]
      BY <1>1 DEF TypeInv, TypeOK, PerServer, NoPending, NoEffects
<1>3. PICK k : k = node[s]
      OBVIOUS
<1>4. node' = [node EXCEPT ![s] = k] /\ NodeInv(k) /\ SectionOK(k)
      BY <1>1, <1>3, TypeInvAt, SectionTypes DEF TypeInv, TypeOK, PerServer
<1>5. /\ HistoryStep(h, h, s) /\ LogsFromHistory(h) /\ ConfigurationIsFixed(h)
      /\ HistoryElected(h)
      BY HistoryStepSame DEF LogInv
<1>6. /\ k.role = Leader => /\ h.full[k.term] # <<>> /\ h.lead[k.term] = s
                            /\ lastIndex(k) = Len(h.full[k.term])
                            /\ Within(k, h.full[k.term])
      /\ FromHistory(h, k)
  <2>1. /\ k.role = Leader => LeaderLogOK(h, s)
        /\ ~Unborn(h, s) => FromHistory(h, k)
        BY <1>3, <1>5 DEF LogsFromHistory
  <2> QED BY <1>1, <1>3, <2>1 DEF LeaderLogOK, Unborn
<1>7. k.role = Leader => LeaderLogOK(h, s)'
  <2>1. node'[s] = k
        BY <1>1, <1>3
  <2> QED BY <1>6, <2>1 DEF LeaderLogOK
<1>8. StandingOK(h, s, k)
      BY <1>3, <1>5 DEF StandingOK, ConfigurationIsFixed, HistoryElected
<1>9. ASSUME NEW m \in pending[s].effects.send PROVE InFlightOK(h, m)
  <2>1. PICK T \in Terms : Within(k, h.full[T])
        BY <1>6 DEF FromHistory
  <2>2. h.full[T] \in Seq(Entry)
        BY DEF Histories
  <2>3. CarriesLog(m) => Part(carried(m), k) /\ SectionOK(carried(m))
        BY <1>3, <1>5, TypeInvAt, SectionTypes DEF LogsFromHistory, MessageInv
  <2>4. CarriesLog(m) => FromHistory(h, carried(m))
        BY <1>4, <2>1, <2>2, <2>3, PartWithin DEF FromHistory
  <2> QED BY <1>5, <2>4 DEF InFlightOK, ConfigurationIsFixed
<1>10. \A m \in net' : m \in net \/ InFlightOK(h, m)
      BY <1>1, <1>9
<1>11. \A m \in pending'[s].effects.send : WaitingOK(k, m)
      BY <1>2
<1> QED BY <1>1, <1>2, <1>4, <1>5, <1>6, <1>7, <1>8, <1>10, <1>11, NodeStep

\* A restart does not change the role.
LEMMA StartRole ==
    ASSUME NEW n, Shape(n)
    PROVE  Start(n).node.role = n.role
<1> DEFINE ahead == [n EXCEPT !.applied = n.snap.index]
           installed == IF n.applied < n.snap.index THEN ahead ELSE n
<1>1. Start(n).node = applyCommitted(installed).node
      BY DEF Start, Result
<1>2. Shape(installed) /\ installed.role = n.role
      BY DEF Shape, NodeFields
<1> HIDE DEF installed
<1>3. applyCommitted(installed).node.role = installed.role
      BY <1>2 DEF applyCommitted, Result, Shape, NodeFields
<1> QED BY <1>1, <1>2, <1>3

\* A crash falls back to the log on disk, and a restart keeps it.
LEMMA CrashLogs ==
    ASSUME TypeInv, TypeInv', VotesAreRecorded, NEW h \in Histories, LogInv(h),
           NEW s \in Server, Crash(s) \/ Restart(s)
    PROVE  LogInv(h)'
<1>1. /\ HistoryStep(h, h, s) /\ LogsFromHistory(h) /\ ConfigurationIsFixed(h)
      /\ HistoryElected(h)
      BY HistoryStepSame DEF LogInv
<1>2. NodeInv(node'[s])
  <2>1. \A u \in Server : NodeInv(node[u])'
        BY DEF TypeInv, TypeOK, LogsAreBounded, NodeInv
  <2> QED BY <2>1
<1>3. CASE Crash(s)
  <2>1. PICK k : k = New(s, disk[s], store[s].applied)
        OBVIOUS
  <2>2. /\ node' = [node EXCEPT ![s] = k] /\ disk' = disk /\ net' = net
        /\ pending' = [pending EXCEPT ![s] = NoPending]
        BY <1>3, <2>1 DEF Crash
  <2>3. /\ node'[s] = k /\ pending'[s].effects.send = {}
        /\ \A u \in Server \ {s} : pending'[u] = pending[u]
        BY <2>2 DEF TypeInv, TypeOK, PerServer, NoPending, NoEffects
  <2>4. k.role = Follower /\ k.snap = disk[s].snap /\ k.log = disk[s].log
        BY <2>1, NewVotes, LogOfNew
  <2>5. FromHistory(h, k)
        BY <1>1, <2>4, WithinSame DEF LogsFromHistory
  <2>6. StandingOK(h, s, k)
        BY <1>1, <2>4 DEF StandingOK, ConfigurationIsFixed, Follower, Leader, Candidate
  <2>7. k.role # Leader
        BY <2>4 DEF Follower, Leader
  <2>8. NodeInv(k) /\ \A m \in pending'[s].effects.send : WaitingOK(k, m)
        BY <1>2, <2>3
  <2> QED BY <1>1, <2>2, <2>3, <2>5, <2>6, <2>7, <2>8, NodeStep
<1>4. CASE Restart(s)
  <2>1. PICK k : k = Start(node[s]).node
        OBVIOUS
  <2>2. /\ node' = [node EXCEPT ![s] = k] /\ disk' = disk /\ net' = net /\ pending' = pending
        BY <1>4, <2>1 DEF Restart
  <2>3. node'[s] = k /\ NodeInv(k)
        BY <1>2, <2>2 DEF TypeInv, TypeOK, PerServer
  <2>4. /\ SameLog(node[s], k) /\ KeepsVote(node[s], k)
        BY <2>1, VoteTypes, LogOfStart, StartVotes
  <2>5. /\ k.snap = node[s].snap /\ k.log = node[s].log /\ Stays(node[s], k)
        /\ lastIndex(k) = lastIndex(node[s]) /\ (\A g : Part(g, k) <=> Part(g, node[s]))
        BY <2>4, SameLogAt DEF SameLog, KeepsVote, Stays
  <2>6. /\ k.role = Leader => node[s].role = Leader /\ k.term = node[s].term
        /\ k.role = Candidate => node[s].role = Candidate /\ k.term = node[s].term
        BY <2>5 DEF Stays, Leader, Follower, Candidate
  <2>7. (k.role = Leader /\ h.full[k.term] = <<>>) \/ FromHistory(h, k)
    <3>1. ~Unborn(h, s) => FromHistory(h, k)
          BY <1>1, <2>5, WithinSame DEF LogsFromHistory
    <3>2. k.role = node[s].role
          BY <2>1, VoteTypes, StartRole
    <3> QED BY <2>6, <3>1, <3>2 DEF Unborn
  <2>8. k.role = Leader => LeaderLogOK(h, s)'
    <3> SUFFICES ASSUME k.role = Leader PROVE LeaderLogOK(h, s)'
        OBVIOUS
    <3>1. LeaderLogOK(h, s)
          BY <1>1, <2>6 DEF LogsFromHistory
    <3>2. withoutLast(k) = withoutLast(node[s])
          BY <2>5 DEF withoutLast
    <3>3. Within(node[s], h.full[k.term]) => Within(k, h.full[k.term])
          BY <2>5, WithinSame
    <3> QED BY <2>2, <2>3, <2>5, <2>6, <3>1, <3>2, <3>3 DEF LeaderLogOK
  <2>9. StandingOK(h, s, k)
        BY <1>1, <2>5, <2>6
        DEF StandingOK, Stays, ConfigurationIsFixed, HistoryElected, Follower, Leader, Candidate
  <2>10. \A m \in pending'[s].effects.send : WaitingOK(k, m)
        BY <1>1, <2>2, <2>5 DEF WaitingOK, LogsFromHistory, ConfigurationIsFixed
  <2> QED BY <1>1, <2>2, <2>3, <2>7, <2>8, <2>9, <2>10, NodeStep
<1> QED BY <1>3, <1>4

-----------------------------------------------------------------------------
(* The theorems.                                                           *)

\* The inductive invariant: some histories explain every log.
LogHistory == \E h \in Histories : LogInv(h)

\* There are histories without an entry.
LEMMA EmptyHistories == \E h \in Histories : \A t \in Terms : h.full[t] = <<>>
<1> DEFINE h == [full |-> [t \in Terms |-> <<>>], lead |-> [t \in Terms |-> Nil],
                 quorum |-> [t \in Terms |-> {}]]
<1>1. <<>> \in Seq(Entry) /\ {} \in SUBSET Server /\ Nil \in Server \cup {Nil}
      OBVIOUS
<1>2. h \in Histories /\ \A t \in Terms : h.full[t] = <<>>
      BY <1>1 DEF Histories
<1> QED BY <1>2

\* A bootstrapped cluster has empty logs, nothing in flight and no leader.
LEMMA Bootstrapped ==
    ASSUME Init, NEW s \in Server
    PROVE  /\ node[s] = New(s, EmptyState, 0) /\ disk[s] = EmptyState
           /\ EmptyState.snap = NoSnapshot /\ EmptyState.log = <<>>
           /\ node[s].snap = NoSnapshot /\ node[s].log = <<>>
           /\ disk[s].snap = NoSnapshot /\ disk[s].log = <<>>
           /\ node[s].role = Follower /\ pending[s].effects.send = {} /\ net = {}
<1>1. EmptyState.snap = NoSnapshot /\ EmptyState.log = <<>>
      BY DEF EmptyState
<1>2. LET k == New(s, EmptyState, 0)
      IN  k.role = Follower /\ k.snap = NoSnapshot /\ k.log = <<>>
      BY <1>1, LogOfNew, NewVotes
<1> QED BY <1>1, <1>2 DEF Init, NoPending, NoEffects

\* No history explains them.
LEMMA BootstrapLogs ==
    ASSUME Init, NEW h \in Histories, \A t \in Terms : h.full[t] = <<>>
    PROVE  LogInv(h)
<1>2. HistoriesAgree(h) /\ HistoryElected(h)
      BY DEF HistoriesAgree, HistoryElected
<1>3. PICK one \in Terms : TRUE
  <2>1. 1 \in Terms
        BY BoundAssumption DEF Terms
  <2> QED BY <2>1
<1>4. \A d : d.snap = NoSnapshot /\ d.log = <<>> => FromHistory(h, d) /\ PlainSnapshot(d.snap)
  <2> SUFFICES ASSUME NEW d, d.snap = NoSnapshot, d.log = <<>>
               PROVE  FromHistory(h, d) /\ PlainSnapshot(d.snap)
      OBVIOUS
  <2>1. d.snap.index = 0 /\ Len(d.log) = 0
        BY DEF NoSnapshot
  <2>2. Within(d, h.full[one])
        BY <2>1 DEF Within, lastIndex
  <2> QED BY <2>1, <2>2 DEF FromHistory, PlainSnapshot
<1>5. \A s \in Server : /\ node[s].snap = NoSnapshot /\ node[s].log = <<>>
                        /\ disk[s].snap = NoSnapshot /\ disk[s].log = <<>>
                        /\ node[s].role = Follower /\ pending[s].effects.send = {}
      BY Bootstrapped
<1>6. net = {}
      BY DEF Init
<1>7. LogsFromHistory(h)
      BY <1>4, <1>5, <1>6 DEF LogsFromHistory, Follower, Leader
<1>8. ConfigurationIsFixed(h)
      BY <1>4, <1>5, <1>6 DEF ConfigurationIsFixed, Follower, Leader
<1> QED BY <1>2, <1>7, <1>8 DEF LogInv

\* Initially no term has a history.
LEMMA InitLogs == Init => LogHistory
BY EmptyHistories, BootstrapLogs DEF LogHistory

\* Timers and client requests, while no membership change is asked for.
LEMMA InputsLogs ==
    ASSUME Target = {}, TypeInv, VoteInv, MembershipIsCurrent, VoteInv', VotesAreRecorded,
           NEW h \in Histories, LogInv(h), NEW s \in Server,
           \/ ElectionTimeout(s) \/ HeartbeatTimeout(s)
           \/ Snapshot(s) \/ FinalizeMembershipChange(s)
           \/ \E c \in Command : Propose(s, c)
           \/ \E target \in Target : BeginMembershipChange(s, target)
    PROVE  \E g \in Histories : LogInv(g)'
<1> DEFINE n == node[s]
<1>1. NodeInv(n) /\ store[s].applied \in Nat /\ Shape(n) /\ n.term \in Nat
      BY TypeInvAt, VoteTypes
<1>2. \A r, inFlight, t : Submit(s, r, inFlight, t) => ~r.err
      BY DEF Submit
<1>3. ASSUME NEW r, NEW t, StepInv(n, r), LogStep(n, {}, r), Idle(s), Submit(s, r, net, t)
      PROVE  \E g \in Histories : LogInv(g)'
  <2>1. {} \in SUBSET net /\ net \in SUBSET net
        OBVIOUS
  <2>2. StepInv(node[s], r) /\ LogStep(node[s], {}, r)
        BY <1>3
  <2> HIDE DEF n
  <2> QED BY <1>3, <2>1, <2>2, SubmitLogs
<1>4. CASE ElectionTimeout(s)
  <2> DEFINE t == [timer[s] EXCEPT !.election = FALSE]
             r == electionTimeout(n)
  <2>1. CASE Submit(s, r, net, t)
    <3>1. StepInv(n, r) /\ LogStep(n, {}, r)
          BY <1>1, <1>2, <2>1, ElectionTimeoutType, LogOfElectionTimeout
    <3>2. Idle(s)
          BY <1>4 DEF ElectionTimeout
    <3> HIDE DEF r, t, n
    <3> QED BY <1>3, <2>1, <3>1, <3>2
  <2>2. CASE UNCHANGED <<node, up, disk, store, pending, net, crashes>>
    <3>1. LogInv(h)'
          BY <2>2 DEF LogInv, HistoriesAgree, LogsFromHistory, LeaderLogOK, Unborn,
                      HistoryElected, Recorded, Voted, ConfigurationIsFixed
    <3> QED BY <3>1
  <2> QED BY <1>4, <2>1, <2>2 DEF ElectionTimeout
<1>5. CASE HeartbeatTimeout(s)
  <2> DEFINE r == heartbeatTimeout(n)
  <2>1. n.role = Leader /\ Idle(s) /\ \E t : Submit(s, r, net, t)
        BY <1>5 DEF HeartbeatTimeout
  <2>2. StepInv(n, r) /\ LogStep(n, {}, r)
        BY <1>1, <2>1, HeartbeatTimeoutType, LogOfHeartbeat, KeepsHeartbeat, QuietStep DEF Keeps
  <2> HIDE DEF r, n
  <2> QED BY <1>3, <2>1, <2>2
<1>6. CASE Snapshot(s)
  <2> DEFINE r == takeSnapshot(n, store[s].applied, store[s].history)
  <2>1. Idle(s) /\ Submit(s, r, net, timer[s])
        BY <1>6 DEF Snapshot
  <2>2. StepInv(n, r) /\ LogStep(n, {}, r)
        BY <1>1, <1>2, <2>1, TakeSnapshotType, LogOfSnapshot
  <2> HIDE DEF r, n
  <2> QED BY <1>3, <2>1, <2>2
<1>7. CASE FinalizeMembershipChange(s)
  <2>1. Idle(s) /\ ~finalizeMembership(n).err
        BY <1>2, <1>7 DEF FinalizeMembershipChange
  <2>2. n.membership = InitialMembership
        BY <2>1, IdleLog
  <2>3. Joint(n.membership)
        BY <1>1, <2>1, LogOfMembershipInputs
  <2> QED BY <2>2, <2>3, InitialMembershipAssumption DEF Joint
<1>8. CASE \E c \in Command : Propose(s, c)
  <2>1. PICK c \in Command : Propose(s, c)
        BY <1>8
  <2> DEFINE r == proposal(n, c)
  <2>2. Idle(s) /\ Submit(s, r, net, timer[s])
        BY <2>1 DEF Propose
  <2>3. StepInv(n, r) /\ LogStep(n, {}, r)
        BY <1>1, <1>2, <2>2, ProposalType, LogOfProposal
  <2> HIDE DEF r, n
  <2> QED BY <1>3, <2>2, <2>3
<1> QED BY <1>4, <1>5, <1>6, <1>7, <1>8

\* A packet delivered or lost.
LEMMA MessagesLogs ==
    ASSUME TypeInv, VoteInv, MembershipIsCurrent, VoteInv', VotesAreRecorded,
           NEW h \in Histories, LogInv(h), NEW m \in net, Receive(m) \/ Drop(m)
    PROVE  \E g \in Histories : LogInv(g)'
<1>1. MessageInv(m) /\ m.to \in Server
      BY DEF TypeInv, TypeOK, LogsAreBounded, MessageInv, MessageOK
<1>2. CASE Receive(m)
  <2>1. PICK s \in Server : s = m.to
        BY <1>1
  <2> DEFINE r == stepMessage(node[s], m)
  <2>2. Idle(s) /\ Submit(s, r, net \ {m}, timer[s]) /\ ~r.err
        BY <1>2, <2>1 DEF Receive, Submit
  <2>3. NodeInv(node[s]) /\ node[s].id = m.to
        BY <2>1, TypeInvAt
  <2>4. StepInv(node[s], r) /\ LogStep(node[s], {m}, r)
        BY <1>1, <2>2, <2>3, StepMessageType, LogOfMessage
  <2>5. {m} \in SUBSET net /\ net \ {m} \in SUBSET net
        OBVIOUS
  <2> HIDE DEF r
  <2> QED BY <2>2, <2>4, <2>5, SubmitLogs
<1>3. CASE Drop(m)
  <2>1. net' \subseteq net /\ UNCHANGED <<node, disk, pending>>
        BY <1>3 DEF Drop
  <2>2. LogsFromHistory(h)'
        BY <2>1 DEF LogInv, LogsFromHistory, LeaderLogOK, Unborn
  <2>3. ConfigurationIsFixed(h)' /\ HistoriesAgree(h)'
        BY <2>1 DEF LogInv, ConfigurationIsFixed, HistoriesAgree
  <2>4. HistoryElected(h)'
        BY <2>1 DEF LogInv, HistoryElected, Recorded, Voted
  <2>5. LogInv(h)'
        BY <2>2, <2>3, <2>4 DEF LogInv
  <2> QED BY <2>5
<1> QED BY <1>2, <1>3

\* Every log on disk, in memory and in flight is a section of the history of
\* some term, and no term has two histories, as long as no membership change
\* is asked for: the invariant on which both properties below rest.
THEOREM LogsHaveHistories ==
    ASSUME Target = {}
    PROVE  Spec => []LogHistory
<1>1. Init => LogHistory
      BY InitLogs
<1>2. /\ TypeInv /\ VoteInv /\ MembershipIsCurrent /\ TypeInv' /\ VoteInv'
      /\ LogHistory /\ [Next]_vars
      => LogHistory'
  <2> SUFFICES ASSUME TypeInv, VoteInv, MembershipIsCurrent, TypeInv', VoteInv',
                      NEW h \in Histories, LogInv(h), [Next]_vars
               PROVE  \E g \in Histories : LogInv(g)'
      BY DEF LogHistory
  <2>1. CASE UNCHANGED vars
    <3>1. LogInv(h)'
          BY <2>1 DEF vars, LogInv, HistoriesAgree, LogsFromHistory, LeaderLogOK, Unborn,
                      HistoryElected, Recorded, Voted, ConfigurationIsFixed
    <3> QED BY <3>1
  <2>2. ASSUME NEW s \in Server, CompleteWrite(s) PROVE \E g \in Histories : LogInv(g)'
        BY <2>2, BarrierVotes, WriteLogs
  <2>3. ASSUME NEW s \in Server, AcknowledgeWrite(s) PROVE \E g \in Histories : LogInv(g)'
        BY <2>3, BarrierVotes, AcknowledgeLogs
  <2>4. ASSUME NEW s \in Server, Crash(s) \/ Restart(s) PROVE \E g \in Histories : LogInv(g)'
        BY <2>4, CrashVotes, CrashLogs
  <2>5. ASSUME NEW s \in Server,
               \/ ElectionTimeout(s) \/ HeartbeatTimeout(s)
               \/ Snapshot(s) \/ FinalizeMembershipChange(s)
               \/ \E c \in Command : Propose(s, c)
               \/ \E target \in Target : BeginMembershipChange(s, target)
        PROVE  \E g \in Histories : LogInv(g)'
        BY <2>5, InputsVotes, InputsLogs
  <2>6. ASSUME NEW m \in net, Receive(m) \/ Drop(m) PROVE \E g \in Histories : LogInv(g)'
        BY <2>6, MessagesVotes, MessagesLogs
  <2>7. CASE Next
        BY <2>2, <2>3, <2>4, <2>5, <2>6, <2>7 DEF Next
  <2> QED BY <2>1, <2>7
<1> QED BY <1>1, <1>2, TypeCorrect, VotesCorrect, ConfigurationIsCurrent, PTL DEF Spec

\* At most one process leads a term, however votes, crashes and lost or late
\* messages interleave, as long as no membership change is asked for: every
\* leader was then elected by the initial configuration.
THEOREM OneLeaderOfATerm ==
    ASSUME Target = {}
    PROVE  Spec => []ElectionSafety
<1>1. TypeInv /\ VoteInv /\ LogHistory => ElectionSafety
  <2> SUFFICES ASSUME TypeInv, VoteInv, NEW h \in Histories, LogInv(h),
                      NEW s \in leaders, NEW t \in leaders, node[s].term = node[t].term
               PROVE  s = t
      BY DEF LogHistory, ElectionSafety
  <2>1. s \in Server /\ t \in Server /\ node[s].role = Leader /\ node[t].role = Leader
        BY DEF leaders
  <2>2. node[s].electionMembership = node[t].electionMembership
        BY <2>1 DEF LogInv, ConfigurationIsFixed
  <2> QED BY <2>1, <2>2, LeadersAreOne DEF Adjacent
<1> QED BY <1>1, TypeCorrect, VotesCorrect, LogsHaveHistories, PTL

\* An entry of a log: where it comes from.  It is in the history of a term,
\* with all that precedes it, or it is the first of a leader whose election is
\* still being written.
InHistory(h, s, i) ==
    \E t \in Terms : /\ i <= Len(h.full[t])
                     /\ \A j \in 1..i : entryExists(node[s], j) =>
                            entryAt(node[s], j) = h.full[t][j]
IsFirst(h, s, i) ==
    /\ node[s].role = Leader /\ h.full[node[s].term] = <<>>
    /\ entryAt(node[s], i).term = node[s].term

\* Every entry of a log has one of the two origins.
LEMMA EntryOrigin ==
    ASSUME TypeInv, NEW h \in Histories, LogInv(h), NEW s \in Server, NEW i \in Nat,
           entryExists(node[s], i)
    PROVE  InHistory(h, s, i) \/ IsFirst(h, s, i)
<1> DEFINE n == node[s]
<1>1. NodeInv(n) /\ SectionOK(n)
      BY TypeInvAt, SectionTypes
<1>2. PICK b \in Nat : b = n.snap.index
      BY <1>1 DEF SectionOK
<1>3. PICK length \in Nat : length = Len(n.log)
      BY <1>1, SectionAt
<1>4. /\ lastIndex(n) = b + length /\ b < i /\ i <= b + length
      /\ \A j \in Nat : entryExists(n, j) <=> b < j /\ j <= b + length
      BY <1>1, <1>2, <1>3, SectionAt
<1>5. /\ ~Unborn(h, s) => FromHistory(h, n)
      /\ n.role = Leader => LeaderLogOK(h, s)
      BY DEF LogInv, LogsFromHistory
<1>6. CASE ~Unborn(h, s)
  <2>1. PICK t \in Terms : Within(n, h.full[t])
        BY <1>5, <1>6 DEF FromHistory
  <2>2. h.full[t] \in Seq(Entry) /\ Len(h.full[t]) \in Nat
        BY DEF Histories
  <2>3. /\ b + length <= Len(h.full[t])
        /\ \A j \in Nat : b < j /\ j <= b + length => entryAt(n, j) = h.full[t][j]
        BY <1>1, <1>2, <1>4, <2>1, <2>2, WithinAt
  <2>4. i <= Len(h.full[t])
        BY <1>4, <2>2, <2>3
  <2>5. \A j \in 1..i : entryExists(n, j) => entryAt(n, j) = h.full[t][j]
        BY <1>4, <2>3
  <2> QED BY <2>4, <2>5 DEF InHistory
<1>7. CASE Unborn(h, s)
  <2>1. /\ n.role = Leader /\ h.full[n.term] = <<>> /\ n.log # <<>>
        /\ n.log[Len(n.log)].term = n.term /\ FromHistory(h, withoutLast(n))
        BY <1>5, <1>7 DEF Unborn, LeaderLogOK
  <2>2. PICK d : d = withoutLast(n)
        OBVIOUS
  <2>3. SectionOK(d) /\ lastIndex(d) + 1 = b + length
        BY <1>1, <1>4, <2>1, <2>2, WithoutLastSection
  <2>4. CASE i = b + length
    <3>1. i - n.snap.index = Len(n.log)
          BY <1>2, <1>3, <2>4
    <3> QED BY <2>1, <3>1 DEF IsFirst, entryAt
  <2>5. CASE i # b + length
    <3>1. PICK t \in Terms : Within(d, h.full[t])
          BY <2>1, <2>2 DEF FromHistory
    <3>2. h.full[t] \in Seq(Entry) /\ Len(h.full[t]) \in Nat
          BY DEF Histories
    <3>3. /\ d.snap.index = b /\ lastIndex(d) \in Nat /\ lastIndex(d) <= Len(h.full[t])
          /\ \A j \in Nat : d.snap.index < j /\ j <= lastIndex(d) =>
                entryAt(d, j) = h.full[t][j]
      <4>1. d.snap.index = b
            BY <1>2, <2>2 DEF withoutLast
      <4> QED BY <2>3, <3>1, <3>2, <4>1, WithinAt, SectionAt
    <3>4. PICK p \in Nat : p = length - 1 /\ length = p + 1
      <4>1. length - 1 \in Nat /\ length = (length - 1) + 1
            BY <1>4
      <4> QED BY <4>1
    <3>5. lastIndex(d) = b + p
          BY <2>3, <3>3, <3>4, SMTT(40)
    <3>6. i <= b + p
          BY <1>4, <2>5, <3>4
    <3>7. ASSUME NEW j \in 1..i, entryExists(n, j) PROVE entryAt(n, j) = h.full[t][j]
      <4>1. b < j /\ j <= b + p /\ j \in Nat /\ j - b \in 1..p
            BY <1>4, <3>6, <3>7
      <4>2. entryAt(d, j) = h.full[t][j]
            BY <3>3, <3>5, <4>1
      <4>3. d.log = SubSeq(n.log, 1, p)
            BY <1>3, <2>2, <3>4 DEF withoutLast
      <4>4. n.log \in Seq(Entry) /\ p <= Len(n.log)
            BY <1>1, <1>3, <3>4 DEF SectionOK
      <4>5. d.log[j - b] = n.log[j - b]
            BY <4>1, <4>3, <4>4
      <4> QED BY <1>2, <3>3, <4>2, <4>5 DEF entryAt
    <3>8. i <= Len(h.full[t])
          BY <3>2, <3>3, <3>5, <3>6
    <3> QED BY <3>7, <3>8 DEF InHistory
  <2> QED BY <2>4, <2>5
<1> QED BY <1>6, <1>7

\* Two logs that agree on the term of an entry agree on it and on every earlier
\* entry both still hold, through conflicting suffixes, compaction, installed
\* snapshots and crashes, as long as no membership change is asked for.
THEOREM LogsMatch ==
    ASSUME Target = {}
    PROVE  Spec => []LogMatching
<1>1. TypeInv /\ VoteInv /\ LogHistory => LogMatching
  <2> SUFFICES ASSUME TypeInv, VoteInv, NEW h \in Histories, LogInv(h),
                      NEW s \in Server, NEW t \in Server,
                      NEW i \in 1..minimum(lastIndex(node[s]), lastIndex(node[t])),
                      entryExists(node[s], i), entryExists(node[t], i),
                      termAt(node[s], i) = termAt(node[t], i),
                      NEW j \in 1..i, entryExists(node[s], j), entryExists(node[t], j)
               PROVE  entryAt(node[s], j) = entryAt(node[t], j)
      BY DEF LogHistory, LogMatching
  <2>1. i \in Nat /\ i > 0 /\ i \in 1..i
        OBVIOUS
  <2>2. \A u \in Server : entryExists(node[u], i) => termAt(node[u], i) = entryAt(node[u], i).term
    <3> SUFFICES ASSUME NEW u \in Server, entryExists(node[u], i)
                 PROVE  termAt(node[u], i) = entryAt(node[u], i).term
        OBVIOUS
    <3>1. node[u].snap.index \in Nat /\ node[u].snap.index < i
          BY TypeInvAt, SectionTypes DEF SectionOK, entryExists
    <3>2. i # 0 /\ i # node[u].snap.index
          BY <2>1, <3>1
    <3> QED BY <3>2 DEF termAt
  <2>3. entryAt(node[s], i).term = entryAt(node[t], i).term
        BY <2>2
  <2>4. HistoriesAgree(h)
        BY DEF LogInv
  <2>5. ASSUME NEW u \in Server, entryExists(node[u], i), InHistory(h, u, i)
        PROVE  h.full[entryAt(node[u], i).term] # <<>>
    <3>1. PICK v \in Terms : i <= Len(h.full[v]) /\ entryAt(node[u], i) = h.full[v][i]
          BY <2>1, <2>5 DEF InHistory
    <3> QED BY <2>1, <2>4, <3>1, HistoryTerm
  <2>6. CASE InHistory(h, s, i) /\ InHistory(h, t, i)
    <3>1. PICK v \in Terms : /\ i <= Len(h.full[v])
                             /\ \A l \in 1..i : entryExists(node[s], l) =>
                                    entryAt(node[s], l) = h.full[v][l]
          BY <2>6 DEF InHistory
    <3>2. PICK w \in Terms : /\ i <= Len(h.full[w])
                             /\ \A l \in 1..i : entryExists(node[t], l) =>
                                    entryAt(node[t], l) = h.full[w][l]
          BY <2>6 DEF InHistory
    <3>3. h.full[v][i].term = h.full[w][i].term
          BY <2>1, <2>3, <3>1, <3>2
    <3>4. h.full[v][j] = h.full[w][j]
          BY <2>1, <2>4, <3>1, <3>2, <3>3, Matching
    <3> QED BY <3>1, <3>2, <3>4
  <2>7. CASE IsFirst(h, s, i) /\ IsFirst(h, t, i)
    <3>1. node[s].electionMembership = node[t].electionMembership
          BY <2>7 DEF LogInv, ConfigurationIsFixed, IsFirst
    <3>2. s = t
          BY <2>3, <2>7, <3>1, LeadersAreOne DEF IsFirst, Adjacent
    <3> QED BY <3>2
  <2> QED BY <2>1, <2>3, <2>5, <2>6, <2>7, EntryOrigin DEF IsFirst
<1> QED BY <1>1, TypeCorrect, VotesCorrect, LogsHaveHistories, PTL
=============================================================================
