------------------------ MODULE RaftDurabilityProofs ------------------------
(***************************************************************************)
(* The other actions of the cluster, acknowledged writes, crashes,         *)
(* restarts and the network, preserve CommitInv too, while the             *)
(* configuration is the initial one (Target = {}).  So CommitHistory is an *)
(* invariant, and what follows: what is committed or confirmed is durable, *)
(* later leaders hold it, commit indexes and the application move forward  *)
(* only, and every process can start again after a crash.                  *)
(***************************************************************************)
EXTENDS RaftCommitProofs

(* Steps after which a process is in its durable state: an acknowledged    *)
(* write, a crash and a restart.                                           *)

\* k, the new state of s, is the durable one; the role is kept or given up.
Settles(s, k) ==
    /\ Moves(s, k) /\ NodeInv(k)
    /\ k.term = disk[s].term /\ k.commit = disk[s].commit
    /\ k.log = disk[s].log /\ k.snap = disk[s].snap
    /\ \/ k.role = Follower
       \/ /\ k.role = node[s].role /\ k.term = node[s].term /\ k.votes = node[s].votes
          /\ k.matchIndex = node[s].matchIndex
          /\ k.log = node[s].log /\ k.snap = node[s].snap
    /\ pending'[s].effects.send = {} /\ pending'[s].phase # "writing"

\* N, the messages such a step sends, waited for the write that is complete.
Releases(s, k, N) ==
    /\ net' \subseteq net \cup N /\ N \subseteq pending[s].effects.send
    /\ N # {} => k = node[s]

\* Acknowledgements, later histories and votes.
LEMMA SettledVotes ==
    ASSUME TypeInv, TypeInv', VoteInv, VoteInv', NEW h \in Histories, LogInv(h), LogInv(h)',
           NEW a \in Acks, CommitInv(h, a), NEW s \in Server, NEW k, Settles(s, k),
           NEW N, Releases(s, k, N)
    PROVE  /\ AcksOK(h, a)'
           /\ \A x \in Server : AcksHeld(h, a, x, disk[x])' /\ AcksHeld(h, a, x, node[x])'
           /\ LaterHolds(h, a)' /\ VotesCovered(h, a)'
<1>1. /\ HistoryTerms(h) /\ AcksOK(h, a) /\ LaterHolds(h, a) /\ VotesCovered(h, a)
      /\ \A x \in Server : AcksHeld(h, a, x, disk[x]) /\ AcksHeld(h, a, x, node[x])
      BY DEF CommitInv
<1>2. HistoryStep(h, h, s)
      BY HistoryStepSame
<1>3. /\ Moves(s, k) /\ NodeInv(k) /\ k.term = disk[s].term
      /\ k.log = disk[s].log /\ k.snap = disk[s].snap /\ node'[s] = k
      /\ disk[s].term \in Nat /\ k.term \in Nat /\ disk[s].term <= k.term
      BY VoteTypes DEF Settles, Moves
<1>4. SectionOK(k) /\ Anchored(h, k)
  <2>1. Anchored(h, disk[s])
        BY Sections
  <2> QED BY <1>3, <2>1, IncludesSame, SectionTypes
<1>5. AcksHeld(h, a, s, k)
  <2>1. AcksHeld(h, a, s, disk[s])
        BY <1>1
  <2>2. \A i, t : Includes(h, disk[s], i, t) <=> Includes(h, k, i, t)
        BY <1>3, IncludesSame
  <2> QED BY <1>3, <2>1, <2>2 DEF AcksHeld
<1>6. AcksOK(h, a)' /\ \A x \in Server : AcksHeld(h, a, x, disk[x])' /\ AcksHeld(h, a, x, node[x])'
      BY <1>1, <1>2, <1>3, <1>4, <1>5, AcksStep
<1>7. ~Unborn(h, s)'
  <2>1. pending'[s].phase # "writing"
        BY DEF Settles
  <2>2. k.role = Leader => h.full[k.term] # <<>>
        BY <1>3, <2>1, LeadsAfter
  <2> QED BY <1>3, <2>2 DEF Unborn
<1>8. LaterHolds(h, a)'
      BY <1>1, <1>2, <1>3, <1>4, <1>7, LaterStep
<1>9. VotesCovered(h, a)'
  <2>1. k.role = Candidate => SameStand(node[s], k)
    <3>1. k.role = Candidate => /\ node[s].role = Candidate /\ k.term = node[s].term
                                /\ k.log = node[s].log /\ k.snap = node[s].snap
          BY DEF Settles, Follower, Candidate
    <3>2. k.role = Candidate => lastIndex(node[s]) = lastIndex(k) /\ lastTerm(node[s]) = lastTerm(k)
          BY <3>1, IncludesSame
    <3> QED BY <3>1, <3>2 DEF SameStand
  <2>2. k.role = Candidate => \A x \in k.votes \ {s} :
                k.term <= disk[s].term /\ Voted(x, s, k.term)
    <3>1. k.role = Candidate => /\ node[s].role = Candidate /\ k.term = node[s].term
                                /\ k.votes = node[s].votes
          BY DEF Settles, Follower, Candidate
    <3>2. node[s].role = Candidate => node[s].role # Follower
          BY DEF Follower, Candidate
    <3>3. k.term <= disk[s].term
          BY <1>3
    <3> QED BY <3>1, <3>2, <3>3 DEF Voted
  <2>3. ASSUME NEW m \in N
        PROVE  /\ Grant(m) => m.from = s /\ m.to \in Server \ {s} /\ GrantOK(h, a, s, m)
               /\ Asks(m) => /\ m.from = s /\ m.to \in Server \ {s} /\ m.term <= k.term
                             /\ m.term <= disk[s].term
                             /\ k.role = Candidate /\ k.term = m.term =>
                                    m.lastLogIndex = lastIndex(k) /\ m.lastLogTerm = lastTerm(k)
    <3>1. m \in pending[s].effects.send /\ k = node[s]
          BY <2>3 DEF Releases
    <3>2. m.from \in Server /\ m.to \in Server \ {m.from}
          BY <3>1 DEF TypeInv, TypeOK, MessageOK
    <3>3. Grant(m) => m.from = s
          BY <3>1 DEF VoteInv, PendingGrants
    <3>4. Grant(m) => GrantOK(h, a, s, m)
          BY <1>1, <3>1, <3>2 DEF VotesCovered, GrantOK
    <3>5. Asks(m) => m.from = s /\ RequestOK(m)
          BY <1>1, <3>1 DEF VotesCovered
    <3>6. Asks(m) => /\ m.term <= k.term
                     /\ k.role = Candidate /\ k.term = m.term =>
                            m.lastLogIndex = lastIndex(k) /\ m.lastLogTerm = lastTerm(k)
          BY <3>1, <3>5 DEF RequestOK, Candidacy
    <3> QED BY <1>3, <3>2, <3>3, <3>4, <3>5, <3>6
  <2>4. net' \subseteq net \cup N /\ pending'[s].effects.send \subseteq {}
        BY DEF Releases, Settles
  <2>5. \A m \in N \cup {} : Grant(m) \/ Asks(m) => m.from = s /\ m.to \in Server \ {s}
        BY <2>3
  <2>6. \A m \in N \cup {} : Grant(m) => GrantOK(h, a, s, m)
        BY <2>3
  <2>7. \A m \in N \cup {} : Asks(m) =>
                /\ m.term <= k.term
                /\ k.role = Candidate /\ k.term = m.term =>
                        m.lastLogIndex = lastIndex(k) /\ m.lastLogTerm = lastTerm(k)
        BY <2>3
  <2>8. \A m \in N : Asks(m) => m.term <= disk[s].term
        BY <2>3
  <2> QED BY <1>1, <1>2, <1>3, <2>1, <2>2, <2>4, <2>5, <2>6, <2>7, <2>8, VotesStep
<1> QED BY <1>6, <1>8, <1>9

\* Confirmed matches and commit indexes.
LEMMA SettledCommits ==
    ASSUME TypeInv, TypeInv', VoteInv, NEW h \in Histories, LogInv(h), LogInv(h)',
           NEW a \in Acks, CommitInv(h, a), NEW s \in Server, NEW k, Settles(s, k),
           NEW N, Releases(s, k, N)
    PROVE  MatchesAcked(h, a)' /\ CommitsChosen(h, a)'
<1>1. /\ HistoryTerms(h) /\ AcksOK(h, a) /\ HistoriesAgree(h)
      /\ MatchesAcked(h, a) /\ CommitsChosen(h, a)
      BY DEF CommitInv, LogInv
<1>2. HistoryStep(h, h, s)
      BY HistoryStepSame
<1>3. /\ Moves(s, k) /\ NodeInv(k) /\ k.term = disk[s].term /\ k.commit = disk[s].commit
      /\ k.log = disk[s].log /\ k.snap = disk[s].snap /\ node'[s] = k
      /\ disk[s].term \in Nat /\ k.term \in Nat /\ k.commit \in Nat
      BY VoteTypes, CommitType DEF Settles, Moves
<1>4. /\ SectionOK(k) /\ Anchored(h, k) /\ SectionOK(disk[s]) /\ FromHistory(h, disk[s])
      /\ (\A i, t : Includes(h, disk[s], i, t) <=> Includes(h, k, i, t))
      /\ lastIndex(disk[s]) = lastIndex(k) /\ \A i : termAt(disk[s], i) = termAt(k, i)
  <2>1. Anchored(h, disk[s]) /\ SectionOK(disk[s]) /\ FromHistory(h, disk[s])
        BY Sections
  <2>2. SectionOK(k)
        BY <1>3, SectionTypes
  <2> QED BY <1>3, <2>1, <2>2, IncludesSame
<1>5. PICK P : P = {} /\ net' \subseteq net \cup N /\ pending'[s].effects.send \subseteq P
      BY DEF Releases, Settles
<1>6. \A m \in N : /\ m \in pending[s].effects.send /\ k = node[s] /\ MessageOK(m)
      BY DEF Releases, TypeInv, TypeOK
<1>7. MatchesAcked(h, a)'
  <2>1. \A T \in Terms : \A j \in Nat : j > 0 /\ MatchOK(h, a, T, s, j) /\ k.term = T =>
                Includes(h, k, j, h.full[T][j].term)
        BY <1>3, <1>4 DEF MatchOK
  <2>2. k.role = Leader => /\ k.term \in Terms
                           /\ \A f \in Server \ {s} :
                                    /\ k.matchIndex[f] \in Nat
                                    /\ MatchOK(h, a, k.term, f, k.matchIndex[f])
    <3>1. k.role = Leader => k.term \in Terms
          BY <1>3, LeaderTerm DEF Leader, Follower
    <3>2. \A f \in Server : k.matchIndex[f] \in Nat
          BY <1>3 DEF NodeInv, NodeOK
    <3>3. k.role = Leader => /\ node[s].role = Leader /\ k.term = node[s].term
                             /\ k.matchIndex = node[s].matchIndex
          BY DEF Settles, Follower, Leader
    <3> QED BY <1>1, <3>1, <3>2, <3>3 DEF MatchesAcked
  <2>3. ASSUME NEW m \in N, Confirms(m)
        PROVE  MatchOK(h, a, m.term, m.from, m.matchIndex)
    <3>1. m \in pending[s].effects.send /\ k = node[s] /\ MessageOK(m)
          BY <1>6
    <3>2. PICK T \in Terms : T = m.term
          BY <2>3, <3>1, ConfirmsType
    <3>3. PICK j \in Nat : j = m.matchIndex
          BY <2>3, <3>1, ConfirmsType
    <3>4. /\ m.from = s /\ T = k.term /\ j <= Len(h.full[T])
          /\ j > 0 => Includes(h, k, j, h.full[T][j].term)
          BY <1>1, <2>3, <3>1, <3>2, <3>3 DEF MatchesAcked
    <3>5. CASE j > 0
      <4>1. Includes(h, disk[s], j, h.full[T][j].term) /\ disk[s].term = T
            BY <1>3, <1>4, <3>4, <3>5
      <4>2. TermsBounded(disk[s])
            BY <1>1 DEF CommitsChosen
      <4>3. \A i \in 1..j : Own(h, T, i) => a[T][s] >= i
            BY <1>1, <1>4, <3>4, <3>5, <4>1, <4>2, AckedBelow
      <4>4. disk[s].term >= T
            BY <1>3, <4>1
      <4>5. MatchOK(h, a, T, s, j)
            BY <3>1, <3>4, <3>5, <4>1, <4>3, <4>4 DEF MatchOK
      <4> QED BY <3>2, <3>3, <3>4, <4>5
    <3>6. CASE j = 0
      <4>1. MatchOK(h, a, T, s, j)
            BY <3>4, <3>6 DEF MatchOK
      <4> QED BY <3>2, <3>3, <3>4, <4>1
    <3> QED BY <3>5, <3>6
  <2>4. \A m \in N \cup P : MessageOK(m)
        BY <1>5, <1>6
  <2>5. \A m \in P : Confirms(m) =>
                /\ m.from = s /\ m.term = k.term /\ m.matchIndex <= Len(h.full[m.term])
                /\ m.matchIndex > 0 =>
                        Includes(h, k, m.matchIndex, h.full[m.term][m.matchIndex].term)
        BY <1>5
  <2>6. \A m \in N : Confirms(m) => MatchOK(h, a, m.term, m.from, m.matchIndex)
        BY <2>3
  <2>7. SectionOK(k) /\ Anchored(h, k) /\ Moves(s, k) /\ MatchesAcked(h, a)
        BY <1>1, <1>3, <1>4
  <2>8. net' \subseteq net \cup N /\ pending'[s].effects.send \subseteq P
        BY <1>5
  <2> QED BY <1>2, <2>1, <2>2, <2>4, <2>5, <2>6, <2>7, <2>8, MatchesStep, Zenon
<1>8. CommitsChosen(h, a)'
  <2>1. TermsBounded(k) /\ CommitInLog(k) /\ Committed(h, a, k)
    <3>1. TermsBounded(disk[s]) /\ CommitInLog(disk[s]) /\ Committed(h, a, disk[s])
          BY <1>1 DEF CommitsChosen
    <3>2. TermsBounded(k)
          BY <1>3, <1>4, <3>1 DEF TermsBounded
    <3>3. CommitInLog(k)
          BY <1>3, <1>4, <3>1 DEF CommitInLog
    <3> QED BY <1>3, <1>4, <3>1, <3>2, <3>3 DEF Committed
  <2>2. ASSUME NEW m \in N, CarriesLog(m) PROVE CarriedOK(h, a, m)
    <3>1. m \in pending[s].effects.send /\ k = node[s] /\ MessageOK(m)
          BY <1>6
    <3>2. SendsLog(k, m) /\ Part(carried(m), k)
          BY <1>1, <2>2, <3>1 DEF CommitsChosen, LogInv, LogsFromHistory
    <3>3. k.role = Leader
          BY <3>2 DEF SendsLog
    <3>4. pending'[s].phase # "writing"
          BY DEF Settles
    <3>5. k.term \in Terms /\ Within(k, h.full[k.term])
          BY <1>3, <3>3, <3>4, LeadsAfter
    <3>6. PICK T \in Terms : T = k.term
          BY <3>5
    <3>7. Within(k, h.full[T])
          BY <3>5, <3>6
    <3> QED BY <1>1, <1>3, <1>4, <2>1, <2>2, <3>1, <3>2, <3>6, <3>7, SentCarried
  <2>3. \A m \in P : CarriesLog(m) => SendsLog(k, m)
        BY <1>5
  <2>4. \A m \in N : CarriesLog(m) => CarriedOK(h, a, m)
        BY <2>2
  <2>5. disk[s].log = k.log /\ disk[s].snap = k.snap /\ disk[s].commit = k.commit
        BY <1>3
  <2>6. SectionOK(k) /\ Anchored(h, k) /\ Moves(s, k) /\ CommitsChosen(h, a) /\ k.commit \in Nat
        BY <1>1, <1>3, <1>4
  <2> QED BY <1>2, <1>5, <2>1, <2>3, <2>4, <2>5, <2>6, CommitsStep
<1> QED BY <1>7, <1>8

\* The pending effects of a settled process are delivered.
LEMMA SettledDelivers ==
    ASSUME TypeInv, NEW h, NEW a, CommitInv(h, a), NEW s \in Server, NEW k, Settles(s, k),
           pending'[s] = NoPending, NEW c \in Nat, store'[s].applied = c, c <= k.commit,
           up'[s] => c = k.commit /\ k.applied = k.commit, ~up'[s] => k.applied = c,
           \A u \in Server \ {s} : store'[u] = store[u] /\ up'[u] = up[u]
    PROVE  \A u \in Server : DeliveryOK(u)'
<1>1. /\ disk' = disk /\ node'[s] = k /\ k.commit = disk[s].commit
      /\ k.snap = disk[s].snap /\ NodeInv(k)
      /\ \A u \in Server \ {s} : node'[u] = node[u] /\ pending'[u] = pending[u]
      BY DEF Settles, Moves
<1>2. ASSUME NEW u \in Server, u # s PROVE DeliveryOK(u)'
  <2>1. DeliveryOK(u)
        BY DEF CommitInv
  <2> QED BY <1>1, <1>2, <2>1, DeliveryKept
<1>3. DeliveryOK(s)'
  <2>1. PICK d \in Nat : d = k.commit
        BY <1>1, CommitType
  <2>2. PICK p \in Nat : p = k.snap.index
        BY <1>1, SectionTypes, SectionAt
  <2>3. ~pending'[s].effects.install /\ pending'[s].effects.apply = {}
        BY DEF NoPending, NoEffects
  <2>4. {} = (c + 1)..c
        OBVIOUS
  <2>5. c <= d /\ d <= d /\ p <= p
        BY <2>1
  <2>6. disk'[s].commit = d /\ disk'[s].snap.index = p /\ k.snap.index = p
        BY <1>1, <2>1, <2>2
  <2> QED BY <1>1, <2>1, <2>3, <2>4, <2>5, <2>6 DEF DeliveryOK
<1> QED BY <1>2, <1>3

\* What New takes from disk.
LEMMA NewFields ==
    ASSUME NEW s, NEW d, NEW applied
    PROVE  LET k == New(s, d, applied)
           IN  k.term = d.term /\ k.commit = d.commit /\ k.applied = applied /\ k.role = Follower
               /\ k.snap = d.snap /\ k.log = d.log
<1> DEFINE b == [id |-> s, role |-> Follower, leader |-> Nil,
                 term |-> d.term, votedFor |-> d.votedFor,
                 commit |-> d.commit, snap |-> d.snap, log |-> d.log,
                 applied |-> applied, membership |-> NoMembership,
                 votes |-> {}, electionVotes |-> {}, electionMembership |-> NoMembership,
                 nextIndex |-> ZeroMap, matchIndex |-> ZeroMap, appendSequence |-> ZeroMap]
<1>1. New(s, d, applied) = refreshMembership(b)
      BY DEF New
<1>2. Shape(b) /\ b.commit = d.commit /\ b.applied = applied
      BY DEF Shape, NodeFields
<1> HIDE DEF b
<1>3. refreshMembership(b).commit = b.commit /\ refreshMembership(b).applied = b.applied
      BY <1>2 DEF refreshMembership, Shape, NodeFields
<1> QED BY <1>1, <1>2, <1>3, NewVotes, LogOfNew

\* A restarted node delivers what is committed above what was applied.
LEMMA StartDelivers ==
    ASSUME NEW n, NodeInv(n), NEW b \in Nat, NEW c \in Nat, n.commit = c, b <= c,
           b = IF n.applied < n.snap.index THEN n.snap.index ELSE n.applied
    PROVE  LET r == Start(n)
           IN  /\ r.node.applied = c /\ r.node.commit = c /\ r.node.snap = n.snap
               /\ r.node.matchIndex = n.matchIndex /\ r.node.log = n.log
               /\ r.effects.install = (n.applied < n.snap.index)
               /\ r.effects.apply = (b + 1)..c
<1> DEFINE ahead == [n EXCEPT !.applied = n.snap.index]
           installed == IF n.applied < n.snap.index THEN ahead ELSE n
           q == applyCommitted(installed)
<1>1. /\ Start(n).node = q.node
      /\ Start(n).effects = [q.effects EXCEPT !.install = n.applied < n.snap.index,
                    !.timers = IF isVoter(n.membership, n.id) THEN {"election"} ELSE {}]
      BY DEF Start, Result
<1>2. /\ NodeInv(installed) /\ installed.applied = b /\ installed.commit = c
      /\ installed.snap = n.snap /\ installed.matchIndex = n.matchIndex /\ installed.log = n.log
  <2>1. Shape(n) /\ n.snap.index \in Nat
        BY NodeShape, SectionTypes, SectionAt
  <2>2. NodeInv(ahead) /\ \A f \in NodeFields \ {"applied"} : ahead[f] = n[f]
    <3>1. \A f \in NodeFields \ {"applied"} : ahead[f] = n[f]
          BY <2>1 DEF Shape, NodeFields
    <3>2. Shape(ahead) /\ ahead.applied \in Nat
          BY <2>1 DEF Shape, NodeFields
    <3> HIDE DEF ahead
    <3> QED BY <3>1, <3>2 DEF NodeInv, NodeOK, HardStateOK, LogBounded, ProgressBounded,
                              lastIndex, NodeFields, Shape
  <2>3. ahead.applied = n.snap.index
        BY <2>1 DEF Shape, NodeFields
  <2> HIDE DEF ahead
  <2> QED BY <2>2, <2>3 DEF NodeFields
<1> HIDE DEF installed
<1>3. /\ \A f \in NodeFields \ {"applied"} : q.node[f] = installed[f]
      /\ q.node.applied = c /\ q.effects.apply = (b + 1)..c
      BY <1>2, ApplyDelivers
<1>4. q.effects = [f \in DOMAIN NoEffects |-> q.effects[f]]
      BY DEF applyCommitted, Result, NoEffects
<1> HIDE DEF q
<1>5. /\ Start(n).effects.install = (n.applied < n.snap.index)
      /\ Start(n).effects.apply = q.effects.apply
      BY <1>1, <1>4 DEF NoEffects
<1> QED BY <1>1, <1>2, <1>3, <1>5 DEF NodeFields

\* Recovery rebuilds the application's state and keeps its applied index.
LEMMA RecoveryKeeps ==
    ASSUME NEW d, NEW st, st.applied \in Nat
    PROVE  recoverApplication(d, st).applied = st.applied
BY DEF recoverApplication

\* The crash of a process.
LEMMA CrashCommits ==
    ASSUME TypeInv, TypeInv', VoteInv, VoteInv', NEW h \in Histories, LogInv(h), LogInv(h)',
           NEW a \in Acks, CommitInv(h, a), NEW s \in Server, Crash(s)
    PROVE  CommitInv(h, a)'
<1>1. PICK c \in Nat : c = store[s].applied
      BY TypeInvAt
<1>2. PICK k : k = New(s, disk[s], c)
      OBVIOUS
<1>3. /\ node' = [node EXCEPT ![s] = k] /\ pending' = [pending EXCEPT ![s] = NoPending]
      /\ up' = [up EXCEPT ![s] = FALSE] /\ UNCHANGED <<disk, store, net>>
      BY <1>1, <1>2 DEF Crash
<1>4. NodeInv(k) /\ k.commit = disk[s].commit /\ k.applied = c
      /\ k.term = disk[s].term /\ k.log = disk[s].log /\ k.snap = disk[s].snap /\ k.role = Follower
      BY <1>2, TypeInvAt, NewType, NewFields
<1>5. Settles(s, k) /\ pending'[s] = NoPending
      BY <1>3, <1>4 DEF Settles, Moves, TypeInv, TypeOK, PerServer, NoPending, NoEffects
<1>6. Releases(s, k, {})
      BY <1>3 DEF Releases
<1>7. /\ AcksOK(h, a)'
      /\ \A x \in Server : AcksHeld(h, a, x, disk[x])' /\ AcksHeld(h, a, x, node[x])'
      /\ LaterHolds(h, a)' /\ VotesCovered(h, a)'
      BY <1>5, <1>6, SettledVotes
<1>8. MatchesAcked(h, a)' /\ CommitsChosen(h, a)'
      BY <1>5, <1>6, SettledCommits
<1>9. \A u \in Server : DeliveryOK(u)'
  <2>1. DeliveryOK(s)
        BY DEF CommitInv
  <2>2. c <= k.commit
        BY <1>1, <1>4, <2>1 DEF DeliveryOK
  <2>3. ~up'[s] /\ store'[s].applied = c
        BY <1>1, <1>3 DEF TypeInv, TypeOK
  <2>4. \A u \in Server \ {s} : store'[u] = store[u] /\ up'[u] = up[u]
        BY <1>3 DEF TypeInv, TypeOK
  <2> QED BY <1>4, <1>5, <2>2, <2>3, <2>4, SettledDelivers
<1>10. HistoryTerms(h)'
      BY DEF CommitInv, HistoryTerms
<1> QED BY <1>7, <1>8, <1>9, <1>10 DEF CommitInv

\* The restart of a process.
LEMMA RestartCommits ==
    ASSUME TypeInv, TypeInv', VoteInv, VoteInv', NEW h \in Histories, LogInv(h), LogInv(h)',
           NEW a \in Acks, CommitInv(h, a), NEW s \in Server, Restart(s)
    PROVE  CommitInv(h, a)'
<1>1. PICK n : n = node[s]
      OBVIOUS
<1>2. PICK r : r = Start(n)
      OBVIOUS
<1>3. PICK k : k = r.node
      OBVIOUS
<1>4. /\ node' = [node EXCEPT ![s] = k]
      /\ store' = [store EXCEPT ![s] = applyEffects(recoverApplication(disk[s], store[s]), k, r.effects)]
      /\ up' = [up EXCEPT ![s] = TRUE] /\ UNCHANGED <<disk, pending, net>> /\ ~up[s]
      BY <1>1, <1>2, <1>3 DEF Restart
<1>5. DeliveryOK(s) /\ NodeInv(n) /\ Shape(n)
      BY <1>1, TypeInvAt, NodeShape DEF CommitInv
<1>6. pending[s] = NoPending /\ n.applied = store[s].applied
      BY <1>1, <1>4, <1>5 DEF DeliveryOK
<1>7. pending[s].phase # "writing"
      BY <1>6 DEF NoPending
<1>8. /\ disk[s].term = n.term /\ disk[s].commit = n.commit
      /\ disk[s].log = n.log /\ disk[s].snap = n.snap /\ CommitInLog(n)
      BY <1>1, <1>7 DEF VoteInv, WriteOK, CommitInv, CommitsChosen
<1>9. PICK c \in Nat : c = n.commit
      BY <1>5, CommitType
<1>10. PICK p \in Nat : p = n.snap.index
      BY <1>5, SectionTypes, SectionAt
<1>11. PICK A \in Nat : A = n.applied
      BY <1>6, TypeInvAt
<1>12. A <= c /\ p <= c
      BY <1>5, <1>6, <1>8, <1>9, <1>10, <1>11 DEF DeliveryOK, CommitInLog
<1>13. PICK b \in Nat : b = IF A < p THEN p ELSE A
      OBVIOUS
<1>14. b <= c
      BY <1>12, <1>13
<1>15. /\ k.applied = c /\ k.commit = c /\ k.snap = n.snap /\ k.log = n.log
       /\ k.matchIndex = n.matchIndex
       /\ r.effects.install = (A < p) /\ r.effects.apply = (b + 1)..c
      BY <1>2, <1>3, <1>5, <1>9, <1>10, <1>11, <1>13, <1>14, StartDelivers
<1>16. KeepsVote(n, k) /\ NodeInv(k)
      BY <1>2, <1>3, <1>5, StartVotes, StartType DEF StepInv
<1>17. Settles(s, k) /\ pending'[s] = NoPending
  <2>1. Moves(s, k) /\ pending'[s] = NoPending
        BY <1>4, <1>6 DEF Moves, TypeInv, TypeOK, PerServer
  <2>2. pending'[s].effects.send = {} /\ pending'[s].phase # "writing"
        BY <2>1 DEF NoPending, NoEffects
  <2> QED BY <1>1, <1>8, <1>9, <1>15, <1>16, <2>1, <2>2 DEF Settles, KeepsVote
<1>18. Releases(s, k, {})
      BY <1>4 DEF Releases
<1>19. /\ AcksOK(h, a)'
       /\ \A x \in Server : AcksHeld(h, a, x, disk[x])' /\ AcksHeld(h, a, x, node[x])'
       /\ LaterHolds(h, a)' /\ VotesCovered(h, a)'
      BY <1>17, <1>18, SettledVotes
<1>20. MatchesAcked(h, a)' /\ CommitsChosen(h, a)'
      BY <1>17, <1>18, SettledCommits
<1>21. \A u \in Server : DeliveryOK(u)'
  <2>1. recoverApplication(disk[s], store[s]).applied = A
    <3>1. store[s].applied \in Nat
          BY TypeInvAt
    <3> QED BY <1>6, <1>11, <3>1, RecoveryKeeps
  <2>2. applyEffects(recoverApplication(disk[s], store[s]), k, r.effects).applied
            = b + Cardinality((b + 1)..c)
    <3>0. PICK st : st = recoverApplication(disk[s], store[s])
          OBVIOUS
    <3>1. applyEffects(st, k, r.effects).applied =
            (IF r.effects.install THEN k.snap.index ELSE st.applied) + Cardinality(r.effects.apply)
          BY AppliedAfter
    <3>2. applyEffects(st, k, r.effects).applied
            = (IF A < p THEN k.snap.index ELSE A) + Cardinality((b + 1)..c)
          BY <1>15, <2>1, <3>0, <3>1
    <3> QED BY <1>10, <1>13, <1>15, <3>0, <3>2
  <2>3. store'[s].applied = c /\ up'[s]
        BY <1>4, <1>14, <2>2, AppliedTo DEF TypeInv, TypeOK, PerServer
  <2>4. \A u \in Server \ {s} : store'[u] = store[u] /\ up'[u] = up[u]
        BY <1>4 DEF TypeInv, TypeOK, PerServer
  <2>5. c <= k.commit /\ c = k.commit /\ k.applied = k.commit
        BY <1>15
  <2> QED BY <1>17, <2>3, <2>4, <2>5, SettledDelivers
<1>22. HistoryTerms(h)'
      BY DEF CommitInv, HistoryTerms
<1> QED BY <1>19, <1>20, <1>21, <1>22 DEF CommitInv

\* The acknowledgement of a write releases its messages and its entries.
LEMMA AcknowledgeCommits ==
    ASSUME TypeInv, TypeInv', VoteInv, VoteInv', NEW h \in Histories, LogInv(h), LogInv(h)',
           NEW a \in Acks, CommitInv(h, a), NEW s \in Server, AcknowledgeWrite(s)
    PROVE  CommitInv(h, a)'
<1>1. PICK k : k = node[s]
      OBVIOUS
<1>2. PICK e : e = pending[s].effects
      OBVIOUS
<1>3. /\ up[s] /\ pending[s].phase = "written"
      /\ store' = [store EXCEPT ![s] = applyEffects(@, k, e)]
      /\ net' \subseteq net \cup e.send /\ pending' = [pending EXCEPT ![s] = NoPending]
      /\ UNCHANGED <<node, up, disk>>
      BY <1>1, <1>2 DEF AcknowledgeWrite, Send
<1>4. /\ disk[s].term = k.term /\ disk[s].commit = k.commit
      /\ disk[s].log = k.log /\ disk[s].snap = k.snap
      BY <1>1, <1>3 DEF VoteInv, WriteOK, CommitInv, CommitsChosen
<1>5. NodeInv(k)
      BY <1>1, TypeInvAt
<1>6. Settles(s, k) /\ pending'[s] = NoPending
  <2>1. Moves(s, k) /\ pending'[s] = NoPending
        BY <1>1, <1>3 DEF Moves, TypeInv, TypeOK, PerServer
  <2>2. pending'[s].effects.send = {} /\ pending'[s].phase # "writing"
        BY <2>1 DEF NoPending, NoEffects
  <2> QED BY <1>1, <1>4, <1>5, <2>1, <2>2 DEF Settles
<1>7. Releases(s, k, e.send)
      BY <1>1, <1>2, <1>3 DEF Releases
<1>8. /\ AcksOK(h, a)'
      /\ \A x \in Server : AcksHeld(h, a, x, disk[x])' /\ AcksHeld(h, a, x, node[x])'
      /\ LaterHolds(h, a)' /\ VotesCovered(h, a)'
      BY <1>6, <1>7, SettledVotes
<1>9. MatchesAcked(h, a)' /\ CommitsChosen(h, a)'
      BY <1>6, <1>7, SettledCommits
<1>10. \A u \in Server : DeliveryOK(u)'
  <2>1. PICK c \in Nat : c = k.commit
        BY <1>5, CommitType
  <2>2. PICK p \in Nat : p = k.snap.index
        BY <1>5, SectionTypes, SectionAt
  <2>3. PICK A \in Nat : A = store[s].applied
        BY TypeInvAt
  <2>4. PICK b \in Nat : b = IF e.install THEN p ELSE A
        OBVIOUS
  <2>5. DeliveryOK(s)
        BY DEF CommitInv
  <2>6. e.apply = (b + 1)..c /\ b <= c /\ k.applied = c
        BY <1>1, <1>2, <1>3, <2>1, <2>2, <2>3, <2>4, <2>5 DEF DeliveryOK
  <2>7. applyEffects(store[s], k, e).applied = b + Cardinality((b + 1)..c)
    <3>1. applyEffects(store[s], k, e).applied =
            (IF e.install THEN k.snap.index ELSE store[s].applied) + Cardinality(e.apply)
          BY AppliedAfter
    <3> QED BY <2>2, <2>3, <2>4, <2>6, <3>1
  <2>8. b + Cardinality((b + 1)..c) = c
        BY <2>6, AppliedTo
  <2>9. store'[s].applied = c /\ up'[s]
        BY <1>3, <2>7, <2>8 DEF TypeInv, TypeOK, PerServer
  <2>10. \A u \in Server \ {s} : store'[u] = store[u] /\ up'[u] = up[u]
        BY <1>3 DEF TypeInv, TypeOK, PerServer
  <2>11. c <= k.commit /\ c = k.commit /\ k.applied = k.commit
        BY <2>1, <2>6
  <2> QED BY <1>6, <2>9, <2>10, <2>11, SettledDelivers
<1>11. HistoryTerms(h)'
      BY DEF CommitInv, HistoryTerms
<1> QED BY <1>8, <1>9, <1>10, <1>11 DEF CommitInv

\* A packet lost, or a timer that fires on a leader.
LEMMA IdleCommits ==
    ASSUME NEW h \in Histories, LogInv(h), NEW a \in Acks, CommitInv(h, a),
           net' \subseteq net, UNCHANGED <<node, up, disk, store, pending>>
    PROVE  LogInv(h)' /\ CommitInv(h, a)'
<1>1. LogInv(h)'
  <2>1. LogsFromHistory(h)'
        BY DEF LogInv, LogsFromHistory, LeaderLogOK, Unborn
  <2>2. ConfigurationIsFixed(h)' /\ HistoriesAgree(h)'
        BY DEF LogInv, ConfigurationIsFixed, HistoriesAgree
  <2>3. HistoryElected(h)'
        BY DEF LogInv, HistoryElected, Recorded, Voted
  <2> QED BY <2>1, <2>2, <2>3 DEF LogInv
<1>2. durableTerms' = durableTerms
      BY DEF durableTerms
<1>3. HistoryTerms(h)' /\ AcksOK(h, a)'
      BY DEF CommitInv, HistoryTerms, AcksOK
<1>4. \A x \in Server : AcksHeld(h, a, x, disk[x])' /\ AcksHeld(h, a, x, node[x])'
      BY <1>2 DEF CommitInv, AcksHeld
<1>5. LaterHolds(h, a)'
      BY <1>2 DEF CommitInv, LaterHolds, Unborn
<1>6. VotesCovered(h, a)'
  <2>1. \A x, c : VoterCovered(h, a, x, c)' <=> VoterCovered(h, a, x, c)
        BY <1>2 DEF VoterCovered
  <2>2. \A m : RequestOK(m)' <=> RequestOK(m)
        BY DEF RequestOK, Candidacy
  <2>3. \A c, u : Candidacy(c, u)' <=> Candidacy(c, u)
        BY DEF Candidacy
  <2>4. \A x, c, t : Voted(x, c, t)' => Voted(x, c, t)
        BY DEF Voted
  <2>5. VotesCovered(h, a)
        BY DEF CommitInv
  <2> QED BY <2>1, <2>2, <2>3, <2>4, <2>5 DEF VotesCovered
<1>7. MatchesAcked(h, a)'
      BY DEF CommitInv, MatchesAcked, MatchOK
<1>8. CommitsChosen(h, a)'
      BY DEF CommitInv, CommitsChosen, CommitsOwn
<1>9. \A s \in Server : DeliveryOK(s)'
      BY DEF CommitInv, DeliveryOK
<1> QED BY <1>1, <1>3, <1>4, <1>5, <1>6, <1>7, <1>8, <1>9 DEF CommitInv

-----------------------------------------------------------------------------
(* The completion of a write: acknowledgements are made, and a history may *)
(* begin.                                                                  *)

\* Terms grow along a history that begins.
LEMMA OpensTerms ==
    ASSUME TypeInv, NEW h \in Histories, LogInv(h), NEW a \in Acks, CommitInv(h, a),
           NEW s \in Server, NEW g \in Histories, Opens(h, g, s)
    PROVE  HistoryTerms(g)
<1>1. PICK n : n = node[s]
      OBVIOUS
<1>2. PICK T \in Terms : T = n.term
      BY <1>1 DEF Opens
<1>3. PICK f \in Seq(Entry) : f = g.full[T]
      BY DEF Histories
<1>4. NodeInv(n) /\ SectionOK(n) /\ HistoryTerms(h) /\ HistoriesAgree(h) /\ TermsBounded(n)
      BY <1>1, TypeInvAt, SectionTypes DEF CommitInv, CommitsChosen, LogInv
<1>5. n.log # <<>>
      BY <1>1 DEF Opens, Unborn, LogInv, LogsFromHistory, LeaderLogOK
<1>6. PICK l \in Nat : l = lastIndex(n)
      BY <1>4, SectionAt
<1>7. PICK b \in Nat : b = n.snap.index
      BY <1>4, SectionAt
<1>8. b < l
  <2>1. Len(n.log) > 0
        BY <1>4, <1>5 DEF SectionOK
  <2> QED BY <1>4, <1>6, <1>7, <2>1, SectionAt
<1>9. Len(f) = l /\ Within(n, f) /\ f[l].term = T
      BY <1>1, <1>2, <1>3, <1>6 DEF Opens
<1>10. \E u \in Terms : \A i \in 1..(l - 1) : i <= Len(h.full[u]) /\ f[i] = h.full[u][i]
      BY <1>1, <1>2, <1>3, <1>6 DEF Opens
<1>11. PICK u \in Terms : \A i \in 1..(l - 1) : i <= Len(h.full[u]) /\ f[i] = h.full[u][i]
      BY <1>10
<1>12. ASSUME NEW i \in 1..(l - 1), NEW j \in 1..i PROVE f[j].term <= f[i].term /\ f[j].term \in Nat
  <2>1. i \in Nat /\ j \in Nat /\ j > 0 /\ j <= i /\ j \in 1..(l - 1)
        BY <1>12
  <2>2. f[i] = h.full[u][i] /\ i <= Len(h.full[u]) /\ f[j] = h.full[u][j]
        BY <1>11, <2>1
  <2>3. h.full[u][j].term <= h.full[u][i].term /\ h.full[u][j].term \in Terms
        BY <1>4, <2>1, <2>2, TermsOrdered
  <2> QED BY <2>2, <2>3 DEF Terms
<1>13. ASSUME NEW j \in 1..(l - 1) PROVE f[j].term <= T
  <2>1. l - 1 \in Nat /\ l - 1 \in 1..(l - 1) /\ j \in 1..(l - 1)
        BY <1>13
  <2>2. f[j].term <= f[l - 1].term /\ f[j].term \in Nat /\ f[l - 1].term \in Nat
        BY <1>12, <2>1
  <2>3. PICK p \in Nat : p = l - 1
        BY <2>1
  <2>4. p > 0 /\ b <= p /\ p <= l
        BY <1>8, <2>1, <2>3
  <2>5. termAt(n, p) = f[p].term
        BY <1>4, <1>6, <1>7, <1>9, <2>4, WithinAt
  <2>6. termAt(n, p) <= T
        BY <1>2, <1>4, <1>6, <1>7, <2>4 DEF TermsBounded
  <2> QED BY <2>2, <2>3, <2>5, <2>6 DEF Terms
<1>14. ASSUME NEW i \in 1..l, NEW j \in 1..i PROVE f[j].term <= f[i].term
  <2>1. CASE i = l /\ j = l
        BY <1>9, <2>1 DEF Terms
  <2>2. CASE i = l /\ j # l
    <3>1. j \in 1..(l - 1)
          BY <1>14, <2>2
    <3> QED BY <1>9, <1>13, <2>2, <3>1
  <2>3. CASE i # l
    <3>1. i \in 1..(l - 1)
          BY <1>14, <2>3
    <3> QED BY <1>12, <3>1
  <2> QED BY <2>1, <2>2, <2>3
<1>15. ASSUME NEW t \in Terms
       PROVE  /\ \A i \in 1..Len(g.full[t]) : \A j \in 1..i :
                        g.full[t][j].term <= g.full[t][i].term
              /\ g.full[t] # <<>> => g.full[t][Len(g.full[t])].term = t
  <2>1. CASE t = T
        BY <1>3, <1>9, <1>14, <2>1
  <2>2. CASE t # T
    <3>1. g.full[t] = h.full[t]
          BY <1>1, <1>2, <2>2 DEF Opens
    <3> QED BY <1>4, <3>1 DEF HistoryTerms
  <2> QED BY <2>1, <2>2
<1> QED BY <1>15 DEF HistoryTerms

\* The completion of a write of s changes only what is on its disk.
Completes(s) ==
    /\ UNCHANGED <<node, up, store, net>> /\ up[s]
    /\ \A u \in Server \ {s} : disk'[u] = disk[u] /\ pending'[u] = pending[u]
    /\ disk'[s].term = node[s].term /\ disk'[s].commit = node[s].commit
    /\ disk'[s].log = node[s].log /\ disk'[s].snap = node[s].snap
    /\ pending[s].phase = "writing" /\ pending'[s].phase = "written"
    /\ pending'[s].effects = pending[s].effects

\* CompleteWrite does exactly that.
LEMMA WriteCompletes ==
    ASSUME TypeInv, NEW s \in Server, CompleteWrite(s)
    PROVE  Completes(s)
<1>1. /\ disk' = [disk EXCEPT ![s] = persistentState(node[s])] /\ up[s]
      /\ pending' = [pending EXCEPT ![s].phase = "written"] /\ pending[s].phase = "writing"
      /\ UNCHANGED <<node, up, store, net>>
      BY DEF CompleteWrite
<1>2. /\ disk'[s] = persistentState(node[s]) /\ \A u \in Server \ {s} : disk'[u] = disk[u]
      BY <1>1 DEF TypeInv, TypeOK, PerServer
<1>3. /\ pending'[s].effects = pending[s].effects /\ pending'[s].phase = "written"
      /\ \A u \in Server \ {s} : pending'[u] = pending[u]
  <2>1. PendingOK(pending[s])
        BY TypeInvAt
  <2> QED BY <1>1, <2>1 DEF TypeInv, TypeOK, PerServer, PendingOK
<1> QED BY <1>1, <1>2, <1>3 DEF Completes, persistentState

\* From h and a to g and b: a history may begin, and s acknowledges its log
\* if it ends in an entry of its term.
Written(h, g, a, b, s) ==
    LET n == node[s]
        T == n.term
    IN  /\ Continues(h, g) /\ HistoryTerms(g) /\ HistoriesAgree(g)
        /\ \A t \in Terms : g.full[t] # h.full[t] => t = T /\ h.full[t] = <<>> /\ Unborn(h, s)
        /\ FromHistory(g, n)
        /\ n.role = Leader => /\ T \in Terms /\ g.full[T] # <<>> /\ Within(n, g.full[T])
                              /\ lastIndex(n) = Len(g.full[T])
        /\ \A t \in Terms, x \in Server :
            /\ a[t][x] <= b[t][x]
            /\ b[t][x] # a[t][x] => x = s /\ t = T /\ lastTerm(n) = T /\ b[t][x] = lastIndex(n)
        /\ T \in Terms /\ lastTerm(n) = T => b[T][s] = lastIndex(n)

\* There are such acknowledgements.
LEMMA WriteAcks ==
    ASSUME TypeInv, TypeInv', NEW h \in Histories, LogInv(h), NEW a \in Acks, CommitInv(h, a),
           NEW s \in Server, Completes(s),
           NEW g \in Histories, LogInv(g)', HistoryWrite(h, g, s)
    PROVE  \E b \in Acks : Written(h, g, a, b, s)
<1>1. PICK n : n = node[s]
      OBVIOUS
<1>2. PICK T : T = n.term
      OBVIOUS
<1>3. PICK l \in Nat : l = lastIndex(n)
      BY <1>1, Sections, SectionAt
<1> DEFINE b == [t \in Terms |-> [x \in Server |->
                    IF x = s /\ t = T /\ lastTerm(n) = T THEN l ELSE a[t][x]]]
<1>4. b \in Acks /\ \A t \in Terms, x \in Server :
            b[t][x] = IF x = s /\ t = T /\ lastTerm(n) = T THEN l ELSE a[t][x]
      BY DEF Acks
<1> HIDE DEF b
<1>5. ASSUME NEW t \in Terms, NEW x \in Server PROVE a[t][x] <= b[t][x]
  <2>1. PICK i \in Nat : i = a[t][x]
        BY DEF Acks
  <2>2. CASE x = s /\ t = T /\ lastTerm(n) = T
    <3>1. CASE i = 0
          BY <1>4, <2>1, <2>2, <3>1
    <3>2. CASE i > 0
      <4>1. AcksOK(h, a) /\ AcksHeld(h, a, s, node[s])
            BY DEF CommitInv
      <4>2. Own(h, t, i)
            BY <2>1, <3>2, <4>1 DEF AcksOK
      <4>3. i \in 1..a[t][s] /\ node[s].term = t
            BY <1>1, <1>2, <2>1, <2>2, <3>2
      <4>4. Includes(h, node[s], i, t)
            BY <4>1, <4>2, <4>3 DEF AcksHeld
      <4> QED BY <1>1, <1>3, <1>4, <2>1, <2>2, <4>4 DEF Includes
    <3> QED BY <3>1, <3>2
  <2>3. CASE ~(x = s /\ t = T /\ lastTerm(n) = T)
    <3>1. b[t][x] = i /\ i <= i
          BY <1>4, <2>1, <2>3
    <3> QED BY <2>1, <3>1
  <2> QED BY <2>2, <2>3
<1>6. Continues(h, g) /\ HistoryTerms(g)
      /\ \A t \in Terms : g.full[t] # h.full[t] => t = T /\ h.full[t] = <<>> /\ Unborn(h, s)
  <2>1. CASE g = h
    <3>1. Continues(h, h)
          BY HistoryStepSame DEF HistoryStep
    <3> QED BY <2>1, <3>1 DEF CommitInv
  <2>2. CASE Opens(h, g, s)
    <3>1. HistoryTerms(g)
          BY <2>2, OpensTerms
    <3>2. h.full[T] = <<>> /\ Unborn(h, s) /\ Continues(h, g)
          BY <1>1, <1>2, <2>2 DEF Opens, Unborn
    <3>3. \A t \in Terms : g.full[t] # h.full[t] => t = T
          BY <1>1, <1>2, <2>2 DEF Opens
    <3> QED BY <3>1, <3>2, <3>3
  <2> QED BY <2>1, <2>2 DEF HistoryWrite
<1>7. /\ FromHistory(g, n) /\ HistoriesAgree(g)
      /\ n.role = Leader => /\ T \in Terms /\ g.full[T] # <<>> /\ Within(n, g.full[T])
                            /\ l = Len(g.full[T])
  <2>1. node'[s] = n /\ NodeInv(n) /\ pending'[s].phase # "writing"
        BY <1>1, TypeInvAt DEF Completes
  <2>2. /\ n.role # Leader => FromHistory(g, n)
        /\ n.role = Leader =>
                /\ n.term \in Terms
                /\ \/ g.full[n.term] = <<>> /\ pending'[s].phase = "writing"
                   \/ /\ g.full[n.term] # <<>> /\ lastIndex(n) = Len(g.full[n.term])
                      /\ Within(n, g.full[n.term]) /\ FromHistory(g, n)
        /\ HistoriesAgree(g)
        BY <2>1, LeadsAfter
  <2> QED BY <1>2, <1>3, <2>1, <2>2
<1>8. T \in Terms /\ lastTerm(n) = T => b[T][s] = l
      BY <1>4
<1>9. \A t \in Terms, x \in Server :
            b[t][x] # a[t][x] => x = s /\ t = T /\ lastTerm(n) = T /\ b[t][x] = l
      BY <1>4
<1>10. Written(h, g, a, b, s)
      BY <1>1, <1>2, <1>3, <1>5, <1>6, <1>7, <1>8, <1>9 DEF Written
<1> QED BY <1>4, <1>10

\* What may be chosen after the write may have been chosen before it.
LEMMA WriteChoosable ==
    ASSUME NEW h, NEW g, NEW a \in Acks, NEW b \in Acks, NEW s \in Server, Written(h, g, a, b, s),
           NEW T \in Nat, node[s].term = T,
           NEW c \in [Server -> Nat], NEW d \in [Server -> Nat],
           \A x \in Server : d[x] <= c[x], d[s] <= T,
           NEW t \in Terms, NEW i \in Nat, Choosable(b, c, t, i)
    PROVE  Choosable(a, d, t, i)
<1>1. PICK Q \in SUBSET Server :
            quorum(InitialMembership, Q) /\ \A x \in Q : b[t][x] >= i \/ c[x] <= t
      BY DEF Choosable
<1>2. ASSUME NEW x \in Q PROVE a[t][x] >= i \/ d[x] <= t
  <2>1. x \in Server /\ t \in Nat
        BY DEF Terms
  <2>2. CASE b[t][x] # a[t][x]
    <3>1. x = s /\ t = T
          BY <2>1, <2>2 DEF Written
    <3> QED BY <3>1
  <2>3. CASE b[t][x] = a[t][x]
    <3>1. CASE b[t][x] >= i
          BY <2>3, <3>1
    <3>2. CASE c[x] <= t
      <4>1. d[x] <= c[x] /\ d[x] \in Nat /\ c[x] \in Nat
            BY <2>1
      <4> QED BY <2>1, <3>2, <4>1
    <3> QED BY <1>1, <3>1, <3>2
  <2> QED BY <2>2, <2>3
<1> QED BY <1>1, <1>2 DEF Choosable

\* What is chosen stays chosen.
LEMMA WriteChosen ==
    ASSUME NEW h, NEW g, NEW a \in Acks, NEW b \in Acks, NEW s, Written(h, g, a, b, s),
           NEW t \in Terms, NEW i \in Nat, Chosen(a, t, i)
    PROVE  Chosen(b, t, i)
<1>1. PICK Q \in SUBSET Server : quorum(InitialMembership, Q) /\ \A x \in Q : a[t][x] >= i
      BY DEF Chosen
<1>2. ASSUME NEW x \in Q PROVE b[t][x] >= i
  <2>1. x \in Server /\ a[t][x] \in Nat /\ b[t][x] \in Nat
        BY DEF Acks
  <2>2. a[t][x] <= b[t][x]
        BY <2>1 DEF Written
  <2> QED BY <1>1, <2>1, <2>2
<1> QED BY <1>1, <1>2 DEF Chosen

\* Durable terms around the completion of a write of s.
LEMMA WriteTerms ==
    ASSUME TypeInv, TypeInv', VoteInv, NEW s \in Server, Completes(s)
    PROVE  /\ \A x \in Server : /\ disk[x].term \in Nat /\ disk'[x].term \in Nat
                                /\ disk[x].term <= disk'[x].term
           /\ node[s].term \in Nat /\ disk[s].term <= node[s].term
           /\ durableTerms \in [Server -> Nat] /\ durableTerms' \in [Server -> Nat]
           /\ durableTerms' = [durableTerms EXCEPT ![s] = node[s].term]
<1>1. \A x \in Server : disk[x].term \in Nat /\ disk'[x].term \in Nat
  <2>1. \A x \in Server : disk[x].term \in Nat
        BY VoteTypes
  <2>2. \A x \in Server : disk'[x].term \in 0..MaxTerm
        BY DEF TypeInv, TypeOK, HardStateOK
  <2> QED BY <2>1, <2>2, ConstantsType
<1>2. node[s].term \in Nat /\ disk[s].term <= node[s].term
      BY VoteTypes DEF VoteInv, WriteOK
<1>3. \A x \in Server : disk'[x].term = IF x = s THEN node[s].term ELSE disk[x].term
      BY DEF Completes
<1>4. \A x \in Server : disk[x].term <= disk'[x].term
      BY <1>1, <1>2, <1>3
<1>5. durableTerms' = [durableTerms EXCEPT ![s] = node[s].term]
      BY <1>3 DEF durableTerms
<1>6. durableTerms \in [Server -> Nat]
      BY DurableType
<1>7. durableTerms' \in [Server -> Nat]
      BY <1>2, <1>5, <1>6
<1> QED BY <1>1, <1>2, <1>4, <1>5, <1>6, <1>7

\* What may be chosen after the write may have been before, and s's term
\* does not help to choose it.
LEMMA WriteMayChoose ==
    ASSUME TypeInv, TypeInv', VoteInv, NEW h, NEW g, NEW a \in Acks, NEW b \in Acks,
           NEW s \in Server, Completes(s), Written(h, g, a, b, s),
           NEW t \in Terms, NEW i \in Nat, Choosable(b, durableTerms', t, i)
    PROVE  /\ Choosable(a, durableTerms, t, i)
           /\ Choosable(a, [durableTerms EXCEPT ![s] = node[s].term], t, i)
<1>1. PICK T \in Nat : T = node[s].term
      BY WriteTerms
<1>2. PICK c \in [Server -> Nat] : c = durableTerms'
      BY WriteTerms
<1>3. PICK d \in [Server -> Nat] : d = durableTerms
      BY WriteTerms
<1>4. c = [d EXCEPT ![s] = T] /\ d[s] <= T /\ Choosable(b, c, t, i)
      BY <1>1, <1>2, <1>3, WriteTerms DEF durableTerms
<1>5. (\A x \in Server : d[x] <= c[x]) /\ (\A x \in Server : c[x] <= c[x]) /\ c[s] <= T
      BY <1>4
<1>6. Choosable(a, d, t, i)
      BY <1>1, <1>4, <1>5, WriteChoosable
<1>7. Choosable(a, c, t, i)
      BY <1>1, <1>4, <1>5, WriteChoosable
<1> QED BY <1>1, <1>3, <1>4, <1>6, <1>7

\* An acknowledgement that is not new was made under h.
LEMMA WriteOwn ==
    ASSUME NEW h \in Histories, NEW g \in Histories, NEW a \in Acks, AcksOK(h, a),
           NEW b \in Acks, NEW s, Written(h, g, a, b, s), NEW t \in Terms, NEW x \in Server,
           NEW i \in 1..b[t][x], b[t][x] = a[t][x], Own(g, t, i)
    PROVE  i \in Nat /\ i > 0 /\ i \in 1..a[t][x] /\ Own(h, t, i) /\ i \in 1..Len(h.full[t])
<1>1. PICK c \in Nat : c = a[t][x]
      BY DEF Acks
<1>2. i \in Nat /\ i > 0 /\ i <= c /\ i \in 1..a[t][x]
      BY <1>1
<1>3. PICK l \in Nat : l = Len(h.full[t])
      BY DEF Histories
<1>4. c <= l
      BY <1>1, <1>3, AckedInHistory
<1>5. i <= Len(h.full[t]) /\ i \in 1..Len(h.full[t])
      BY <1>2, <1>3, <1>4
<1>6. Continues(h, g)
      BY DEF Written
<1> QED BY <1>2, <1>5, <1>6, OwnContinues

\* Acknowledgements are kept on disk and in memory.
LEMMA WriteHeld ==
    ASSUME TypeInv, TypeInv', VoteInv, NEW h \in Histories, LogInv(h), NEW a \in Acks,
           AcksOK(h, a), NEW s \in Server, Completes(s), NEW g \in Histories, NEW b \in Acks,
           Written(h, g, a, b, s), NEW x \in Server,
           NEW d, SectionOK(d), Anchored(h, d), AcksHeld(h, a, x, d), x = s => d = node[s],
           NEW e, e.log = d.log, e.snap = d.snap, e.term = d.term,
           NEW t \in Terms, NEW i \in 1..b[t][x], Own(g, t, i),
           e.term = t \/ Choosable(b, durableTerms', t, i)
    PROVE  Includes(g, e, i, t)
<1>1. Includes(g, d, i, t) <=> Includes(g, e, i, t)
      BY IncludesSame
<1>2. Continues(h, g)
      BY DEF Written
<1>3. CASE b[t][x] = a[t][x]
  <2>1. i \in Nat /\ i > 0 /\ i \in 1..a[t][x] /\ Own(h, t, i)
        BY <1>3, WriteOwn
  <2>2. d.term = t \/ Choosable(a, durableTerms, t, i)
        BY <2>1, WriteMayChoose
  <2>3. Includes(h, d, i, t)
        BY <2>1, <2>2 DEF AcksHeld
  <2>4. Includes(g, d, i, t)
        BY <1>2, <2>1, <2>3, IncludesContinues
  <2> QED BY <1>1, <2>4
<1>4. CASE b[t][x] # a[t][x]
  <2>1. PICK l \in Nat : l = lastIndex(d)
        BY SectionAt
  <2>2. d = node[s] /\ lastTerm(d) = t /\ b[t][x] = l
        BY <1>4, <2>1 DEF Written
  <2>3. i \in Nat /\ i > 0 /\ i <= l
        BY <2>1, <2>2
  <2>4. HistoriesAgree(g) /\ FromHistory(g, d)
        BY <2>2 DEF Written
  <2>5. PICK u \in Terms : Within(d, g.full[u])
        BY <2>4 DEF FromHistory
  <2>6. l <= Len(g.full[u]) /\ g.full[u][l].term = t /\ Len(g.full[u]) \in Nat
        BY <2>1, <2>2, <2>3, <2>5, LastTermWithin
  <2>7. l \in 1..Len(g.full[u]) /\ i \in 1..l
        BY <2>3, <2>6
  <2>8. g.full[u][i] = g.full[t][i]
        BY <2>4, <2>6, <2>7 DEF HistoriesAgree
  <2>9. g.full[u][i].term = t
        BY <2>8 DEF Own
  <2>10. Includes(g, d, i, t)
        BY <2>1, <2>3, <2>4, <2>5, <2>9, IncludesWithin
  <2> QED BY <1>1, <2>10
<1> QED BY <1>3, <1>4

\* Acknowledgements are of entries of their term, and kept.
LEMMA WriteAcked ==
    ASSUME TypeInv, TypeInv', VoteInv, NEW h \in Histories, LogInv(h), NEW a \in Acks,
           CommitInv(h, a), NEW s \in Server, Completes(s), NEW g \in Histories, NEW b \in Acks,
           Written(h, g, a, b, s)
    PROVE  /\ AcksOK(g, b)'
           /\ \A x \in Server : AcksHeld(g, b, x, disk[x])' /\ AcksHeld(g, b, x, node[x])'
<1>1. /\ AcksOK(h, a)
      /\ \A x \in Server : AcksHeld(h, a, x, disk[x]) /\ AcksHeld(h, a, x, node[x])
      BY DEF CommitInv
<1>2. \A x \in Server : /\ SectionOK(node[x]) /\ SectionOK(disk[x])
                        /\ Anchored(h, node[x]) /\ Anchored(h, disk[x])
      BY Sections
<1>3. AcksOK(g, b)'
  <2>1. ASSUME NEW t \in Terms, NEW x \in Server, b[t][x] > 0
        PROVE  Own(g, t, b[t][x]) /\ disk'[x].term >= t
    <3>1. PICK c \in Nat : c = b[t][x]
          BY DEF Acks
    <3>2. c > 0
          BY <2>1, <3>1
    <3>3. /\ disk[x].term \in Nat /\ disk'[x].term \in Nat /\ disk[x].term <= disk'[x].term
          /\ t \in Nat
          BY WriteTerms DEF Terms
    <3>4. CASE b[t][x] = a[t][x]
      <4>1. Own(h, t, c) /\ disk[x].term >= t
            BY <1>1, <3>1, <3>2, <3>4 DEF AcksOK
      <4>2. Continues(h, g)
            BY DEF Written
      <4>3. Own(g, t, c)
            BY <3>2, <4>1, <4>2, OwnContinues
      <4> QED BY <3>1, <3>3, <4>1, <4>3
    <3>5. CASE b[t][x] # a[t][x]
      <4>1. x = s /\ t = node[s].term /\ lastTerm(node[s]) = t /\ c = lastIndex(node[s])
            BY <3>1, <3>5 DEF Written
      <4>2. HistoriesAgree(g) /\ FromHistory(g, node[s])
            BY DEF Written
      <4>3. PICK u \in Terms : Within(node[s], g.full[u])
            BY <4>2 DEF FromHistory
      <4>4. c <= Len(g.full[u]) /\ g.full[u][c].term = t /\ Len(g.full[u]) \in Nat
            BY <1>2, <3>2, <4>1, <4>3, LastTermWithin
      <4>5. c \in 1..Len(g.full[u]) /\ c \in 1..c
            BY <3>2, <4>4
      <4>6. c <= Len(g.full[t]) /\ g.full[t][c].term = t
            BY <4>2, <4>4, <4>5 DEF HistoriesAgree
      <4>7. c \in 1..Len(g.full[t])
        <5>1. Len(g.full[t]) \in Nat
              BY DEF Histories
        <5> QED BY <3>2, <4>6, <5>1
      <4>8. disk'[s].term >= t
            BY <3>3, <4>1 DEF Completes
      <4> QED BY <3>1, <4>1, <4>6, <4>7, <4>8 DEF Own
    <3> QED BY <3>4, <3>5
  <2>2. ASSUME NEW t \in Terms, NEW x \in Server, disk'[x].term = t, lastTerm(disk'[x]) = t
        PROVE  b[t][x] >= lastIndex(disk'[x])
    <3>1. CASE x = s
      <4>1. disk'[s].log = node[s].log /\ disk'[s].snap = node[s].snap /\ node[s].term = t
            BY <2>2, <3>1 DEF Completes
      <4>2. lastIndex(disk'[s]) = lastIndex(node[s]) /\ lastTerm(disk'[s]) = lastTerm(node[s])
            BY <4>1, IncludesSame
      <4>3. b[t][s] = lastIndex(node[s])
            BY <2>2, <3>1, <4>1, <4>2 DEF Written
      <4>4. lastIndex(node[s]) \in Nat
            BY <1>2, SectionAt
      <4> QED BY <3>1, <4>2, <4>3, <4>4
    <3>2. CASE x # s
      <4>1. disk'[x] = disk[x]
            BY <3>2 DEF Completes
      <4>2. a[t][x] >= lastIndex(disk[x])
            BY <1>1, <2>2, <4>1 DEF AcksOK
      <4>3. b[t][x] = a[t][x]
            BY <3>2 DEF Written
      <4> QED BY <4>1, <4>2, <4>3
    <3> QED BY <3>1, <3>2
  <2> QED BY <2>1, <2>2 DEF AcksOK
<1>4. ASSUME NEW x \in Server PROVE AcksHeld(g, b, x, disk[x])'
  <2>1. PICK d : d = IF x = s THEN node[s] ELSE disk[x]
        OBVIOUS
  <2>2. PICK e : e = disk'[x]
        OBVIOUS
  <2>3. /\ SectionOK(d) /\ Anchored(h, d) /\ AcksHeld(h, a, x, d) /\ (x = s => d = node[s])
        /\ e.log = d.log /\ e.snap = d.snap /\ e.term = d.term
        BY <1>1, <1>2, <2>1, <2>2 DEF Completes
  <2>4. \A t \in Terms : \A i \in 1..b[t][x] :
            Own(g, t, i) /\ (e.term = t \/ Choosable(b, durableTerms', t, i)) => Includes(g, e, i, t)
        BY <1>1, <2>3, WriteHeld
  <2> QED BY <2>2, <2>4 DEF AcksHeld
<1>5. ASSUME NEW x \in Server PROVE AcksHeld(g, b, x, node[x])'
  <2>1. PICK d : d = node[x]
        OBVIOUS
  <2>2. SectionOK(d) /\ Anchored(h, d) /\ AcksHeld(h, a, x, d) /\ (x = s => d = node[s])
        BY <1>1, <1>2, <2>1
  <2>3. \A t \in Terms : \A i \in 1..b[t][x] :
            Own(g, t, i) /\ (d.term = t \/ Choosable(b, durableTerms', t, i)) => Includes(g, d, i, t)
        BY <1>1, <2>2, WriteHeld
  <2>4. node'[x] = d
        BY <2>1 DEF Completes
  <2> QED BY <2>3, <2>4 DEF AcksHeld
<1> QED BY <1>3, <1>4, <1>5

\* What may be chosen is in every later history, also in the one that begins.
LEMMA WriteLater ==
    ASSUME TypeInv, TypeInv', VoteInv, NEW h \in Histories, LogInv(h), NEW a \in Acks,
           CommitInv(h, a), NEW s \in Server, Completes(s), NEW g \in Histories, NEW b \in Acks,
           Written(h, g, a, b, s)
    PROVE  LaterHolds(g, b)'
<1>1. AcksOK(h, a) /\ LaterHolds(h, a) /\ Continues(h, g) /\ HistoriesAgree(g)
      BY DEF CommitInv, Written
<1>2. \A t \in Terms : Len(h.full[t]) \in Nat /\ Len(g.full[t]) \in Nat
      BY DEF Histories
<1>3. ASSUME NEW t \in Terms, NEW u \in Terms, NEW i \in 1..Len(g.full[t]),
             t < u, g.full[u] # <<>>, Own(g, t, i), Choosable(b, durableTerms', t, i)
      PROVE  i <= Len(g.full[u]) /\ g.full[u][i].term = t
  <2>1. i \in Nat /\ i > 0
        BY <1>2
  <2>2. /\ Choosable(a, durableTerms, t, i)
        /\ Choosable(a, [durableTerms EXCEPT ![s] = node[s].term], t, i)
        BY <1>3, <2>1, WriteMayChoose
  <2>3. CASE h.full[u] # <<>>
    <3>1. i <= Len(h.full[t])
      <4> SUFFICES ASSUME i > Len(h.full[t]) PROVE FALSE
          BY <1>2, <2>1
      <4>1. /\ quorum(InitialMembership, h.quorum[u])
            /\ \A x \in h.quorum[u] \cap Server : Recorded(x, h.lead[u], u)
            BY <2>3 DEF LogInv, HistoryElected
      <4>2. ASSUME NEW x \in h.quorum[u] \cap Server PROVE durableTerms[x] > t
        <5>1. disk[x].term \in Nat /\ t \in Nat /\ u \in Nat /\ durableTerms[x] = disk[x].term
              BY VoteTypes DEF Terms, durableTerms
        <5>2. disk[x].term > u \/ disk[x].term = u
              BY <4>1 DEF Recorded
        <5> QED BY <1>3, <5>1, <5>2
      <4>3. durableTerms \in [Server -> Nat]
            BY DurableType
      <4> QED BY <1>1, <2>1, <2>2, <4>1, <4>2, <4>3, NotAbove
    <3>2. Own(h, t, i) /\ i \in 1..Len(h.full[t])
          BY <1>1, <1>2, <1>3, <2>1, <3>1, OwnContinues
    <3>3. i <= Len(h.full[u]) /\ h.full[u][i].term = t
          BY <1>1, <1>3, <2>2, <2>3, <3>2 DEF LaterHolds
    <3> QED BY <1>1, <2>1, <3>3, OwnContinues
  <2>4. CASE h.full[u] = <<>>
    <3>1. u = node[s].term /\ Unborn(h, s)
          BY <1>3, <2>4 DEF Written
    <3>2. t \in Nat /\ u \in Nat /\ t # u
          BY <1>3 DEF Terms
    <3>3. g.full[t] = h.full[t]
          BY <3>1, <3>2 DEF Written
    <3>4. Own(h, t, i) /\ i \in 1..Len(h.full[t]) /\ t < node[s].term
          BY <1>3, <3>1, <3>3 DEF Own
    <3>5. Includes(h, node[s], i, t)
          BY <1>1, <2>2, <3>1, <3>4 DEF LaterHolds
    <3>6. SectionOK(node[s]) /\ Anchored(h, node[s])
          BY Sections
    <3>7. Includes(g, node[s], i, t)
          BY <1>1, <2>1, <3>5, <3>6, IncludesContinues
    <3>8. Within(node[s], g.full[u]) /\ lastIndex(node[s]) = Len(g.full[u])
          BY <3>1 DEF Written, Unborn
    <3> QED BY <1>1, <2>1, <3>6, <3>7, <3>8, IncludesWithin
  <2> QED BY <2>3, <2>4
<1>4. ASSUME NEW u \in Server, NEW t \in Terms, NEW i \in 1..Len(g.full[t]), Unborn(g, u),
             t < node[u].term, Own(g, t, i),
             Choosable(b, [durableTerms' EXCEPT ![u] = node[u].term], t, i)
      PROVE  Includes(g, node[u], i, t)
  <2>1. PICK n : n = node[u]
        OBVIOUS
  <2>2. i \in Nat /\ i > 0
        BY <1>2
  <2>3. /\ NodeInv(n) /\ n.id = u /\ n.term \in Terms /\ n.role = Leader
        /\ SectionOK(n) /\ Anchored(h, n)
    <3>1. NodeInv(n) /\ n.id = u /\ SectionOK(n) /\ Anchored(h, n)
          BY <2>1, Sections
    <3>2. n.role = Leader
          BY <1>4, <2>1 DEF Unborn
    <3> QED BY <3>1, <3>2, LeaderTerm DEF Leader, Follower
  <2>4. u # s
        BY <1>4 DEF Unborn, Written
  <2>5. Unborn(h, u)
    <3>1. g.full[n.term] = <<>>
          BY <1>4, <2>1 DEF Unborn
    <3>2. Len(h.full[n.term]) = 0
          BY <1>1, <1>2, <2>3, <3>1 DEF Continues
    <3>3. h.full[n.term] \in Seq(Entry)
          BY <2>3 DEF Histories
    <3>4. h.full[n.term] = <<>>
          BY <3>2, <3>3
    <3> QED BY <2>1, <2>3, <3>4 DEF Unborn
  <2>6. PICK d \in [Server -> Nat] : d = [durableTerms EXCEPT ![u] = n.term]
    <3>1. durableTerms \in [Server -> Nat] /\ n.term \in Nat
          BY <2>3, DurableType DEF Terms
    <3> QED BY <3>1
  <2>7. Choosable(a, d, t, i)
    <3>1. PICK c \in [Server -> Nat] : c = [durableTerms' EXCEPT ![u] = n.term]
      <4>1. durableTerms' \in [Server -> Nat] /\ n.term \in Nat
            BY <2>3, WriteTerms DEF Terms
      <4> QED BY <4>1
    <3>2. \A x \in Server : d[x] <= c[x]
      <4>1. ASSUME NEW x \in Server PROVE d[x] <= c[x]
        <5>1. CASE x = u
          <6>1. d[x] = c[x]
            <7>1. durableTerms \in [Server -> Nat] /\ durableTerms' \in [Server -> Nat]
                  BY WriteTerms
            <7> QED BY <2>6, <3>1, <5>1, <7>1
          <6> QED BY <6>1
        <5>2. CASE x # u
          <6>1. d[x] = disk[x].term /\ c[x] = disk'[x].term
                BY <2>6, <3>1, <5>2 DEF durableTerms
          <6> QED BY <6>1, WriteTerms
        <5> QED BY <5>1, <5>2
      <4> QED BY <4>1
    <3>3. PICK T \in Nat : T = node[s].term
          BY WriteTerms
    <3>4. d[s] <= T
      <4>1. d[s] = disk[s].term
            BY <2>4, <2>6 DEF durableTerms
      <4> QED BY <3>3, <4>1, WriteTerms
    <3>5. Choosable(b, c, t, i)
          BY <1>4, <2>1, <3>1
    <3> QED BY <2>2, <3>2, <3>3, <3>4, <3>5, WriteChoosable
  <2>8. /\ quorum(InitialMembership, n.electionVotes)
        /\ \A x \in n.electionVotes \cap Server : d[x] > t
    <3>1. /\ quorum(n.electionMembership, n.electionVotes) /\ n.electionVotes \subseteq n.votes
          BY <2>1, <2>3 DEF VoteInv, VoteOK
    <3>2. n.electionMembership = InitialMembership
          BY <2>1, <2>3 DEF LogInv, ConfigurationIsFixed
    <3>3. ASSUME NEW x \in n.electionVotes \cap Server PROVE d[x] > t
      <4>1. CASE x = u
            BY <1>4, <2>1, <2>6, <4>1 DEF durableTerms
      <4>2. CASE x # u
        <5>1. Voted(x, u, n.term)
              BY <2>1, <2>3, <3>1, <4>2 DEF Voted, Leader, Follower
        <5>2. n.term \in 0..MaxTerm
              BY <2>3, ConstantsType DEF Terms
        <5>3. Recorded(x, u, n.term)
              BY <5>1, <5>2 DEF VoteInv, VotesAreFinal
        <5>4. disk[x].term > n.term \/ disk[x].term = n.term
              BY <5>3 DEF Recorded
        <5>5. disk[x].term \in Nat /\ n.term \in Nat /\ t \in Nat /\ d[x] = disk[x].term
              BY <2>3, <2>6, <4>2, VoteTypes DEF Terms, durableTerms
        <5> QED BY <1>4, <2>1, <5>4, <5>5
      <4> QED BY <4>1, <4>2
    <3> QED BY <3>1, <3>2, <3>3
  <2>9. i <= Len(h.full[t])
    <3> SUFFICES ASSUME i > Len(h.full[t]) PROVE FALSE
        BY <1>2, <2>2
    <3> QED BY <1>1, <2>2, <2>7, <2>8, NotAbove
  <2>10. Own(h, t, i) /\ i \in 1..Len(h.full[t])
        BY <1>1, <1>2, <1>4, <2>2, <2>9, OwnContinues
  <2>11. Includes(h, n, i, t)
        BY <1>1, <1>4, <2>1, <2>5, <2>6, <2>7, <2>10 DEF LaterHolds
  <2>12. Includes(g, n, i, t)
        BY <1>1, <2>2, <2>3, <2>11, IncludesContinues
  <2> QED BY <2>1, <2>12
<1>5. node' = node
      BY DEF Completes
<1> QED BY <1>3, <1>4, <1>5 DEF LaterHolds, Unborn

\* A voter that is covered stays covered, unless its write adds to what it
\* has acknowledged in an earlier term than the candidate's.
LEMMA WriteCovers ==
    ASSUME TypeInv, TypeInv', VoteInv, NEW h \in Histories, NEW a \in Acks,
           AcksOK(h, a), NEW s \in Server, Completes(s), NEW g \in Histories, NEW b \in Acks,
           Written(h, g, a, b, s), NEW x \in Server, NEW c \in Server, VoterCovered(h, a, x, c),
           x = s => node[c].term <= node[s].term
    PROVE  VoterCovered(g, b, x, c)'
<1>1. node' = node
      BY DEF Completes
<1> SUFFICES ASSUME NEW t \in Terms, NEW i \in 1..b[t][x], t < node[c].term, Own(g, t, i),
                    Choosable(b, durableTerms', t, i)
             PROVE  AsFar(node[c], i, t)
    BY <1>1 DEF VoterCovered
<1>2. b[t][x] = a[t][x]
  <2>1. x = s => t # node[s].term
    <3>1. node[c].term \in Nat /\ node[s].term \in Nat /\ t \in Nat
          BY VoteTypes DEF Terms
    <3> QED BY <3>1
  <2> QED BY <2>1 DEF Written
<1>3. i \in Nat /\ i \in 1..a[t][x] /\ Own(h, t, i)
      BY <1>2, WriteOwn
<1>4. Choosable(a, durableTerms, t, i)
      BY <1>3, WriteMayChoose
<1> QED BY <1>3, <1>4 DEF VoterCovered

\* Candidates stay covered by their voters.
LEMMA WriteVotes ==
    ASSUME TypeInv, TypeInv', VoteInv, NEW h \in Histories, LogInv(h), NEW a \in Acks,
           CommitInv(h, a), NEW s \in Server, Completes(s), NEW g \in Histories, NEW b \in Acks,
           Written(h, g, a, b, s)
    PROVE  VotesCovered(g, b)'
<1>1. AcksOK(h, a) /\ VotesCovered(h, a)
      BY DEF CommitInv
<1>2. /\ node' = node /\ net' = net
      /\ \A u \in Server : pending'[u].effects = pending[u].effects
      BY DEF Completes
<1>3. \A x \in Server : /\ disk[x].term \in Nat /\ disk'[x].term \in Nat /\ node[x].term \in Nat
                        /\ disk[x].term <= disk'[x].term
      BY VoteTypes, WriteTerms
<1>4. \A m : RequestOK(m)' <=> RequestOK(m)
      BY <1>2 DEF RequestOK, Candidacy
<1>5. \A c, u : Candidacy(c, u)' <=> Candidacy(c, u)
      BY <1>2 DEF Candidacy
<1>6. ASSUME NEW x \in Server, NEW c \in Server, node[c].role = Candidate, Voted(x, c, node[c].term)
      PROVE  VoterCovered(g, b, x, c)'
  <2>1. VoterCovered(h, a, x, c)
        BY <1>1, <1>6 DEF VotesCovered
  <2>2. node[c].term \in 0..MaxTerm
        BY VoteTypes
  <2>3. Recorded(x, c, node[c].term)
        BY <1>6, <2>2 DEF VoteInv, VotesAreFinal
  <2>4. x = s => node[c].term <= node[s].term
    <3>1. disk[s].term <= node[s].term
          BY WriteTerms
    <3> QED BY <1>3, <2>3, <3>1 DEF Recorded
  <2> QED BY <1>1, <2>1, <2>4, WriteCovers
<1>7. ASSUME NEW x \in Server, NEW c \in Server, NEW m \in pending[x].effects.send,
             Grant(m), m.to = c
      PROVE  m.term <= disk'[c].term /\ (Candidacy(c, m.term) => VoterCovered(g, b, x, c)')
  <2>1. m.term <= disk[c].term /\ (Candidacy(c, m.term) => VoterCovered(h, a, x, c))
        BY <1>1, <1>7 DEF VotesCovered
  <2>2. m.term \in Nat
        BY DEF TypeInv, TypeOK, MessageOK
  <2>3. m.term <= disk'[c].term
        BY <1>3, <2>1, <2>2
  <2>4. Candidacy(c, m.term) /\ x = s => node[c].term <= node[s].term
    <3>1. x = s => m.term = node[s].term
          BY <1>7 DEF VoteInv, PendingGrants
    <3> QED BY <1>3, <3>1 DEF Candidacy
  <2> QED BY <1>1, <2>1, <2>3, <2>4, WriteCovers
<1>8. ASSUME NEW m \in net
      PROVE  /\ Asks(m) => m.term <= disk'[m.from].term
             /\ Grant(m) => m.term <= disk'[m.to].term
  <2>1. m.term \in Nat /\ m.from \in Server /\ m.to \in Server
        BY DEF TypeInv, TypeOK, MessageOK
  <2>2. /\ Asks(m) => m.term <= disk[m.from].term
        /\ Grant(m) => m.term <= disk[m.to].term
        BY <1>1 DEF VotesCovered
  <2> QED BY <1>3, <2>1, <2>2
<1>9. \A x, c, t : Voted(x, c, t)' <=> Voted(x, c, t)
      BY <1>2 DEF Voted
<1>10. /\ \A u \in Server : \A m \in pending[u].effects.send : Asks(m) => m.from = u /\ RequestOK(m)
       /\ \A m \in net : Asks(m) => RequestOK(m)
      BY <1>1 DEF VotesCovered
<1> QED BY <1>2, <1>4, <1>5, <1>6, <1>7, <1>8, <1>9, <1>10 DEF VotesCovered

\* What is confirmed stays confirmed.
LEMMA WriteMatches ==
    ASSUME TypeInv, TypeInv', VoteInv, NEW h \in Histories, LogInv(h), NEW a \in Acks,
           CommitInv(h, a), NEW s \in Server, Completes(s), NEW g \in Histories, NEW b \in Acks,
           Written(h, g, a, b, s)
    PROVE  MatchesAcked(g, b)'
<1>1. MatchesAcked(h, a) /\ Continues(h, g)
      BY DEF CommitInv, Written
<1>2. /\ node' = node /\ net' = net
      /\ \A u \in Server : pending'[u].effects = pending[u].effects
      BY DEF Completes
<1>3. \A x \in Server : /\ SectionOK(node[x]) /\ SectionOK(disk[x])
                        /\ Anchored(h, node[x]) /\ Anchored(h, disk[x])
      BY Sections
<1>4. ASSUME NEW T \in Terms, NEW f \in Server, NEW j \in Nat, MatchOK(h, a, T, f, j)
      PROVE  MatchOK(g, b, T, f, j)'
  <2>1. PICK l \in Nat : l = Len(h.full[T])
        BY DEF Histories
  <2>2. j <= l
        BY <1>4, <2>1 DEF MatchOK
  <2>3. CASE j = 0
    <3>1. Len(g.full[T]) \in Nat
          BY DEF Histories
    <3> QED BY <2>3, <3>1 DEF MatchOK
  <2>4. CASE j > 0
    <3>1. g.full[T][j] = h.full[T][j] /\ j <= Len(g.full[T])
          BY <1>1, <2>1, <2>2, <2>4, OwnContinues
    <3>2. PICK e : e = h.full[T][j].term
          OBVIOUS
    <3>3. /\ disk[f].term >= T /\ (\A i \in 1..j : Own(h, T, i) => a[T][f] >= i)
          /\ disk[f].term = T => Includes(h, disk[f], j, e)
          /\ node[f].term = T => Includes(h, node[f], j, e)
          BY <1>4, <2>4, <3>2 DEF MatchOK
    <3>4. disk'[f].term >= T
      <4>1. disk[f].term \in Nat /\ disk'[f].term \in Nat /\ disk[f].term <= disk'[f].term
            BY WriteTerms
      <4>2. T \in Nat
            BY DEF Terms
      <4> QED BY <3>3, <4>1, <4>2
    <3>5. ASSUME NEW i \in 1..j, Own(g, T, i) PROVE b[T][f] >= i
      <4>1. i \in Nat /\ i > 0 /\ i <= Len(h.full[T])
            BY <2>1, <2>2
      <4>2. Own(h, T, i)
            BY <1>1, <3>5, <4>1, OwnContinues
      <4>3. a[T][f] >= i /\ a[T][f] <= b[T][f]
            BY <3>3, <4>2 DEF Written
      <4>4. a[T][f] \in Nat /\ b[T][f] \in Nat
            BY DEF Acks
      <4> QED BY <4>1, <4>3, <4>4
    <3>6. node[f].term = T => Includes(g, node[f], j, e)
          BY <1>1, <1>3, <2>4, <3>3, IncludesContinues
    <3>7. disk'[f].term = T => Includes(g, disk'[f], j, e)
      <4>1. CASE f = s
        <5>1. /\ disk'[f].term = node[f].term /\ disk'[f].log = node[f].log
              /\ disk'[f].snap = node[f].snap
              BY <4>1 DEF Completes
        <5>2. Includes(g, node[f], j, e) <=> Includes(g, disk'[f], j, e)
              BY <5>1, IncludesSame
        <5> QED BY <3>6, <5>1, <5>2
      <4>2. CASE f # s
        <5>1. disk'[f] = disk[f]
              BY <4>2 DEF Completes
        <5>2. disk[f].term = T => Includes(g, disk[f], j, e)
              BY <1>1, <1>3, <2>4, <3>3, IncludesContinues
        <5> QED BY <5>1, <5>2
      <4> QED BY <4>1, <4>2
    <3> QED BY <1>2, <3>1, <3>2, <3>4, <3>5, <3>6, <3>7 DEF MatchOK
  <2> QED BY <2>3, <2>4
<1>5. ASSUME NEW u \in Server, NEW f \in Server, node[u].role = Leader, f # u
      PROVE  MatchOK(g, b, node[u].term, f, node[u].matchIndex[f])'
  <2>1. NodeInv(node[u])
        BY TypeInvAt
  <2>2. PICK T \in Terms : T = node[u].term
        BY <1>5, <2>1, LeaderTerm DEF Leader, Follower
  <2>3. PICK j \in Nat : j = node[u].matchIndex[f]
        BY <2>1, SMTT(40) DEF NodeInv, NodeOK
  <2>4. MatchOK(h, a, T, f, j)
        BY <1>1, <1>5, <2>2, <2>3 DEF MatchesAcked
  <2>5. MatchOK(g, b, T, f, j)'
        BY <1>4, <2>4
  <2> QED BY <1>2, <2>2, <2>3, <2>5
<1>6. ASSUME NEW m \in net, Confirms(m) PROVE MatchOK(g, b, m.term, m.from, m.matchIndex)'
  <2>1. m.term \in Terms /\ m.from \in Server /\ m.matchIndex \in Nat
        BY <1>6, ConfirmsType DEF TypeInv, TypeOK
  <2>2. MatchOK(h, a, m.term, m.from, m.matchIndex)
        BY <1>1, <1>6 DEF MatchesAcked
  <2> QED BY <1>4, <2>1, <2>2
<1>7. ASSUME NEW u \in Server, NEW m \in pending[u].effects.send, Confirms(m)
      PROVE  /\ m.from = u /\ m.term = node[u].term /\ m.matchIndex <= Len(g.full[m.term])
             /\ m.matchIndex > 0 =>
                    Includes(g, node[u], m.matchIndex, g.full[m.term][m.matchIndex].term)
  <2>1. PICK T \in Terms : T = m.term
        BY <1>7, ConfirmsType DEF TypeInv, TypeOK
  <2>2. PICK j \in Nat : j = m.matchIndex
        BY <1>7, ConfirmsType DEF TypeInv, TypeOK
  <2>3. /\ m.from = u /\ T = node[u].term /\ j <= Len(h.full[T])
        /\ j > 0 => Includes(h, node[u], j, h.full[T][j].term)
        BY <1>1, <1>7, <2>1, <2>2 DEF MatchesAcked
  <2>4. Len(h.full[T]) \in Nat /\ Len(g.full[T]) \in Nat /\ Len(h.full[T]) <= Len(g.full[T])
        BY <1>1 DEF Histories, Continues
  <2>5. j <= Len(g.full[T])
        BY <2>3, <2>4
  <2>6. j > 0 => Includes(g, node[u], j, g.full[T][j].term)
    <3>1. j > 0 => g.full[T][j] = h.full[T][j]
          BY <1>1, <2>3, OwnContinues
    <3>2. j > 0 => Includes(g, node[u], j, h.full[T][j].term)
          BY <1>1, <1>3, <2>3, IncludesContinues
    <3> QED BY <3>1, <3>2
  <2> QED BY <2>1, <2>2, <2>3, <2>5, <2>6
<1> QED BY <1>2, <1>5, <1>6, <1>7 DEF MatchesAcked

\* What is committed stays committed.
LEMMA WriteCommitted ==
    ASSUME NEW h \in Histories, NEW g \in Histories, NEW a \in Acks, NEW b \in Acks, NEW s,
           Written(h, g, a, b, s), NEW T, NEW c \in Nat, c > 0, NEW e, ChosenUpTo(h, a, T, c, e)
    PROVE  ChosenUpTo(g, b, T, c, e)
<1>1. ChosenUpTo(g, a, T, c, e)
      BY ChosenContinues DEF Written
<1>2. PICK t \in Terms : \E i \in 1..Len(g.full[t]) :
            t <= T /\ c <= i /\ Own(g, t, i) /\ Chosen(a, t, i) /\ g.full[t][c].term = e
      BY <1>1 DEF ChosenUpTo
<1>3. PICK i \in 1..Len(g.full[t]) :
            t <= T /\ c <= i /\ Own(g, t, i) /\ Chosen(a, t, i) /\ g.full[t][c].term = e
      BY <1>2
<1>4. i \in Nat
      OBVIOUS
<1>5. Chosen(b, t, i)
      BY <1>3, <1>4, WriteChosen
<1> QED BY <1>3, <1>5 DEF ChosenUpTo

\* The write of a leader that commits completes the quorum.
LEMMA WriteChooses ==
    ASSUME TypeInv, NEW h \in Histories, LogInv(h), NEW g \in Histories,
           NEW a \in Acks, NEW b \in Acks, NEW s \in Server, Written(h, g, a, b, s),
           CommitsOwn(a, s)
    PROVE  Committed(g, b, node[s])
<1>1. PICK n : n = node[s]
      OBVIOUS
<1>2. NodeInv(n) /\ SectionOK(n)
      BY <1>1, Sections
<1>3. PICK c \in Nat : c = n.commit
      BY <1>2, CommitType
<1>4. PICK l \in Nat : l = lastIndex(n)
      BY <1>2, SectionAt
<1>5. PICK p \in Nat : p = n.snap.index
      BY <1>2, SectionAt
<1>6. n.role = Leader /\ entryExists(n, c) /\ termAt(n, c) = n.term
      BY <1>1, <1>3 DEF CommitsOwn
<1>7. PICK T \in Terms : T = n.term
      BY <1>1, <1>6 DEF Written
<1>8. /\ g.full[T] # <<>> /\ Within(n, g.full[T]) /\ l = Len(g.full[T])
      /\ HistoryTerms(g) /\ HistoriesAgree(g)
      BY <1>1, <1>4, <1>6, <1>7 DEF Written
<1>9. p < c /\ c <= l
      BY <1>2, <1>3, <1>4, <1>5, <1>6, SectionAt
<1>10. lastTerm(n) = T
  <2>1. g.full[T][l].term = T
        BY <1>8 DEF HistoryTerms
  <2>2. lastIndex(n) > 0 => lastTerm(n) = g.full[T][lastIndex(n)].term
        BY <1>2, <1>8, LastTermWithin
  <2>3. l > 0
        BY <1>9
  <2> QED BY <1>4, <2>1, <2>2, <2>3
<1>11. b[T][s] = l
      BY <1>1, <1>4, <1>7, <1>10 DEF Written
<1>12. Chosen(b, T, c)
  <2>1. PICK Q \in SUBSET Server : /\ quorum(InitialMembership, Q)
                                   /\ \A x \in Q \ {s} : a[T][x] >= c
        BY <1>1, <1>3, <1>7 DEF CommitsOwn
  <2>2. ASSUME NEW x \in Q PROVE b[T][x] >= c
    <3>1. CASE x = s
          BY <1>9, <1>11, <3>1
    <3>2. CASE x # s
      <4>1. a[T][x] >= c /\ a[T][x] <= b[T][x] /\ a[T][x] \in Nat /\ b[T][x] \in Nat
            BY <2>1, <3>2 DEF Written, Acks
      <4> QED BY <4>1
    <3> QED BY <3>1, <3>2
  <2> QED BY <2>1, <2>2 DEF Chosen
<1>13. g.full[T][c].term = T /\ c \in 1..Len(g.full[T])
  <2>1. g.full[T] \in Seq(Entry)
        BY DEF Histories
  <2>2. p <= c /\ c > 0
        BY <1>9
  <2>3. termAt(n, c) = g.full[T][c].term
        BY <1>2, <1>4, <1>5, <1>8, <1>9, <2>1, <2>2, WithinAt, ZenonT(40)
  <2>4. c \in 1..l
        BY <1>9, <2>2
  <2> QED BY <1>6, <1>7, <1>8, <2>3, <2>4
<1>14. Own(g, T, c)
      BY <1>13 DEF Own
<1>15. T <= T /\ c <= c
      BY DEF Terms
<1>16. ChosenUpTo(g, b, T, c, T)
      BY <1>12, <1>13, <1>14, <1>15 DEF ChosenUpTo
<1>17. Includes(g, n, c, T)
  <2>1. c > 0 /\ c <= lastIndex(n)
        BY <1>4, <1>9
  <2> QED BY <1>2, <1>8, <1>13, <2>1, IncludesWithin
<1> QED BY <1>1, <1>3, <1>7, <1>16, <1>17 DEF Committed

\* Commit indexes stay chosen, and that of s is chosen once it is on disk.
LEMMA WriteChosens ==
    ASSUME TypeInv, TypeInv', VoteInv, NEW h \in Histories, LogInv(h), NEW a \in Acks,
           CommitInv(h, a), NEW s \in Server, Completes(s), NEW g \in Histories, NEW b \in Acks,
           Written(h, g, a, b, s)
    PROVE  CommitsChosen(g, b)'
<1>1. CommitsChosen(h, a) /\ Continues(h, g)
      BY DEF CommitInv, Written
<1>2. /\ node' = node /\ net' = net
      /\ \A u \in Server : pending'[u].effects = pending[u].effects
      BY DEF Completes
<1>3. ASSUME NEW d, SectionOK(d), Anchored(h, d), d.commit \in Nat, Committed(h, a, d)
      PROVE  Committed(g, b, d)
  <2> SUFFICES ASSUME d.commit > 0 PROVE Committed(g, b, d)
      BY DEF Committed
  <2>1. PICK c \in Nat : c = d.commit /\ c > 0
        BY <1>3
  <2>2. PICK e \in Terms : Includes(h, d, c, e) /\ ChosenUpTo(h, a, d.term, c, e)
        BY <1>3, <2>1 DEF Committed
  <2>3. Includes(g, d, c, e)
        BY <1>1, <1>3, <2>1, <2>2, IncludesContinues
  <2>4. ChosenUpTo(g, b, d.term, c, e)
        BY <2>1, <2>2, WriteCommitted
  <2> QED BY <2>1, <2>3, <2>4 DEF Committed
<1>4. \A u \in Server :
        /\ SectionOK(node[u]) /\ SectionOK(disk[u]) /\ Anchored(h, node[u]) /\ Anchored(h, disk[u])
        /\ node[u].commit \in Nat /\ disk[u].commit \in Nat
  <2>1. \A u \in Server : node[u].commit \in Nat /\ disk[u].commit \in Nat
    <3> SUFFICES ASSUME NEW u \in Server PROVE node[u].commit \in Nat /\ disk[u].commit \in Nat
        OBVIOUS
    <3>1. node[u].commit \in Nat
          BY TypeInvAt, CommitType
    <3>2. disk[u].commit \in Nat
          BY TypeInvAt, ConstantsType DEF HardStateOK
    <3> QED BY <3>1, <3>2
  <2> QED BY <2>1, Sections
<1>5. ASSUME NEW u \in Server, u # s
      PROVE  /\ TermsBounded(disk'[u]) /\ TermsBounded(node[u])
             /\ CommitInLog(disk'[u]) /\ CommitInLog(node[u])
             /\ Committed(g, b, disk'[u])
             /\ Committed(g, b, node[u]) \/ CommitsOwn(b, u)'
             /\ pending'[u].phase # "writing" =>
                    /\ disk'[u].log = node[u].log /\ disk'[u].snap = node[u].snap
                    /\ disk'[u].commit = node[u].commit
  <2>1. disk'[u] = disk[u] /\ pending'[u] = pending[u]
        BY <1>5 DEF Completes
  <2>2. /\ TermsBounded(disk[u]) /\ TermsBounded(node[u])
        /\ CommitInLog(disk[u]) /\ CommitInLog(node[u])
        /\ Committed(h, a, disk[u]) /\ (Committed(h, a, node[u]) \/ CommitsOwn(a, u))
        /\ pending[u].phase # "writing" =>
                    /\ disk[u].log = node[u].log /\ disk[u].snap = node[u].snap
                    /\ disk[u].commit = node[u].commit
        BY <1>1 DEF CommitsChosen
  <2>3. Committed(g, b, disk[u]) /\ (Committed(h, a, node[u]) => Committed(g, b, node[u]))
        BY <1>3, <1>4, <2>2
  <2>4. CommitsOwn(a, u) => CommitsOwn(b, u)'
    <3> SUFFICES ASSUME CommitsOwn(a, u) PROVE CommitsOwn(b, u)'
        OBVIOUS
    <3>1. node[u].role = Leader
          BY DEF CommitsOwn
    <3>2. PICK T \in Terms : T = node[u].term
          BY <3>1, TypeInvAt, LeaderTerm DEF Leader, Follower
    <3>3. PICK c \in Nat : c = node[u].commit
          BY <1>4
    <3>4. PICK Q \in SUBSET Server : /\ quorum(InitialMembership, Q)
                                     /\ \A x \in Q \ {u} : a[T][x] >= c
          BY <3>2, <3>3 DEF CommitsOwn
    <3>5. ASSUME NEW x \in Q \ {u} PROVE b[T][x] >= c
      <4>1. a[T][x] >= c /\ a[T][x] <= b[T][x] /\ a[T][x] \in Nat /\ b[T][x] \in Nat
            BY <3>4 DEF Written, Acks
      <4> QED BY <4>1
    <3>6. pending[u].phase = "writing" /\ entryExists(node[u], c) /\ termAt(node[u], c) = T
          BY <3>2, <3>3 DEF CommitsOwn
    <3> QED BY <1>2, <2>1, <3>1, <3>2, <3>3, <3>4, <3>5, <3>6 DEF CommitsOwn
  <2> QED BY <2>1, <2>2, <2>3, <2>4
<1>6. /\ TermsBounded(disk'[s]) /\ TermsBounded(node[s])
      /\ CommitInLog(disk'[s]) /\ CommitInLog(node[s])
      /\ Committed(g, b, disk'[s]) /\ Committed(g, b, node[s])
      /\ disk'[s].log = node[s].log /\ disk'[s].snap = node[s].snap
      /\ disk'[s].commit = node[s].commit
  <2>1. PICK d : d = disk'[s]
        OBVIOUS
  <2>2. PICK n : n = node[s]
        OBVIOUS
  <2>3. d.log = n.log /\ d.snap = n.snap /\ d.commit = n.commit /\ d.term = n.term
        BY <2>1, <2>2 DEF Completes
  <2>4. /\ (\A i, t : Includes(g, n, i, t) <=> Includes(g, d, i, t))
        /\ lastIndex(d) = lastIndex(n) /\ \A i : termAt(d, i) = termAt(n, i)
        BY <2>3, IncludesSame
  <2>5. TermsBounded(n) /\ CommitInLog(n)
        BY <1>1, <2>2 DEF CommitsChosen
  <2>6. Committed(g, b, n)
    <3>1. Committed(h, a, node[s]) \/ CommitsOwn(a, s)
          BY <1>1 DEF CommitsChosen
    <3>2. CASE Committed(h, a, node[s])
          BY <1>3, <1>4, <2>2, <3>2
    <3>3. CASE CommitsOwn(a, s)
          BY <2>2, <3>3, WriteChooses
    <3> QED BY <3>1, <3>2, <3>3
  <2>7. TermsBounded(d)
        BY <2>3, <2>4, <2>5 DEF TermsBounded
  <2>8. CommitInLog(d)
        BY <2>3, <2>4, <2>5 DEF CommitInLog
  <2>9. Committed(g, b, d)
        BY <2>3, <2>4, <2>6 DEF Committed
  <2> QED BY <2>1, <2>2, <2>3, <2>5, <2>6, <2>7, <2>8, <2>9
<1>7. ASSUME NEW m \in net, CarriesLog(m) PROVE CarriedOK(g, b, m)
  <2>1. CarriedOK(h, a, m) /\ MessageOK(m)
        BY <1>1, <1>7 DEF CommitsChosen, TypeInv, TypeOK
  <2>2. CarriedOK(g, a, m)
        BY <1>1, <1>7, <2>1, CarriedContinues
  <2>3. PICK T \in Terms : T = m.term
        BY <1>7, <2>1, CarriedType
  <2>4. PICK c \in Nat : c = carriedCommit(m)
        BY <1>7, <2>1, CarriedType
  <2>5. /\ Within(carried(m), h.full[T]) /\ c <= lastIndex(carried(m))
        /\ c > 0 => ChosenUpTo(h, a, T, c, h.full[T][c].term)
        BY <2>1, <2>3, <2>4 DEF CarriedOK
  <2>6. c > 0 => ChosenUpTo(g, b, T, c, g.full[T][c].term)
    <3> SUFFICES ASSUME c > 0 PROVE ChosenUpTo(g, b, T, c, g.full[T][c].term)
        OBVIOUS
    <3>1. c <= Len(h.full[T])
      <4>1. SectionOK(carried(m))
            BY <1>7, <2>1, CarriedType
      <4>2. lastIndex(carried(m)) \in Nat
            BY <4>1, SectionAt
      <4>3. lastIndex(carried(m)) <= Len(h.full[T]) /\ Len(h.full[T]) \in Nat
            BY <2>5 DEF Within, Histories
      <4> QED BY <2>5, <4>2, <4>3
    <3>2. g.full[T][c] = h.full[T][c]
          BY <1>1, <3>1, OwnContinues
    <3>3. ChosenUpTo(g, b, T, c, h.full[T][c].term)
          BY <2>5, WriteCommitted
    <3> QED BY <3>2, <3>3
  <2> QED BY <2>2, <2>3, <2>4, <2>6 DEF CarriedOK
<1>8. \A u \in Server : \A m \in pending[u].effects.send : CarriesLog(m) => SendsLog(node[u], m)
      BY <1>1 DEF CommitsChosen
<1> QED BY <1>2, <1>5, <1>6, <1>7, <1>8 DEF CommitsChosen

\* The completion of a write keeps the invariant.
LEMMA WriteCommits ==
    ASSUME TypeInv, TypeInv', VoteInv, NEW h \in Histories, LogInv(h), NEW a \in Acks,
           CommitInv(h, a), NEW s \in Server, CompleteWrite(s),
           NEW g \in Histories, LogInv(g)', HistoryWrite(h, g, s)
    PROVE  \E b \in Acks : Written(h, g, a, b, s) /\ CommitInv(g, b)'
<1>1. Completes(s)
      BY WriteCompletes
<1>2. PICK b \in Acks : Written(h, g, a, b, s)
      BY <1>1, WriteAcks
<1>3. AcksOK(g, b)' /\ \A x \in Server : AcksHeld(g, b, x, disk[x])' /\ AcksHeld(g, b, x, node[x])'
      BY <1>1, <1>2, WriteAcked
<1>4. LaterHolds(g, b)'
      BY <1>1, <1>2, WriteLater
<1>5. VotesCovered(g, b)'
      BY <1>1, <1>2, WriteVotes
<1>6. MatchesAcked(g, b)'
      BY <1>1, <1>2, WriteMatches
<1>7. CommitsChosen(g, b)'
      BY <1>1, <1>2, WriteChosens
<1>8. HistoryTerms(g)'
      BY <1>2 DEF Written, HistoryTerms
<1>9. ASSUME NEW u \in Server PROVE DeliveryOK(u)'
  <2>1. DeliveryOK(u)
        BY DEF CommitInv
  <2>2. CASE u # s
        BY <1>1, <2>1, <2>2, DeliveryKept DEF Completes
  <2>3. CASE u = s
    <3>1. PICK c \in Nat : c = node[s].commit
          BY TypeInvAt, CommitType
    <3>2. PICK p \in Nat : p = node[s].snap.index
          BY TypeInvAt, SectionTypes, SectionAt
    <3>3. PICK A \in Nat : A = store[s].applied
          BY TypeInvAt
    <3>4. PICK d \in Nat : d = disk[s].commit
          BY TypeInvAt, ConstantsType DEF HardStateOK
    <3>5. A <= d /\ d <= c
          BY <2>1, <2>3, <3>1, <3>3, <3>4 DEF DeliveryOK
    <3>6. A <= c /\ c <= c /\ p <= p
          BY <3>5
    <3>7. /\ node' = node /\ store' = store /\ up'[s] /\ up[s]
          /\ disk'[s].commit = c /\ disk'[s].snap.index = p
          /\ pending'[s].effects = pending[s].effects
          BY <1>1, <3>1, <3>2 DEF Completes
    <3> QED BY <2>1, <2>3, <3>1, <3>2, <3>3, <3>6, <3>7 DEF DeliveryOK
  <2> QED BY <2>2, <2>3
<1>10. CommitInv(g, b)'
      BY <1>3, <1>4, <1>5, <1>6, <1>7, <1>8, <1>9 DEF CommitInv
<1> QED BY <1>2, <1>10

-----------------------------------------------------------------------------
(* The inductive invariant.                                                *)

\* Some histories and acknowledgements explain every log and every commit.
CommitHistory == \E h \in Histories, a \in Acks : LogInv(h) /\ CommitInv(h, a)

\* A bootstrapped cluster has acknowledged and committed nothing.
LEMMA BootstrapCommits ==
    ASSUME Init, NEW h \in Histories, \A t \in Terms : h.full[t] = <<>>,
           NEW a \in Acks, \A t \in Terms, x \in Server : a[t][x] = 0
    PROVE  CommitInv(h, a)
<1>1. \A s \in Server :
        /\ node[s].snap = NoSnapshot /\ node[s].log = <<>>
        /\ disk[s].snap = NoSnapshot /\ disk[s].log = <<>>
        /\ node[s].role = Follower /\ pending[s].effects.send = {}
      BY Bootstrapped
<1>2. \A s \in Server :
        /\ node[s].commit = 0 /\ node[s].applied = 0 /\ node[s].term = 0
        /\ disk[s].commit = 0 /\ disk[s].term = 0 /\ store[s].applied = 0
        /\ up[s] /\ pending[s] = NoPending
  <2> SUFFICES ASSUME NEW s \in Server
               PROVE  /\ node[s].commit = 0 /\ node[s].applied = 0 /\ node[s].term = 0
                      /\ disk[s].commit = 0 /\ disk[s].term = 0 /\ store[s].applied = 0
                      /\ up[s] /\ pending[s] = NoPending
      OBVIOUS
  <2>1. node[s] = New(s, EmptyState, 0) /\ disk[s] = EmptyState
        BY Bootstrapped
  <2>2. node[s].commit = EmptyState.commit /\ node[s].applied = 0
        /\ node[s].term = EmptyState.term
        BY <2>1, NewFields
  <2> QED BY <2>1, <2>2 DEF Init, EmptyState
<1>3. net = {}
      BY DEF Init
<1>4. \A d : d.snap = NoSnapshot /\ d.log = <<>> =>
        /\ d.snap.index = 0 /\ lastIndex(d) = 0 /\ lastTerm(d) = 0 /\ termAt(d, 0) = 0
  <2> SUFFICES ASSUME NEW d, d.snap = NoSnapshot, d.log = <<>>
               PROVE  /\ d.snap.index = 0 /\ lastIndex(d) = 0 /\ lastTerm(d) = 0
                      /\ termAt(d, 0) = 0
      OBVIOUS
  <2>1. d.snap.index = 0 /\ Len(d.log) = 0
        BY DEF NoSnapshot
  <2>2. lastIndex(d) = 0
        BY <2>1 DEF lastIndex
  <2> QED BY <2>1, <2>2 DEF lastTerm, termAt
<1>5. HistoryTerms(h)
      BY DEF HistoryTerms
<1>6. AcksOK(h, a)
  <2>1. \A x \in Server, t \in Terms : lastTerm(disk[x]) # t
    <3>1. \A t \in Terms : t # 0
          BY BoundAssumption DEF Terms
    <3> QED BY <1>1, <1>4, <3>1
  <2> QED BY <2>1 DEF AcksOK
<1>7. \A x \in Server : AcksHeld(h, a, x, disk[x]) /\ AcksHeld(h, a, x, node[x])
  <2>1. PICK N : N = 1..0 /\ N = {}
        OBVIOUS
  <2> QED BY <2>1 DEF AcksHeld
<1>8. LaterHolds(h, a)
      BY DEF LaterHolds
<1>9. VotesCovered(h, a)
      BY <1>1, <1>3 DEF VotesCovered, Follower, Candidate
<1>10. MatchesAcked(h, a)
      BY <1>1, <1>3 DEF MatchesAcked, Follower, Leader
<1>11. CommitsChosen(h, a)
  <2>1. \A d : d.snap = NoSnapshot /\ d.log = <<>> /\ d.commit = 0 /\ d.term = 0 =>
          TermsBounded(d) /\ CommitInLog(d) /\ Committed(h, a, d)
    <3> SUFFICES ASSUME NEW d, d.snap = NoSnapshot, d.log = <<>>, d.commit = 0, d.term = 0
                 PROVE  TermsBounded(d) /\ CommitInLog(d) /\ Committed(h, a, d)
        OBVIOUS
    <3>1. d.snap.index = 0 /\ lastIndex(d) = 0 /\ termAt(d, 0) = 0
          BY <1>4
    <3> QED BY <3>1 DEF TermsBounded, CommitInLog, Committed
  <2>2. \A s \in Server :
          /\ TermsBounded(disk[s]) /\ TermsBounded(node[s])
          /\ CommitInLog(disk[s]) /\ CommitInLog(node[s])
          /\ Committed(h, a, disk[s]) /\ Committed(h, a, node[s])
          /\ disk[s].log = node[s].log /\ disk[s].snap = node[s].snap
          /\ disk[s].commit = node[s].commit /\ pending[s].effects.send = {}
        BY <1>1, <1>2, <2>1
  <2> QED BY <1>3, <2>2 DEF CommitsChosen
<1>12. ASSUME NEW s \in Server PROVE DeliveryOK(s)
  <2>1. /\ ~pending[s].effects.install /\ pending[s].effects.apply = {}
        BY <1>2 DEF NoPending, NoEffects
  <2>2. (0 + 1)..0 = {}
        OBVIOUS
  <2>3. disk[s].snap.index = 0 /\ node[s].snap.index = 0
        BY <1>1, <1>4
  <2> QED BY <1>2, <2>1, <2>2, <2>3 DEF DeliveryOK
<1> QED BY <1>5, <1>6, <1>7, <1>8, <1>9, <1>10, <1>11, <1>12 DEF CommitInv

\* Initially nothing is acknowledged.
LEMMA InitCommits == Init => CommitHistory
<1> SUFFICES ASSUME Init PROVE CommitHistory
    OBVIOUS
<1>1. PICK h \in Histories : \A t \in Terms : h.full[t] = <<>>
      BY EmptyHistories
<1>2. PICK a \in Acks : \A t \in Terms, x \in Server : a[t][x] = 0
  <2> DEFINE b == [t \in Terms |-> [x \in Server |-> 0]]
  <2>1. b \in Acks /\ \A t \in Terms, x \in Server : b[t][x] = 0
        BY DEF Acks
  <2> QED BY <2>1
<1> QED BY <1>1, <1>2, BootstrapLogs, BootstrapCommits DEF CommitHistory

\* What an idle process is ready for.
LEMMA IdleReady ==
    ASSUME TypeInv, MembershipIsCurrent, NEW h \in Histories, LogInv(h),
           NEW a \in Acks, CommitInv(h, a), NEW s \in Server, Idle(s)
    PROVE  Ready(node[s])
<1>1. NodeInv(node[s]) /\ node[s].id = s
      BY TypeInvAt
<1>2. node[s].applied = node[s].commit
      BY DEF CommitInv, DeliveryOK, Idle
<1>3. CommitInLog(node[s])
      BY DEF CommitInv, CommitsChosen
<1>4. node[s].role # Follower => isVoter(node[s].membership, node[s].id)
  <2>1. node[s].membership = InitialMembership
        BY IdleLog
  <2>2. node[s].role # Follower => isVoter(InitialMembership, s)
        BY DEF LogInv, ConfigurationIsFixed
  <2> QED BY <1>1, <2>1, <2>2
<1> QED BY <1>1, <1>2, <1>3, <1>4 DEF Ready

\* Histories and acknowledgements only grow.
Grows(h, a, g, b) ==
    Continues(h, g) /\ \A t \in Terms : \A i \in Nat : Chosen(a, t, i) => Chosen(b, t, i)

Explained(h, a) ==
    \E g \in Histories, b \in Acks : LogInv(g)' /\ CommitInv(g, b)' /\ Grows(h, a, g, b)

\* Nothing has to grow.
LEMMA GrowsSame ==
    ASSUME NEW h \in Histories, LogInv(h), NEW a
    PROVE  Grows(h, a, h, a)
BY HistoryStepSame DEF HistoryStep, Grows

\* A transition submitted to an idle process; or none, at most packets are lost.
Submitted(s) ==
    \E M \in SUBSET net, inFlight \in SUBSET net : \E X, r, t :
        Takes(s, M, X, r) /\ Submit(s, r, inFlight, t)
Unmoved == net' \subseteq net /\ UNCHANGED <<node, up, disk, store, pending>>

\* A transition extends the histories, and what it commits is chosen.
LEMMA SubmitExplained ==
    ASSUME TypeInv, VoteInv, MembershipIsCurrent, TypeInv', VoteInv', VotesAreRecorded,
           NEW h \in Histories, LogInv(h), NEW a \in Acks, CommitInv(h, a),
           NEW s \in Server, Submitted(s)
    PROVE  Explained(h, a)
<1>0. PICK M \in SUBSET net, inFlight \in SUBSET net :
            \E X, r, t : Takes(s, M, X, r) /\ Submit(s, r, inFlight, t)
      BY DEF Submitted
<1>1. PICK X, r, t : Takes(s, M, X, r) /\ Submit(s, r, inFlight, t)
      BY <1>0
<1>2. Idle(s) /\ StepInv(node[s], r) /\ LogStep(node[s], M, r)
      BY <1>1 DEF Takes
<1>3. PICK g \in Histories : LogInv(g)' /\ HistoryStep(h, g, s)
      BY <1>1, <1>2, SubmitLogs
<1>4. CommitInv(g, a)'
      BY <1>1, <1>3, SubmitCommits
<1>5. Grows(h, a, g, a)
      BY <1>3 DEF HistoryStep, Grows
<1> QED BY <1>3, <1>4, <1>5 DEF Explained

\* The same when no packet is delivered.
LEMMA InputTaken ==
    ASSUME NEW s \in Server, Idle(s), NEW r, StepInv(node[s], r), LogStep(node[s], {}, r),
           CommitStep(node[s], {}, r), VoteStep(node[s], {}, r), SnapCause(s, {}, r),
           NEW t, Submit(s, r, net, t)
    PROVE  Submitted(s)
<1>1. PICK N : N = {} /\ N \in SUBSET net /\ net \in SUBSET net
      OBVIOUS
<1>2. /\ LogStep(node[s], N, r) /\ CommitStep(node[s], N, r) /\ VoteStep(node[s], N, r)
      /\ SnapCause(s, N, r)
      BY <1>1
<1>3. /\ N \subseteq net /\ \A m \in N : m.to = s
      /\ \A x \in N : Voted(x, s, node[s].term)
      BY <1>1
<1>4. Takes(s, N, N, r)
      BY <1>2, <1>3 DEF Takes
<1> QED BY <1>1, <1>4 DEF Submitted

\* Timers and client requests, while no membership change is asked for.
LEMMA InputsTaken ==
    ASSUME Target = {}, TypeInv, VoteInv, MembershipIsCurrent,
           NEW h \in Histories, LogInv(h), NEW a \in Acks, CommitInv(h, a), NEW s \in Server,
           \/ ElectionTimeout(s) \/ HeartbeatTimeout(s)
           \/ Snapshot(s) \/ FinalizeMembershipChange(s)
           \/ \E c \in Command : Propose(s, c)
           \/ \E target \in Target : BeginMembershipChange(s, target)
    PROVE  Submitted(s) \/ Unmoved
<1> DEFINE n == node[s]
<1>1. NodeInv(n) /\ store[s].applied \in Nat /\ Shape(n) /\ n.term \in Nat /\ VoteOK(n)
      BY TypeInvAt, VoteTypes DEF VoteInv
<1>2. \A r, inFlight, t : Submit(s, r, inFlight, t) => ~r.err
      BY DEF Submit
<1>3. Idle(s) => Ready(n)
      BY IdleReady
<1>4. CASE ElectionTimeout(s)
  <2> DEFINE t == [timer[s] EXCEPT !.election = FALSE]
             r == electionTimeout(n)
  <2>1. CASE Submit(s, r, net, t)
    <3>1. Idle(s) /\ ~r.err
          BY <1>2, <1>4, <2>1 DEF ElectionTimeout
    <3>2. StepInv(n, r) /\ LogStep(n, {}, r)
          BY <1>1, <3>1, ElectionTimeoutType, LogOfElectionTimeout
    <3>3. VoteStep(n, {}, r)
          BY <1>1, <3>1, ElectionTimeoutVotes
    <3>4. CommitStep(n, {}, r)
          BY <1>3, <3>1, CommitOfElectionTimeout
    <3>5. SnapCause(s, {}, r)
          BY <1>1, <3>1, SnapOfElectionTimeout DEF SnapCause, SnapStep
    <3> HIDE DEF r, t
    <3> QED BY <2>1, <3>1, <3>2, <3>3, <3>4, <3>5, InputTaken
  <2>2. CASE UNCHANGED <<node, up, disk, store, pending, net, crashes>>
        BY <2>2 DEF Unmoved
  <2> QED BY <1>4, <2>1, <2>2 DEF ElectionTimeout
<1>5. CASE HeartbeatTimeout(s)
  <2> DEFINE r == heartbeatTimeout(n)
  <2>1. PICK t : n.role = Leader /\ Idle(s) /\ Submit(s, r, net, t)
        BY <1>5 DEF HeartbeatTimeout
  <2>2. StepInv(n, r) /\ LogStep(n, {}, r)
        BY <1>1, <2>1, HeartbeatTimeoutType, LogOfHeartbeat, KeepsHeartbeat, QuietStep DEF Keeps
  <2>3. VoteStep(n, {}, r)
    <3>1. Keeps(n, r)
          BY <1>1, <2>1, KeepsHeartbeat
    <3> QED BY <1>1, <3>1, KeepsIsVoteStep
  <2>4. CommitStep(n, {}, r)
        BY <1>3, <2>1, CommitOfHeartbeat
  <2>5. SnapCause(s, {}, r)
        BY <1>1, LogOfHeartbeat DEF KeepsLog, SameLog, SnapCause, SnapStep
  <2> HIDE DEF r
  <2> QED BY <2>1, <2>2, <2>3, <2>4, <2>5, InputTaken
<1>6. CASE Snapshot(s)
  <2> DEFINE r == takeSnapshot(n, store[s].applied, store[s].history)
  <2>1. Idle(s) /\ Submit(s, r, net, timer[s]) /\ ~r.err
        BY <1>2, <1>6 DEF Snapshot
  <2>2. StepInv(n, r) /\ LogStep(n, {}, r)
        BY <1>1, <2>1, TakeSnapshotType, LogOfSnapshot
  <2>3. VoteStep(n, {}, r)
    <3>1. Keeps(n, r)
          BY <1>1, KeepsSnapshot
    <3> QED BY <1>1, <3>1, KeepsIsVoteStep
  <2>4. CommitStep(n, {}, r)
        BY <1>1, <1>3, <2>1, CommitOfSnapshot
  <2>5. SnapCause(s, {}, r)
        BY <1>1, <2>1, SnapOfSnapshot DEF SnapCause
  <2> HIDE DEF r
  <2> QED BY <2>1, <2>2, <2>3, <2>4, <2>5, InputTaken
<1>7. CASE FinalizeMembershipChange(s)
  <2>1. Idle(s) /\ ~finalizeMembership(n).err
        BY <1>2, <1>7 DEF FinalizeMembershipChange
  <2>2. n.membership = InitialMembership
        BY <2>1, IdleLog
  <2>3. Joint(n.membership)
        BY <1>1, <2>1, LogOfMembershipInputs
  <2> QED BY <2>2, <2>3, InitialMembershipAssumption DEF Joint
<1>8. CASE \E c \in Command : Propose(s, c)
  <2>1. PICK c \in Command : Propose(s, c)
        BY <1>8
  <2> DEFINE r == proposal(n, c)
  <2>2. Idle(s) /\ Submit(s, r, net, timer[s]) /\ ~r.err
        BY <1>2, <2>1 DEF Propose
  <2>3. StepInv(n, r) /\ LogStep(n, {}, r)
        BY <1>1, <2>2, ProposalType, LogOfProposal
  <2>4. VoteStep(n, {}, r)
    <3>1. Keeps(n, r)
          BY <1>1, KeepsProposal
    <3> QED BY <1>1, <3>1, KeepsIsVoteStep
  <2>5. CommitStep(n, {}, r)
        BY <1>3, <2>2, CommitOfProposal
  <2>6. SnapCause(s, {}, r)
        BY <1>1, <2>2, SnapOfProposal DEF SnapCause, SnapStep
  <2> HIDE DEF r
  <2> QED BY <2>2, <2>3, <2>4, <2>5, <2>6, InputTaken
<1> QED BY <1>4, <1>5, <1>6, <1>7, <1>8

\* A packet delivered or lost.
LEMMA MessagesTaken ==
    ASSUME TypeInv, VoteInv, MembershipIsCurrent,
           NEW h \in Histories, LogInv(h), NEW a \in Acks, CommitInv(h, a),
           NEW m \in net, Receive(m) \/ Drop(m)
    PROVE  (\E s \in Server : Submitted(s)) \/ Unmoved
<1>1. MessageInv(m) /\ m.to \in Server
      BY DEF TypeInv, TypeOK, LogsAreBounded, MessageInv, MessageOK
<1>2. CASE Receive(m)
  <2>1. PICK s \in Server : s = m.to
        BY <1>1
  <2> DEFINE r == stepMessage(node[s], m)
             X == GrantedBy(node[s], m)
  <2>2. Idle(s) /\ Submit(s, r, net \ {m}, timer[s]) /\ ~r.err
        BY <1>2, <2>1 DEF Receive, Submit
  <2>3. NodeInv(node[s]) /\ node[s].id = m.to /\ VoteOK(node[s])
        BY <2>1, TypeInvAt DEF VoteInv
  <2>4. StepInv(node[s], r) /\ LogStep(node[s], {m}, r)
        BY <1>1, <2>2, <2>3, StepMessageType, LogOfMessage
  <2>5. CommitStep(node[s], {m}, r)
    <3>1. Ready(node[s])
          BY <2>2, IdleReady
    <3> QED BY <1>1, <2>2, <2>3, <3>1, CommitOfMessage
  <2>6. VoteStep(node[s], X, r)
        BY <1>1, <2>2, <2>3, StepMessageVotes
  <2>7. \A x \in X : Voted(x, s, node[s].term)
        BY <2>1 DEF GrantedBy, Voted
  <2>8. {m} \in SUBSET net /\ net \ {m} \in SUBSET net /\ \A q \in {m} : q.to = s
        BY <2>1
  <2>9. SnapCause(s, {m}, r)
        BY <1>1, <2>2, <2>3, SnapOfMessage DEF SnapCause
  <2> HIDE DEF r, X
  <2>10. Takes(s, {m}, X, r)
        BY <2>2, <2>4, <2>5, <2>6, <2>7, <2>8, <2>9 DEF Takes
  <2> QED BY <2>2, <2>8, <2>10 DEF Submitted
<1>3. CASE Drop(m)
      BY <1>3 DEF Drop, Unmoved
<1> QED BY <1>2, <1>3

\* What any step is, and that its votes are recorded.
LEMMA StepTaken ==
    ASSUME Target = {}, TypeInv, VoteInv, MembershipIsCurrent,
           NEW h \in Histories, LogInv(h), NEW a \in Acks, CommitInv(h, a), [Next]_vars
    PROVE  \/ Unmoved
           \/ VotesAreRecorded /\ \E s \in Server :
                \/ Submitted(s)
                \/ CompleteWrite(s) \/ AcknowledgeWrite(s) \/ Crash(s) \/ Restart(s)
<1>1. CASE UNCHANGED vars
      BY <1>1 DEF vars, Unmoved
<1>2. ASSUME NEW s \in Server,
             CompleteWrite(s) \/ AcknowledgeWrite(s) \/ Crash(s) \/ Restart(s)
      PROVE  VotesAreRecorded
      BY <1>2, BarrierVotes, CrashVotes
<1>3. ASSUME NEW s \in Server,
             \/ ElectionTimeout(s) \/ HeartbeatTimeout(s)
             \/ Snapshot(s) \/ FinalizeMembershipChange(s)
             \/ \E c \in Command : Propose(s, c)
             \/ \E target \in Target : BeginMembershipChange(s, target)
      PROVE  VotesAreRecorded /\ (Submitted(s) \/ Unmoved)
      BY <1>3, InputsVotes, InputsTaken
<1>4. ASSUME NEW m \in net, Receive(m) \/ Drop(m)
      PROVE  VotesAreRecorded /\ ((\E s \in Server : Submitted(s)) \/ Unmoved)
      BY <1>4, MessagesVotes, MessagesTaken
<1>5. CASE Next
      BY <1>2, <1>3, <1>4, <1>5 DEF Next
<1> QED BY <1>1, <1>5

\* Every step is explained by histories and acknowledgements that have grown.
LEMMA StepExplained ==
    ASSUME Target = {}, TypeInv, VoteInv, MembershipIsCurrent, TypeInv', VoteInv',
           NEW h \in Histories, LogInv(h), NEW a \in Acks, CommitInv(h, a), [Next]_vars
    PROVE  Explained(h, a)
<1>1. CASE Unmoved
  <2>1. LogInv(h)' /\ CommitInv(h, a)'
        BY <1>1, IdleCommits DEF Unmoved
  <2> QED BY <2>1, GrowsSame DEF Explained
<1>2. ASSUME VotesAreRecorded, NEW s \in Server, Submitted(s) PROVE Explained(h, a)
      BY <1>2, SubmitExplained
<1>3. ASSUME VotesAreRecorded, NEW s \in Server, CompleteWrite(s) PROVE Explained(h, a)
  <2>1. PICK g \in Histories : LogInv(g)' /\ HistoryWrite(h, g, s)
        BY <1>3, WriteLogs
  <2>2. PICK b \in Acks : Written(h, g, a, b, s) /\ CommitInv(g, b)'
        BY <1>3, <2>1, WriteCommits
  <2>3. Grows(h, a, g, b)
        BY <2>2, WriteChosen DEF Written, Grows
  <2> QED BY <2>1, <2>2, <2>3 DEF Explained
<1>4. ASSUME VotesAreRecorded, NEW s \in Server, AcknowledgeWrite(s) PROVE Explained(h, a)
  <2>1. LogInv(h)'
        BY <1>4, AcknowledgeLogs
  <2>2. CommitInv(h, a)'
        BY <1>4, <2>1, AcknowledgeCommits
  <2> QED BY <2>1, <2>2, GrowsSame DEF Explained
<1>5. ASSUME VotesAreRecorded, NEW s \in Server, Crash(s) \/ Restart(s) PROVE Explained(h, a)
  <2>1. LogInv(h)'
        BY <1>5, CrashLogs
  <2>2. CommitInv(h, a)'
        BY <1>5, <2>1, CrashCommits, RestartCommits
  <2> QED BY <2>1, <2>2, GrowsSame DEF Explained
<1> QED BY <1>1, <1>2, <1>3, <1>4, <1>5, StepTaken

\* Every durable commit is the choice of a quorum that keeps it, however
\* elections, crashes and lost, late or repeated messages interleave, as long as
\* no membership change is asked for: the invariant on which the properties of
\* commitment below rest.
THEOREM CommitsHaveAcks ==
    ASSUME Target = {}
    PROVE  Spec => []CommitHistory
<1>1. Init => CommitHistory
      BY InitCommits
<1>2. /\ TypeInv /\ VoteInv /\ MembershipIsCurrent /\ TypeInv' /\ VoteInv'
      /\ CommitHistory /\ [Next]_vars
      => CommitHistory'
  <2> SUFFICES ASSUME TypeInv, VoteInv, MembershipIsCurrent, TypeInv', VoteInv',
                      NEW h \in Histories, NEW a \in Acks, LogInv(h), CommitInv(h, a),
                      [Next]_vars
               PROVE  CommitHistory'
      BY DEF CommitHistory
  <2> QED BY StepExplained DEF Explained, CommitHistory
<1> QED BY <1>1, <1>2, TypeCorrect, VotesCorrect, ConfigurationIsCurrent, PTL DEF Spec

-----------------------------------------------------------------------------
(* What commitment is for.                                                 *)

\* A log that includes an entry holds it, if only as part of its snapshot.
LEMMA IncludesHolds ==
    ASSUME NEW h, NEW d, SectionOK(d), Anchored(h, d),
           NEW c \in Nat, c > 0, NEW e, Includes(h, d, c, e)
    PROVE  /\ holds(d, c, e)
           /\ d.snap.index <= c => termAt(d, c) = e
<1>1. PICK b \in Nat : b = d.snap.index
      BY SectionAt
<1>2. PICK l \in Nat : l = lastIndex(d)
      BY SectionAt
<1>3. c <= l
      BY <1>2 DEF Includes
<1>4. CASE c < b
      BY <1>1, <1>2, <1>3, <1>4 DEF holds
<1>5. CASE c = b
  <2>1. h.full[d.snap.term][c].term = e
        BY <1>1, <1>5 DEF Includes
  <2>2. d.snap.term = e
        BY <1>1, <1>5, <2>1 DEF Anchored
  <2> QED BY <1>1, <1>2, <1>3, <1>5, <2>2 DEF holds, termAt
<1>6. CASE c > b
  <2>1. entryAt(d, c).term = e
        BY <1>1, <1>6 DEF Includes
  <2>2. entryExists(d, c)
        BY <1>1, <1>2, <1>3, <1>6 DEF entryExists
  <2> QED BY <1>1, <1>2, <1>3, <1>6, <2>1, <2>2 DEF holds, termAt
<1> QED BY <1>4, <1>5, <1>6

\* What the log of a new leader includes before its own first entry.
LEMMA UnbornIncludes ==
    ASSUME NEW h \in Histories, HistoriesAgree(h), NEW n, NodeInv(n), n.log # <<>>,
           n.log[Len(n.log)].term = n.term, FromHistory(h, withoutLast(n)),
           NEW T \in Terms, T < n.term, NEW i \in Nat, i > 0, i <= Len(h.full[T]),
           h.full[T][i].term = T, Includes(h, n, i, T), NEW c \in Nat, c > 0, c <= i
    PROVE  Includes(h, n, c, h.full[T][c].term)
<1>1. PICK d : d = withoutLast(n)
      OBVIOUS
<1>2. PICK l \in Nat : l = lastIndex(d)
      BY <1>1, WithoutLastSection, SectionAt
<1>3. PICK b \in Nat : b = n.snap.index
      BY SectionTypes, SectionAt
<1>4. PICK length \in Nat : length = Len(n.log) /\ length > 0
  <2>1. n.log \in Seq(Entry)
        BY SectionTypes DEF SectionOK
  <2>2. Len(n.log) \in Nat /\ Len(n.log) # 0
        BY <2>1
  <2> QED BY <2>2
<1>5. /\ SectionOK(d) /\ FromHistory(h, d) /\ d.snap = n.snap
      /\ lastIndex(n) = l + 1 /\ l + 1 = b + length
  <2>1. lastIndex(n) = b + length
        BY <1>3, <1>4 DEF lastIndex
  <2>2. SectionOK(d) /\ lastIndex(n) = l + 1
        BY <1>1, <1>2, WithoutLastSection
  <2> QED BY <1>1, <2>1, <2>2 DEF withoutLast
<1>6. \A j \in Nat : j > b /\ j <= l => entryAt(d, j) = entryAt(n, j)
  <2> SUFFICES ASSUME NEW j \in Nat, j > b, j <= l PROVE entryAt(d, j) = entryAt(n, j)
      OBVIOUS
  <2>1. PICK p \in Nat : p = length - 1 /\ length = p + 1
    <3>1. length - 1 \in Nat /\ length = (length - 1) + 1
          BY <1>4
    <3> QED BY <3>1
  <2>2. n.log \in Seq(Entry) /\ p <= Len(n.log)
        BY <1>4, <2>1, SectionTypes DEF SectionOK
  <2>3. d.log = SubSeq(n.log, 1, p)
        BY <1>1, <1>4, <2>1 DEF withoutLast
  <2>4. j - b \in 1..p
        BY <1>5, <2>1
  <2>5. d.log[j - b] = n.log[j - b]
        BY <2>2, <2>3, <2>4
  <2> QED BY <1>3, <1>5, <2>5 DEF entryAt
<1>7. i <= l
  <2>1. i <= l + 1
        BY <1>5 DEF Includes
  <2>2. CASE i = l + 1
    <3>1. i > b /\ i - b = length
          BY <1>4, <1>5, <2>2
    <3>2. entryAt(n, i).term = n.term
          BY <1>3, <1>4, <3>1 DEF entryAt
    <3>3. entryAt(n, i).term = T
          BY <1>3, <3>1 DEF Includes
    <3> QED BY <3>2, <3>3 DEF Terms
  <2> QED BY <1>2, <2>1, <2>2
<1>8. Includes(h, d, i, h.full[T][i].term)
      BY <1>2, <1>3, <1>5, <1>6, <1>7 DEF Includes
<1>9. Includes(h, d, c, h.full[T][c].term)
      BY <1>5, <1>8, IncludesBelow
<1>10. c <= l /\ c <= lastIndex(n)
      BY <1>2, <1>5, <1>7
<1> QED BY <1>3, <1>5, <1>6, <1>9, <1>10 DEF Includes

\* A leader includes whatever is chosen in its term or before.
LEMMA LeaderIncludes ==
    ASSUME TypeInv, NEW h \in Histories, LogInv(h), NEW a \in Acks, CommitInv(h, a),
           NEW s \in Server, node[s].role = Leader, NEW T \in Nat, T <= node[s].term,
           NEW c \in Nat, c > 0, NEW e, ChosenUpTo(h, a, T, c, e)
    PROVE  Includes(h, node[s], c, e)
<1>1. PICK n : n = node[s]
      OBVIOUS
<1>2. NodeInv(n) /\ SectionOK(n) /\ HistoriesAgree(h) /\ LeaderLogOK(h, s)
      BY <1>1, Sections DEF LogInv, LogsFromHistory
<1>3. LaterHolds(h, a)
      BY DEF CommitInv
<1>4. PICK t \in Terms : \E i \in 1..Len(h.full[t]) :
        t <= T /\ c <= i /\ Own(h, t, i) /\ Chosen(a, t, i) /\ h.full[t][c].term = e
      BY DEF ChosenUpTo
<1>5. PICK i \in 1..Len(h.full[t]) :
        t <= T /\ c <= i /\ Own(h, t, i) /\ Chosen(a, t, i) /\ h.full[t][c].term = e
      BY <1>4
<1>6. /\ i \in Nat /\ i > 0 /\ i <= Len(h.full[t]) /\ h.full[t] # <<>> /\ h.full[t][i].term = t
      /\ t \in Nat
  <2>1. h.full[t] \in Seq(Entry)
        BY DEF Histories
  <2> QED BY <1>5, <2>1 DEF Own, Terms
<1>7. PICK u \in Terms : u = n.term /\ T <= u /\ t <= u
  <2>1. n.term \in 0..MaxTerm /\ MaxTerm \in Nat
        BY <1>2, ConstantsType DEF NodeInv, NodeOK, HardStateOK
  <2>2. n.term \in Terms /\ T <= n.term /\ t <= n.term
        BY <1>1, <1>5, <2>1 DEF Terms
  <2> QED BY <2>2
<1>8. CASE h.full[u] # <<>>
  <2>1. Within(n, h.full[u]) /\ lastIndex(n) = Len(h.full[u])
        BY <1>1, <1>2, <1>7, <1>8 DEF LeaderLogOK
  <2>2. c <= Len(h.full[u]) /\ h.full[u][c].term = e
        BY <1>2, <1>3, <1>7, <1>8, ChosenInLater
  <2>3. Includes(h, n, c, e)
        BY <1>2, <2>1, <2>2, IncludesWithin
  <2> QED BY <1>1, <2>3
<1>9. CASE h.full[u] = <<>>
  <2>1. /\ n.log # <<>> /\ n.log[Len(n.log)].term = n.term /\ FromHistory(h, withoutLast(n))
        BY <1>1, <1>2, <1>7, <1>9 DEF LeaderLogOK
  <2>2. t < u
    <3>1. t # u
          BY <1>6, <1>9
    <3> QED BY <1>7, <3>1 DEF Terms
  <2>3. Choosable(a, [durableTerms EXCEPT ![s] = node[s].term], t, i)
        BY <1>5, ChosenChoosable
  <2>4. Unborn(h, s) /\ t < node[s].term /\ Own(h, t, i)
        BY <1>1, <1>5, <1>7, <1>9, <2>2 DEF Unborn
  <2>5. Includes(h, n, i, t)
        BY <1>1, <1>3, <2>3, <2>4 DEF LaterHolds
  <2>6. Includes(h, n, c, h.full[t][c].term)
        BY <1>2, <1>5, <1>6, <1>7, <2>1, <2>2, <2>5, UnbornIncludes
  <2> QED BY <1>1, <1>5, <2>6
<1> QED BY <1>8, <1>9

\* What a process durably commits is in its log, and chosen.
LEMMA DurableCommit ==
    ASSUME TypeInv, NEW h \in Histories, LogInv(h), NEW a \in Acks, CommitInv(h, a),
           NEW s \in Server, NEW c \in Nat, c = disk[s].commit, c > 0
    PROVE  ChosenUpTo(h, a, disk[s].term, c, termAt(disk[s], c))
<1>1. Committed(h, a, disk[s]) /\ CommitInLog(disk[s])
      BY DEF CommitInv, CommitsChosen
<1>2. PICK e \in Terms : Includes(h, disk[s], c, e) /\ ChosenUpTo(h, a, disk[s].term, c, e)
      BY <1>1 DEF Committed
<1>3. termAt(disk[s], c) = e
  <2>1. SectionOK(disk[s]) /\ Anchored(h, disk[s])
        BY Sections
  <2>2. disk[s].snap.index <= c
        BY <1>1 DEF CommitInLog
  <2> QED BY <1>2, <2>1, <2>2, IncludesHolds
<1> QED BY <1>2, <1>3

\* A leader's log holds everything that is durably committed anywhere in its
\* own or an earlier term: an election cannot lose a commit, whatever was
\* crashed, truncated, compacted or installed before, as long as no membership
\* change is asked for.
THEOREM LeadersAreComplete ==
    ASSUME Target = {}
    PROVE  Spec => []LeaderCompleteness
<1>1. TypeInv /\ CommitHistory => LeaderCompleteness
  <2> SUFFICES ASSUME TypeInv, NEW h \in Histories, NEW a \in Acks, LogInv(h), CommitInv(h, a),
                      NEW s \in leaders, NEW t \in Server, node[s].term >= disk[t].term
               PROVE  holds(node[s], disk[t].commit, termAt(disk[t], disk[t].commit))
      BY DEF CommitHistory, LeaderCompleteness
  <2>1. s \in Server /\ node[s].role = Leader
        BY DEF leaders
  <2>2. PICK c \in Nat : c = disk[t].commit
        BY TypeInvAt, ConstantsType DEF HardStateOK
  <2>3. PICK e : e = termAt(disk[t], c)
        OBVIOUS
  <2>4. PICK T \in Nat : T = disk[t].term /\ T <= node[s].term
    <3>1. disk[t].term \in 0..MaxTerm /\ node[s].term \in Nat /\ MaxTerm \in Nat
          BY <2>1, TypeInvAt, VoteTypes, ConstantsType DEF HardStateOK
    <3> QED BY <3>1
  <2>5. SectionOK(node[s]) /\ Anchored(h, node[s]) /\ lastIndex(node[s]) \in Nat
        BY <2>1, Sections, SectionAt
  <2>6. CASE c = 0
    <3>1. 0 <= lastIndex(node[s]) /\ termAt(node[s], 0) = 0 /\ termAt(disk[t], 0) = 0
          BY <2>5 DEF termAt
    <3> QED BY <2>2, <2>6, <3>1 DEF holds
  <2>7. CASE c > 0
    <3>1. ChosenUpTo(h, a, T, c, e)
          BY <2>2, <2>3, <2>4, <2>7, DurableCommit
    <3>2. Includes(h, node[s], c, e)
          BY <2>1, <2>4, <2>7, <3>1, LeaderIncludes
    <3>3. holds(node[s], c, e)
          BY <2>5, <2>7, <3>2, IncludesHolds
    <3> QED BY <2>2, <2>3, <3>3
  <2> QED BY <2>6, <2>7
<1> QED BY <1>1, TypeCorrect, CommitsHaveAcks, PTL

\* More votes for the same make no less of a quorum.
LEMMA LargerQuorum ==
    ASSUME NEW Q \in SUBSET Server, NEW R \in SUBSET Server, Q \subseteq R,
           quorum(InitialMembership, Q)
    PROVE  quorum(InitialMembership, R)
<1>1. InitialMembership \in Membership /\ InitialMembership.outgoing = {}
      BY InitialMembershipAssumption
<1>2. PICK V : V = InitialMembership.voters
      OBVIOUS
<1>3. V \cap Q \subseteq V \cap R /\ V \cap R \subseteq V
      OBVIOUS
<1>4. IsFiniteSet(V) /\ IsFiniteSet(V \cap R)
      BY <1>1, <1>2, <1>3, VotersAreFinite, FS_Subset
<1>5. /\ Cardinality(V \cap Q) <= Cardinality(V \cap R)
      /\ IsFiniteSet(V \cap Q)
      BY <1>3, <1>4, FS_Subset
<1>6. /\ Cardinality(V \cap Q) \in Nat /\ Cardinality(V \cap R) \in Nat
      /\ Cardinality(V) \in Nat
      BY <1>4, <1>5, FS_CardinalityType
<1>7. Cardinality(V \cap Q) >= Cardinality(V) \div 2 + 1
      BY <1>2 DEF quorum, majorityMatches
<1>8. PICK x \in Int : x = Cardinality(V) \div 2 + 1
      BY <1>6
<1>9. Cardinality(V \cap R) >= x
      BY <1>5, <1>6, <1>7, <1>8
<1> QED BY <1>1, <1>2, <1>8, <1>9 DEF quorum, majorityMatches, Joint

\* A durable commit index is backed by a quorum of disks that hold the entry,
\* so no crash of a minority, and no conflicting suffix, can undo it, as long
\* as no membership change is asked for.
THEOREM CommitsAreDurable ==
    ASSUME Target = {}
    PROVE  Spec => []CommitIsDurable
<1>1. TypeInv /\ CommitHistory => CommitIsDurable
  <2> SUFFICES ASSUME TypeInv, NEW h \in Histories, NEW a \in Acks, LogInv(h), CommitInv(h, a),
                      NEW s \in Server, NEW c, c = disk[s].commit, c > 0
               PROVE  quorum(membershipAt(disk[s], c),
                             {t \in Server : holds(disk[t], c, termAt(disk[s], c))})
      BY DEF CommitHistory, CommitIsDurable
  <2>1. c \in Nat
        BY TypeInvAt, ConstantsType DEF HardStateOK
  <2>2. PICK e : e = termAt(disk[s], c)
        OBVIOUS
  <2>3. membershipAt(disk[s], c) = InitialMembership
    <3>1. SectionOK(disk[s]) /\ FromHistory(h, disk[s])
          BY Sections
    <3>2. /\ \A t \in Terms : \A i \in 1..Len(h.full[t]) : PlainEntry(h.full[t][i])
          /\ PlainSnapshot(disk[s].snap)
          BY DEF LogInv, ConfigurationIsFixed
    <3> QED BY <2>1, <3>1, <3>2, PlainLog
  <2>4. ChosenUpTo(h, a, disk[s].term, c, e)
        BY <2>1, <2>2, DurableCommit
  <2>5. PICK t \in Terms : \E i \in 1..Len(h.full[t]) :
          c <= i /\ Own(h, t, i) /\ Chosen(a, t, i) /\ h.full[t][c].term = e
        BY <2>4 DEF ChosenUpTo
  <2>6. PICK i \in 1..Len(h.full[t]) :
          c <= i /\ Own(h, t, i) /\ Chosen(a, t, i) /\ h.full[t][c].term = e
        BY <2>5
  <2>7. i \in Nat /\ i > 0 /\ i <= Len(h.full[t]) /\ h.full[t][i].term = t
        BY <2>6 DEF Own, Histories
  <2>8. PICK Q \in SUBSET Server : quorum(InitialMembership, Q) /\ \A x \in Q : a[t][x] >= i
        BY <2>6 DEF Chosen
  <2>9. ASSUME NEW x \in Q PROVE holds(disk[x], c, e)
    <3>1. x \in Server /\ SectionOK(disk[x]) /\ FromHistory(h, disk[x]) /\ HistoriesAgree(h)
          /\ Anchored(h, disk[x])
          BY <2>9, Sections
    <3>2. a[t][x] \in Nat /\ a[t][x] >= i
          BY <2>8, <2>9, <3>1 DEF Acks
    <3>3. i \in 1..a[t][x]
          BY <2>7, <3>2
    <3>4. Choosable(a, durableTerms, t, i)
          BY <2>6, ChosenChoosable
    <3>5. AcksHeld(h, a, x, disk[x])
          BY <3>1 DEF CommitInv
    <3>6. Includes(h, disk[x], i, h.full[t][i].term)
          BY <2>6, <2>7, <3>3, <3>4, <3>5 DEF AcksHeld
    <3>7. Includes(h, disk[x], c, h.full[t][c].term)
          BY <2>1, <2>6, <2>7, <3>1, <3>6, IncludesBelow
    <3> QED BY <2>1, <2>6, <3>1, <3>7, IncludesHolds
  <2>10. PICK R \in SUBSET Server : R = {x \in Server : holds(disk[x], c, e)}
        OBVIOUS
  <2>11. Q \subseteq R
        BY <2>9, <2>10
  <2>12. quorum(InitialMembership, R)
        BY <2>8, <2>11, LargerQuorum
  <2> QED BY <2>2, <2>3, <2>10, <2>12
<1> QED BY <1>1, TypeCorrect, CommitsHaveAcks, PTL

\* What a leader believes replicated on a follower is on that follower's disk
\* as long as the follower stays in the leader's term, however late, lost,
\* repeated or reordered its responses are, as long as no membership change is
\* asked for.
THEOREM MatchesAreDurable ==
    ASSUME Target = {}
    PROVE  Spec => []MatchIsDurable
<1>1. TypeInv /\ CommitHistory => MatchIsDurable
  <2> SUFFICES ASSUME TypeInv, NEW h \in Histories, NEW a \in Acks, LogInv(h), CommitInv(h, a),
                      NEW s \in leaders, NEW f \in Server, f # s,
                      disk[f].term = node[s].term, NEW i \in 1..node[s].matchIndex[f],
                      ~(i < node[s].snap.index)
               PROVE  holds(disk[f], i, termAt(node[s], i))
      BY DEF CommitHistory, MatchIsDurable
  <2>1. s \in Server /\ node[s].role = Leader
        BY DEF leaders
  <2>2. PICK n : n = node[s]
        OBVIOUS
  <2>3. NodeInv(n) /\ SectionOK(n) /\ HistoriesAgree(h) /\ LeaderLogOK(h, s)
        BY <2>1, <2>2, Sections DEF LogInv, LogsFromHistory
  <2>4. PICK j \in Nat : j = n.matchIndex[f]
        BY <2>3, ConstantsType DEF NodeInv, NodeOK
  <2>5. i \in Nat /\ i > 0 /\ i <= j /\ j > 0
        BY <2>2, <2>4
  <2>6. PICK u \in Terms : u = n.term
    <3>1. n.term \in Terms
          BY <2>1, <2>2, <2>3, LeaderTerm DEF Follower, Leader
    <3> QED BY <3>1
  <2>7. MatchOK(h, a, u, f, j)
        BY <2>1, <2>2, <2>4, <2>6 DEF CommitInv, MatchesAcked
  <2>8. j <= Len(h.full[u]) /\ Includes(h, disk[f], j, h.full[u][j].term)
        BY <2>2, <2>5, <2>6, <2>7 DEF MatchOK
  <2>9. SectionOK(disk[f]) /\ Anchored(h, disk[f]) /\ FromHistory(h, disk[f])
        BY Sections
  <2>10. Includes(h, disk[f], i, h.full[u][i].term)
        BY <2>3, <2>5, <2>8, <2>9, IncludesBelow
  <2>11. holds(disk[f], i, h.full[u][i].term)
        BY <2>5, <2>9, <2>10, IncludesHolds
  <2>12. h.full[u] \in Seq(Entry) /\ Len(h.full[u]) \in Nat /\ h.full[u] # <<>>
    <3>1. h.full[u] \in Seq(Entry)
          BY DEF Histories
    <3> QED BY <2>5, <2>8, <3>1
  <2>13. Within(n, h.full[u]) /\ lastIndex(n) = Len(h.full[u])
        BY <2>2, <2>3, <2>6, <2>12 DEF LeaderLogOK
  <2>14. termAt(n, i) = h.full[u][i].term
    <3>1. n.snap.index \in Nat /\ n.snap.index <= i /\ i <= lastIndex(n)
          BY <2>2, <2>3, <2>5, <2>8, <2>12, <2>13, SectionAt
    <3> QED BY <2>3, <2>5, <2>12, <2>13, <3>1, WithinAt
  <2> QED BY <2>2, <2>11, <2>14
<1> QED BY <1>1, TypeCorrect, CommitsHaveAcks, PTL

\* Entries reach the application in index order with no gap and no repeat,
\* across crashes, restarts, compaction and installed snapshots: the harness
\* never has to refuse an effect with ErrApplyOrder, as long as no membership
\* change is asked for.
THEOREM AppliedInOrder ==
    ASSUME Target = {}
    PROVE  Spec => []ApplyOrder
<1>1. TypeInv /\ CommitHistory => ApplyOrder
  <2> SUFFICES ASSUME TypeInv, NEW h \in Histories, NEW a \in Acks, LogInv(h), CommitInv(h, a),
                      NEW s \in Server, NEW e, e = pending[s].effects,
                      NEW base, base = IF e.install THEN node[s].snap.index ELSE store[s].applied
               PROVE  /\ e.install => node[s].snap.index >= store[s].applied
                      /\ e.apply = (base + 1)..(base + Cardinality(e.apply))
                      /\ up[s] => node[s].applied = base + Cardinality(e.apply)
      BY DEF CommitHistory, ApplyOrder
  <2>1. base \in Nat /\ store[s].applied \in Nat /\ node[s].commit \in Nat
        /\ node[s].snap.index \in Nat
        BY TypeInvAt, CommitType, SectionTypes, SectionAt
  <2>2. DeliveryOK(s)
        BY DEF CommitInv
  <2>3. e.install => node[s].snap.index >= store[s].applied
        BY <2>1, <2>2 DEF DeliveryOK
  <2>4. CASE up[s]
    <3>1. /\ e.apply = (base + 1)..node[s].commit /\ base <= node[s].commit
          /\ node[s].applied = node[s].commit
          BY <2>2, <2>4 DEF DeliveryOK
    <3>2. base + Cardinality(e.apply) = node[s].commit
          BY <2>1, <3>1, AppliedTo
    <3> QED BY <2>3, <3>1, <3>2
  <2>5. CASE ~up[s]
    <3>1. e.apply = (base + 1)..base
          BY <2>2, <2>5 DEF DeliveryOK
    <3>2. base + Cardinality(e.apply) = base
          BY <2>1, <3>1, AppliedTo, SMTT(40)
    <3> QED BY <2>3, <2>5, <3>1, <3>2
  <2> QED BY <2>4, <2>5
<1> QED BY <1>1, TypeCorrect, CommitsHaveAcks, PTL

\* What a step may do to the disk of s, and to what its application was given.
Durably(s) ==
    /\ \/ disk'[s] = disk[s]
       \/ disk'[s] = persistentState(node[s]) /\ store'[s] = store[s]
    /\ \/ store'[s].applied = store[s].applied
       \/ disk'[s] = disk[s] /\ up'[s] /\ pending'[s] = NoPending

\* The disk changes by a write, and only a process that is up and waits for no
\* write has handed anything to its application.
LEMMA StepsDurably ==
    ASSUME TypeInv, Next, NEW s \in Server, ~up[s] => pending[s] = NoPending
    PROVE  Durably(s)
<1>1. PerServer(node) /\ PerServer(disk) /\ PerServer(store) /\ PerServer(pending)
      /\ up \in [Server -> BOOLEAN]
      BY DEF TypeInv, TypeOK
<1>2. ASSUME NEW u \in Server, NEW r, NEW inFlight, NEW t, Idle(u), Submit(u, r, inFlight, t)
      PROVE  Durably(s)
  <2>1. disk' = disk /\ up' = up
        BY <1>2 DEF Submit
  <2>2. CASE store' = store
        BY <2>1, <2>2 DEF Durably
  <2>3. CASE store' # store
    <3>1. pending' = pending /\ store' = [store EXCEPT ![u] = applyEffects(@, r.node, r.effects)]
          BY <1>2, <2>3 DEF Submit
    <3>2. CASE u = s
          BY <1>2, <2>1, <3>1, <3>2 DEF Idle, Durably
    <3>3. CASE u # s
          BY <1>1, <2>1, <3>1, <3>3 DEF PerServer, Durably
    <3> QED BY <3>2, <3>3
  <2> QED BY <2>2, <2>3
<1>3. CASE UNCHANGED <<disk, store>>
      BY <1>3 DEF Durably
<1>4. ASSUME NEW u \in Server, CompleteWrite(u) PROVE Durably(s)
  <2>1. disk' = [disk EXCEPT ![u] = persistentState(node[u])] /\ store' = store
        BY <1>4 DEF CompleteWrite
  <2>2. CASE u = s
        BY <1>1, <2>1, <2>2 DEF PerServer, Durably
  <2>3. CASE u # s
        BY <1>1, <2>1, <2>3 DEF PerServer, Durably
  <2> QED BY <2>2, <2>3
<1>5. ASSUME NEW u \in Server, AcknowledgeWrite(u) PROVE Durably(s)
  <2>1. PICK st : /\ store' = [store EXCEPT ![u] = st] /\ disk' = disk
                  /\ pending' = [pending EXCEPT ![u] = NoPending] /\ up' = up /\ up[u]
        BY <1>1, <1>5 DEF AcknowledgeWrite, PerServer
  <2>2. CASE u = s
        BY <1>1, <2>1, <2>2 DEF PerServer, Durably
  <2>3. CASE u # s
        BY <1>1, <2>1, <2>3 DEF PerServer, Durably
  <2> QED BY <2>2, <2>3
<1>6. ASSUME NEW u \in Server, Restart(u) PROVE Durably(s)
  <2>1. PICK st : /\ store' = [store EXCEPT ![u] = st] /\ disk' = disk
                  /\ pending' = pending /\ up' = [up EXCEPT ![u] = TRUE] /\ ~up[u]
        BY <1>6 DEF Restart
  <2>2. CASE u = s
        BY <1>1, <2>1, <2>2 DEF PerServer, Durably
  <2>3. CASE u # s
        BY <1>1, <2>1, <2>3 DEF PerServer, Durably
  <2> QED BY <2>2, <2>3
<1>7. ASSUME NEW u \in Server, Crash(u) PROVE Durably(s)
      BY <1>3, <1>7 DEF Crash
<1>8. ASSUME NEW u \in Server,
             \/ ElectionTimeout(u) \/ HeartbeatTimeout(u)
             \/ Snapshot(u) \/ FinalizeMembershipChange(u)
             \/ \E c \in Command : Propose(u, c)
             \/ \E t \in Target : BeginMembershipChange(u, t)
      PROVE  Durably(s)
  <2>1. CASE ElectionTimeout(u)
        BY <1>2, <1>3, <2>1 DEF ElectionTimeout
  <2>2. CASE HeartbeatTimeout(u)
        BY <1>2, <2>2 DEF HeartbeatTimeout
  <2>3. CASE Snapshot(u)
        BY <1>2, <2>3 DEF Snapshot
  <2>4. CASE FinalizeMembershipChange(u)
        BY <1>2, <2>4 DEF FinalizeMembershipChange
  <2>5. CASE \E c \in Command : Propose(u, c)
        BY <1>2, <2>5 DEF Propose
  <2>6. CASE \E t \in Target : BeginMembershipChange(u, t)
        BY <1>2, <2>6 DEF BeginMembershipChange
  <2> QED BY <1>8, <2>1, <2>2, <2>3, <2>4, <2>5, <2>6
<1>9. ASSUME NEW m \in net, Receive(m) \/ Drop(m) PROVE Durably(s)
  <2>1. m.to \in Server
        BY DEF TypeInv, TypeOK, MessageOK
  <2>2. CASE Receive(m)
        BY <1>2, <2>1, <2>2 DEF Receive
  <2>3. CASE Drop(m)
        BY <1>3, <2>3 DEF Drop
  <2> QED BY <1>9, <2>2, <2>3
<1> QED BY <1>4, <1>5, <1>6, <1>7, <1>8, <1>9 DEF Next

\* Durable state never goes back, across crashes, restarts, conflicting
\* suffixes and installed snapshots: not the term, not a vote within a term,
\* not the commit index, the snapshot boundary or the applied index, as long
\* as no membership change is asked for.
THEOREM ProgressIsDurable ==
    ASSUME Target = {}
    PROVE  Spec => DurableProgress
<1> DEFINE Forward(s) ==
            /\ disk'[s].term >= disk[s].term
            /\ disk'[s].term = disk[s].term /\ disk[s].votedFor # Nil =>
                    disk'[s].votedFor = disk[s].votedFor
            /\ disk'[s].commit >= disk[s].commit
            /\ disk'[s].snap.index >= disk[s].snap.index
            /\ store'[s].applied >= store[s].applied
<1>1. /\ TypeInv /\ VoteInv /\ CommitHistory /\ TypeInv' /\ CommitHistory' /\ [Next]_vars
      => [\A s \in Server : Forward(s)]_<<disk, store>>
  <2> SUFFICES ASSUME TypeInv, VoteInv, TypeInv', CommitHistory', Next,
                      NEW h \in Histories, NEW a \in Acks, LogInv(h), CommitInv(h, a),
                      NEW s \in Server
               PROVE  Forward(s)
      BY DEF CommitHistory, vars
  <2>1. DeliveryOK(s) /\ DeliveryOK(s)' /\ WriteOK(s)
        BY DEF CommitHistory, CommitInv, VoteInv
  <2>2. Durably(s)
    <3>1. ~up[s] => pending[s] = NoPending
          BY <2>1 DEF DeliveryOK
    <3> QED BY <3>1, StepsDurably
  <2>3. /\ disk[s].term \in Nat /\ node[s].term \in Nat
        /\ disk[s].commit \in Nat /\ node[s].commit \in Nat
        /\ disk[s].snap.index \in Nat /\ node[s].snap.index \in Nat
        /\ store[s].applied \in Nat
    <3>1. disk[s].commit \in 0..MaxIndex /\ MaxIndex \in Nat
          BY TypeInvAt, ConstantsType DEF HardStateOK
    <3>2. node[s].commit \in Nat /\ store[s].applied \in Nat
          BY TypeInvAt, CommitType
    <3>3. disk[s].snap.index \in Nat /\ node[s].snap.index \in Nat
          BY TypeInvAt, SectionTypes, SectionAt
    <3> QED BY <3>1, <3>2, <3>3, VoteTypes
  <2>4. /\ disk'[s].commit \in Nat /\ store'[s].applied \in Nat /\ node'[s].commit \in Nat
    <3>1. /\ node'[s].commit \in 0..MaxIndex /\ disk'[s].commit \in 0..MaxIndex
          /\ store'[s].applied \in Nat /\ MaxIndex \in Nat
          BY ConstantsType DEF TypeInv, TypeOK, NodeOK, HardStateOK
    <3> QED BY <3>1
  <2>5. /\ disk'[s].term >= disk[s].term
        /\ disk'[s].term = disk[s].term /\ disk[s].votedFor # Nil =>
                disk'[s].votedFor = disk[s].votedFor
        /\ disk'[s].commit >= disk[s].commit
        /\ disk'[s].snap.index >= disk[s].snap.index
    <3>1. CASE disk'[s] = disk[s]
          BY <2>3, <3>1
    <3>2. CASE disk'[s] = persistentState(node[s])
      <4>1. /\ disk'[s].term = node[s].term /\ disk'[s].votedFor = node[s].votedFor
            /\ disk'[s].commit = node[s].commit /\ disk'[s].snap = node[s].snap
            BY <3>2 DEF persistentState
      <4>2. disk[s].commit <= node[s].commit /\ disk[s].snap.index <= node[s].snap.index
            BY <2>1 DEF DeliveryOK
      <4>3. /\ disk[s].term <= node[s].term
            /\ disk[s].term = node[s].term /\ disk[s].votedFor # Nil =>
                    node[s].votedFor = disk[s].votedFor
            BY <2>1 DEF WriteOK
      <4> QED BY <2>3, <4>1, <4>2, <4>3
    <3> QED BY <2>2, <3>1, <3>2 DEF Durably
  <2>6. store'[s].applied >= store[s].applied
    <3>1. CASE store'[s].applied = store[s].applied
          BY <2>3, <3>1
    <3>2. CASE disk'[s] = disk[s] /\ up'[s] /\ pending'[s] = NoPending
      <4>1. ~pending'[s].effects.install /\ pending'[s].effects.apply = {}
            BY <3>2 DEF NoPending, NoEffects
      <4>2. PICK b \in Nat : b = store'[s].applied
            BY <2>4
      <4>3. PICK c \in Nat : c = node'[s].commit
            BY <2>4
      <4>4. {} = (b + 1)..c /\ b <= c /\ disk'[s].commit <= c
            BY <2>1, <3>2, <4>1, <4>2, <4>3 DEF DeliveryOK
      <4>5. b = c
        <5>1. CASE b < c
          <6>1. c \in (b + 1)..c
                BY <5>1
          <6> QED BY <4>4, <6>1
        <5> QED BY <4>4, <5>1
      <4>6. store[s].applied <= disk[s].commit
            BY <2>1 DEF DeliveryOK
      <4> QED BY <2>3, <2>4, <3>2, <4>2, <4>4, <4>5, <4>6
    <3> QED BY <2>2, <3>1, <3>2 DEF Durably
  <2> QED BY <2>5, <2>6
<1>2. Spec => [][\A s \in Server : Forward(s)]_<<disk, store>>
      BY <1>1, TypeCorrect, VotesCorrect, CommitsHaveAcks, PTL DEF Spec
<1> QED BY <1>2 DEF DurableProgress

\* The entries of a section of a history, one by one.
LEMMA EntriesOrdered ==
    ASSUME NEW h \in Histories, HistoriesAgree(h), HistoryTerms(h), NEW d, SectionOK(d),
           FromHistory(h, d), BoundaryOK(d.snap), NEW k \in 1..Len(d.log)
    PROVE  /\ d.log[k].term \in Terms
           /\ d.log[k].term >= IF k = 1 THEN d.snap.term ELSE d.log[k - 1].term
           /\ d.log[k] = entryAt(d, d.snap.index + k)
           /\ \E t \in Terms : \E i \in 1..Len(h.full[t]) : d.log[k] = h.full[t][i]
<1>1. PICK t \in Terms : Within(d, h.full[t])
      BY DEF FromHistory
<1>2. PICK b \in Nat : b = d.snap.index
      BY SectionAt
<1>3. PICK length \in Nat : length = Len(d.log)
      BY SectionAt
<1>4. PICK total \in Nat : total = Len(h.full[t])
      BY DEF Histories
<1>5. b + length <= total /\ k \in Nat /\ k > 0 /\ k <= length
      BY <1>1, <1>2, <1>3, <1>4 DEF Within, lastIndex
<1>6. \A j \in 1..length : h.full[t][b + j] = d.log[j]
      BY <1>1, <1>2, <1>3 DEF Within
<1>7. PICK i \in Nat : i = b + k /\ i > 0 /\ i <= total
      BY <1>5
<1>8. d.log[k] = h.full[t][i]
      BY <1>5, <1>6, <1>7
<1>9. d.log[k].term \in Terms
      BY <1>4, <1>7, <1>8, HistoryTerm
<1>10. d.log[k] = entryAt(d, d.snap.index + k)
  <2>1. (b + k) - b = k
        BY <1>5
  <2> QED BY <1>2, <2>1 DEF entryAt
<1>11. d.log[k].term >= IF k = 1 THEN d.snap.term ELSE d.log[k - 1].term
  <2>1. CASE k # 1
    <3>1. PICK j \in Nat : j = k - 1 /\ j > 0 /\ j <= length
          BY <1>5, <2>1
    <3>2. PICK p \in Nat : p = b + j /\ p > 0 /\ p <= i
          BY <1>5, <1>7, <3>1
    <3>3. d.log[j] = h.full[t][p]
          BY <1>6, <3>1, <3>2
    <3>4. h.full[t][p].term <= h.full[t][i].term
          BY <1>4, <1>7, <3>2, TermsOrdered
    <3>5. d.log[j].term \in Nat /\ d.log[k].term \in Nat
          BY <1>4, <1>7, <1>8, <3>2, <3>3, TermsOrdered, SMTT(40) DEF Terms
    <3> QED BY <1>8, <2>1, <3>1, <3>3, <3>4, <3>5
  <2>2. CASE k = 1 /\ b > 0
    <3>1. d.snap.term = h.full[t][b].term
          BY <1>1, <1>2, <2>2 DEF Within
    <3>2. b <= i
          BY <1>7
    <3>3. h.full[t][b].term <= h.full[t][i].term
          BY <1>4, <1>7, <2>2, <3>2, TermsOrdered
    <3>4. d.snap.term \in Nat /\ d.log[k].term \in Nat
          BY <1>4, <1>7, <1>8, <2>2, <3>1, <3>2, TermsOrdered DEF Terms
    <3> QED BY <1>8, <2>2, <3>1, <3>3, <3>4
  <2>3. CASE k = 1 /\ b = 0
    <3>1. d.snap.term = 0
          BY <1>2, <2>3 DEF BoundaryOK
    <3> QED BY <1>9, <2>3, <3>1 DEF Terms
  <2> QED BY <1>2, <2>1, <2>2, <2>3
<1>12. i \in 1..Len(h.full[t])
      BY <1>4, <1>7
<1> QED BY <1>8, <1>9, <1>10, <1>11, <1>12

\* A crash at any point leaves a durable state that New accepts: terms in order
\* and within the hard state's, a legal chain of configurations, and a commit
\* index between what is compacted or applied and the end of the log, as long
\* as no membership change is asked for.
THEOREM DurableStatesAreValid ==
    ASSUME Target = {}
    PROVE  Spec => []DurableStateIsValid
<1>1. TypeInv /\ CommitHistory => DurableStateIsValid
  <2> SUFFICES ASSUME TypeInv, NEW h \in Histories, NEW a \in Acks, LogInv(h), CommitInv(h, a),
                      NEW s \in Server
               PROVE  validate(disk[s], store[s].applied)
      BY DEF CommitHistory, DurableStateIsValid
  <2>1. PICK d : d = disk[s]
        OBVIOUS
  <2>2. HardStateOK(d) /\ LogBounded(d) /\ store[s].applied \in Nat
        BY <2>1, TypeInvAt
  <2>3. SectionOK(d) /\ FromHistory(h, d) /\ Anchored(h, d) /\ HistoriesAgree(h)
        BY <2>1, Sections
  <2>4. TermsBounded(d) /\ CommitInLog(d) /\ HistoryTerms(h)
        BY <2>1 DEF CommitInv, CommitsChosen
  <2>5. /\ \A t \in Terms : \A i \in 1..Len(h.full[t]) : PlainEntry(h.full[t][i])
        /\ PlainSnapshot(d.snap)
        BY <2>1 DEF LogInv, ConfigurationIsFixed
  <2>6. DeliveryOK(s)
        BY DEF CommitInv
  <2>7. PICK b \in Nat : b = d.snap.index
        BY <2>3, SectionAt
  <2>8. PICK l \in Nat : l = lastIndex(d) /\ b <= l
        BY <2>3, <2>7, SectionAt
  <2>9. PICK length \in Nat : length = Len(d.log) /\ l = b + length
        BY <2>3, <2>7, <2>8, SectionAt
  <2>10. PICK top \in Nat : top = d.term
        BY <2>2, ConstantsType DEF HardStateOK
  <2>11. b > 0 => d.snap.term \in 1..d.term /\ validateMembership(d.snap.membership)
    <3> SUFFICES ASSUME b > 0
                 PROVE  d.snap.term \in 1..d.term /\ validateMembership(d.snap.membership)
        OBVIOUS
    <3>1. termAt(d, b) = d.snap.term
          BY <2>7 DEF termAt
    <3>2. b \in b..l
          BY <2>8
    <3>3. d.snap.term <= d.term
          BY <2>4, <2>7, <2>8, <3>1, <3>2 DEF TermsBounded
    <3>4. d.snap.term \in Nat /\ d.snap.term > 0
          BY <2>3, <2>7 DEF Anchored, Terms
    <3>5. d.snap.membership = InitialMembership
          BY <2>5, <2>7 DEF PlainSnapshot
    <3>6. d.snap.term \in 1..d.term
          BY <2>10, <3>3, <3>4
    <3> QED BY <3>5, <3>6, InitialMembershipAssumption
  <2>12. Len(d.log) <= MaxIndex - d.snap.index
        BY <2>2, <2>7, <2>8, <2>9, ConstantsType DEF LogBounded
  <2>13. ASSUME NEW k \in 1..Len(d.log)
         PROVE  /\ d.log[k].term \in 1..d.term
                /\ d.log[k].term >= IF k = 1 THEN d.snap.term ELSE d.log[k - 1].term
                /\ PlainEntry(d.log[k])
    <3>1. /\ d.log[k].term \in Terms /\ d.log[k] = entryAt(d, d.snap.index + k)
          /\ d.log[k].term >= IF k = 1 THEN d.snap.term ELSE d.log[k - 1].term
          /\ \E t \in Terms : \E i \in 1..Len(h.full[t]) : d.log[k] = h.full[t][i]
          BY <2>2, <2>3, <2>4, EntriesOrdered DEF LogBounded
    <3>2. PICK i \in Nat : i = b + k /\ i > b /\ i <= l
          BY <2>9
    <3>3. termAt(d, i) = d.log[k].term
      <4>1. entryExists(d, i)
            BY <2>7, <2>8, <3>2 DEF entryExists
      <4> QED BY <2>7, <3>1, <3>2, <4>1 DEF termAt
    <3>4. i \in b..l
          BY <3>2
    <3>5. d.log[k].term <= d.term
          BY <2>4, <2>7, <2>8, <3>3, <3>4 DEF TermsBounded
    <3>6. d.log[k].term \in 1..d.term
          BY <2>10, <3>1, <3>5 DEF Terms
    <3>7. PlainEntry(d.log[k])
          BY <2>5, <3>1
    <3> QED BY <3>1, <3>6, <3>7
  <2>14. \A k \in 1..Len(d.log) : d.log[k].type # "joint" /\ d.log[k].type # "final"
        BY <2>13 DEF PlainEntry, isConfig
  <2>15. chainOK(baseMembership(d), d.log)
    <3> SUFFICES ASSUME NEW k \in 1..Len(d.log)
                 PROVE  transitionOK(baseMembership(d), d.log, k)
        BY DEF chainOK
    <3>1. d.log[k].membership = NoMembership
          BY <2>13 DEF PlainEntry
    <3> QED BY <2>14, <3>1 DEF transitionOK
  <2>16. d.snap.index <= d.commit /\ d.commit <= lastIndex(d) /\ store[s].applied <= d.commit
        BY <2>1, <2>4, <2>6 DEF CommitInLog, DeliveryOK
  <2>17. validate(d, store[s].applied)
        BY <2>7, <2>11, <2>12, <2>13, <2>14, <2>15, <2>16 DEF validate
  <2> QED BY <2>1, <2>17
<1> QED BY <1>1, TypeCorrect, CommitsHaveAcks, PTL
=============================================================================
