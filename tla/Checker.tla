------------------------------ MODULE Checker ------------------------------
(***************************************************************************)
(* check/check.go: the online safety checker.  It trusts nothing the       *)
(* implementation claims: from one observation of every node after each    *)
(* event it keeps the first witness of every fact and reports what         *)
(* contradicts it.  A finding is a tuple of the invariant, the nodes it    *)
(* names and its evidence; equal tuples have equal fingerprints.           *)
(*                                                                         *)
(* An observed node is a record: up, its durable state (term, votedFor,    *)
(* commit, snap, log), appliedIndex and applied, and of its live status    *)
(* the role, whether it awaits persistence, the term, the vote, the commit *)
(* index, and the configuration that elected it.  The live log and snapshot*)
(* of a node that does not await persistence are the durable ones.         *)
(***************************************************************************)
EXTENDS RaftMembership, Sequences

CONSTANTS
  Nil,                \* the empty NodeID
  Initial             \* the membership the checker starts from

\* Identities are ordered.
ASSUME NodesAssumption == Server = 1..Cardinality(Server)
ASSUME InitialAssumption == Initial \in Membership /\ validateMembership(Initial)

Greatest(a, b) == IF a > b THEN a ELSE b

NoHistory ==
  [leaders |-> <<>>, votes |-> <<>>,
   durableTerms |-> [n \in Server |-> 0], commitIndexes |-> [n \in Server |-> 0],
   appliedIndexes |-> [n \in Server |-> 0],
   committed |-> <<>>, applied |-> <<>>, snapshots |-> <<>>,
   seen |-> {}, violations |-> {}]

\* A fingerprint that depends on when the finding was made.
timedFingerprint(at, finding) == <<finding, at>>

\* Fingerprint: the invariant, the nodes and the evidence.
fingerprint(at, finding) == <<finding, 0>>

\* add: equal evidence is reported once.
add(c, at, findings) ==
  [c EXCEPT !.seen = @ \cup {fingerprint(at, x) : x \in findings},
            !.violations = @ \cup {<<x, at>> : x \in {y \in findings : fingerprint(at, y) \notin c.seen}}]
-----------------------------------------------------------------------------
(* One node against the history.                                           *)

\* The nodes a violation names, sorted: how often each of a list is in it.
names(ns) == [n \in {ns[k] : k \in DOMAIN ns} |-> Cardinality({k \in DOMAIN ns : ns[k] = n})]

only(condition, finding) == IF condition THEN {finding} ELSE {}

stateLastIndex(o) == o.snap.index + Len(o.log)
entryAt(o, i) == o.log[i - o.snap.index]
held(o) == o.snap.index + 1 .. stateLastIndex(o)

liveState(o) == <<o.statusTerm, o.statusVote, o.statusCommit>>
hardState(o) == <<o.term, o.votedFor, o.commit>>

checkDurableHistory(c, n, o) ==
  only(o.term < c.durableTerms[n], <<"durable-term-monotonic", names(<<n>>), c.durableTerms[n], o.term>>)
  \cup {<<"durable-double-vote", names(<<n, c.votes[k], o.votedFor>>), o.term, c.votes[k], o.votedFor>> :
          k \in {l \in DOMAIN c.votes \cap {<<n, o.term>>} : o.votedFor # Nil /\ c.votes[l] # o.votedFor}}
  \cup only(o.up /\ ~o.awaiting /\ liveState(o) # hardState(o),
            <<"volatile-durable-match", names(<<n>>), liveState(o), hardState(o)>>)

committedBy(o) == {i \in held(o) : i <= o.commit}

\* A ledger with what another has for the keys it has nothing of.
keeping(f, g) == [k \in DOMAIN f \cup DOMAIN g |-> IF k \in DOMAIN f THEN f[k] ELSE g[k]]

checkCommittedHistory(c, n, o) ==
  only(o.commit < c.commitIndexes[n], <<"commit-monotonic", names(<<n>>), c.commitIndexes[n], o.commit>>)
  \cup {<<"committed-conflict", names(<<c.committed[i].node, n>>), i, c.committed[i], entryAt(o, i)>> :
          i \in {j \in committedBy(o) \cap DOMAIN c.committed : c.committed[j].entry # entryAt(o, j)}}

checkAppliedHistory(c, n, o) ==
  only(o.appliedIndex < c.appliedIndexes[n], <<"applied-monotonic", names(<<n>>), c.appliedIndexes[n], o.appliedIndex>>)
  \cup {<<"applied-conflict", names(<<c.applied[i].node, n>>), i, c.applied[i], o.applied[i]>> :
          i \in {j \in DOMAIN o.applied \cap DOMAIN c.applied : c.applied[j].entry # o.applied[j]}}

checkSnapshotHistory(c, n, o) ==
  {<<"snapshot-conflict", names(<<c.snapshots[i].node, n>>), i, c.snapshots[i], o.snap>> :
     i \in {j \in {o.snap.index} \cap DOMAIN c.snapshots : c.snapshots[j].snap # o.snap}}

\* What an entry that carries no data has for it.
NoData == "none"

\* The membership in force before each entry, up to the first bad one, which
\* is reported with that membership if it has a configuration.
checkMembershipHistory(c, n, o) ==
  LET start == IF o.snap.index > 0 /\ o.snap.membership # NoMembership THEN o.snap.membership ELSE Initial
      transition(m, e) ==
        CASE e.type = "joint" -> e.data = NoData /\ jointTransitionOK(m, e.membership)
          [] e.type = "final" -> e.data = NoData /\ finalTransitionOK(m, e.membership)
          [] OTHER -> e.membership = NoMembership
      evidence(m, k) ==
        IF k = 0 THEN <<m>>
        ELSE IF o.log[k].type \in {"joint", "final"} THEN <<o.snap.index + k, o.log[k], m>>
        ELSE <<o.snap.index + k, o.log[k]>>
      run[k \in 0..Len(o.log)] ==
        IF k = 0 THEN [m |-> start, bad |-> IF validateMembership(start) THEN {} ELSE {0}]
        ELSE LET r == run[k - 1]
             IN IF r.bad # {} THEN r
                ELSE IF ~transition(r.m, o.log[k]) THEN [r EXCEPT !.bad = {k}]
                ELSE IF o.log[k].type \in {"joint", "final"} THEN [r EXCEPT !.m = o.log[k].membership]
                ELSE r
  IN {<<"membership-transition", names(<<n>>), evidence(run[Len(o.log)].m, k)>> : k \in run[Len(o.log)].bad}

\* A ledger that forgets what a node has compacted.
compactedHistory(c, n, o) ==
  keeping([i \in {j \in DOMAIN c.committed : j > o.snap.index} |-> c.committed[i]],
          [i \in committedBy(o) |-> [node |-> n, entry |-> entryAt(o, i), commitTerm |-> o.term]])

\* The first witness of every committed index, with its term at that time.
committedHistory(c, n, o) ==
  keeping(c.committed,
          [i \in committedBy(o) |-> [node |-> n, entry |-> entryAt(o, i), commitTerm |-> o.term]])

\* What the node adds to the history; a first witness is never replaced.
witnessed(c, n, o) ==
  [c EXCEPT
     !.durableTerms[n] = Greatest(@, o.term),
     !.votes = IF o.votedFor = Nil THEN @ ELSE keeping(@, [k \in {<<n, o.term>>} |-> o.votedFor]),
     !.commitIndexes[n] = Greatest(@, o.commit),
     !.committed = committedHistory(c, n, o),
     !.appliedIndexes[n] = Greatest(@, o.appliedIndex),
     !.applied = keeping(@, [i \in DOMAIN o.applied |-> [node |-> n, entry |-> o.applied[i]]]),
     !.snapshots = IF o.snap.index = 0 THEN @
                   ELSE keeping(@, [i \in {o.snap.index} |-> [node |-> n, snap |-> o.snap]])]

checkNode(c, at, n, o) ==
  witnessed(add(c, at, checkDurableHistory(c, n, o) \cup checkCommittedHistory(c, n, o)
                         \cup checkAppliedHistory(c, n, o) \cup checkSnapshotHistory(c, n, o)
                         \cup checkMembershipHistory(c, n, o)), n, o)
-----------------------------------------------------------------------------
(* Logs against each other, and leaders against the history.               *)

checkPair(left, right, l, r) ==
  LET shared == held(l) \cap held(r)
      differ == {i \in shared : entryAt(l, i) # entryAt(r, i)}
      first == CHOOSE i \in differ : \A j \in differ : i <= j
  IN {<<"log-matching", names(<<left, right>>), i, first, entryAt(l, i).term>> :
        i \in {j \in shared : differ # {} /\ first <= j /\ entryAt(l, j).term = entryAt(r, j).term}}

checkLogs(nodes) ==
  UNION {checkPair(p[1], p[2], nodes[p[1]], nodes[p[2]]) : p \in {q \in Server \X Server : q[1] < q[2]}}

isLeader(o) == o.up /\ o.leader /\ ~o.awaiting

\* The voters whose durable vote of the term was seen to go to the leader.
certified(c, n, o) ==
  {v \in Server : <<v, o.statusTerm>> \in DOMAIN c.votes /\ c.votes[<<v, o.statusTerm>>] = n}

\* A checker that does not ask when an entry was committed.
anyCommitted(c, o) == {i \in DOMAIN c.committed : i > o.snap.index}

\* Entries a leader must have: committed no later than its term, above its
\* snapshot.
mustHold(c, o) == {i \in DOMAIN c.committed : o.statusTerm >= c.committed[i].commitTerm /\ i > o.snap.index}

\* ElectionMembership, or the initial one of a status that has none.
electedBy(o) == IF o.elected.voters = {} THEN Initial ELSE o.elected

checkLeader(c, n, o) ==
  {<<"election-safety", names(<<c.leaders[t], n>>), t>> :
     t \in {u \in {o.statusTerm} \cap DOMAIN c.leaders : c.leaders[u] # n}}
  \cup only(~validateMembership(electedBy(o)) \/ ~quorum(electedBy(o), certified(c, n, o)),
            <<"election-certificate", names(<<n>>), o.statusTerm, certified(c, n, o), electedBy(o)>>)
  \cup {<<"leader-completeness", names(<<n, c.committed[i].node>>), o.statusTerm, i, c.committed[i]>> :
          i \in {j \in mustHold(c, o) : j \notin held(o) \/ entryAt(o, j) # c.committed[j].entry}}

checkLeaderNode(c, at, n, o) ==
  IF ~isLeader(o) THEN c
  ELSE [add(c, at, checkLeader(c, n, o)) EXCEPT !.leaders = keeping(@, [t \in {o.statusTerm} |-> n])]

\* Observe: nodes in the order of their identities, then pairs, then leaders.
Observe(c, at, nodes) ==
  LET N == Cardinality(Server)
      history[k \in 0..N] == IF k = 0 THEN c ELSE checkNode(history[k - 1], at, k, nodes[k])
      leaders[k \in 0..N] ==
        IF k = 0 THEN add(history[N], at, checkLogs(nodes)) ELSE checkLeaderNode(leaders[k - 1], at, k, nodes[k])
  IN leaders[N]
=============================================================================
