--------------------------- MODULE CheckedHistory ---------------------------
(***************************************************************************)
(* The checker under an implementation that may do anything: every event   *)
(* changes one node, rightly or wrongly, and is followed by an observation *)
(* of all nodes, as Cluster.observe does.  The set of everything that was  *)
(* ever seen is kept beside the checker, to say what it should report.     *)
(***************************************************************************)
EXTENDS Checker

CONSTANTS
  Entries,              \* entries without their terms, that may be appended
  Electing,             \* configurations that may elect a leader
  Starts,               \* the node every node may start as
  Steps, MaxTerm, MaxLog  \* bounds of the events, the terms and the log

\* The entries that a log can hold, and what can be observed of a node.
Logged == {[e EXCEPT !.term = t] : e \in Entries, t \in 1..MaxTerm}
Observable ==
  [up : BOOLEAN, term : 1..MaxTerm, votedFor : Server \cup {Nil}, commit : Nat, log : Seq(Logged),
   snap : [index : Nat, term : Nat, data : BOOLEAN,
           membership : {NoMembership} \cup {m \in Membership : validateMembership(m)}],
   appliedIndex : Nat, applied : Seq(Logged),
   leader : BOOLEAN, awaiting : BOOLEAN, statusTerm : Nat, statusVote : Server \cup {Nil}, statusCommit : Nat,
   elected : Membership]

ASSUME EntriesAssumption == \A e \in Entries : DOMAIN e = {"term", "type", "data", "membership"}
ASSUME ElectingAssumption == Electing \subseteq Membership
ASSUME BoundsAssumption == Steps \in Nat /\ MaxTerm \in Nat
ASSUME StartsAssumption == \A o \in Starts : o \in Observable /\ o.statusTerm <= MaxTerm

VARIABLES
  nodes,        \* [Server -> observed node]
  checker,
  facts,        \* what was observed, ever
  now           \* observations so far

vars == <<nodes, checker, facts, now>>
-----------------------------------------------------------------------------
(* Everything seen, as sets: nothing is first or last in them.             *)

NoFacts ==
  [led |-> {}, voted |-> {}, committed |-> {}, applied |-> {}, snapshots |-> {},
   terms |-> {}, commits |-> {}, appliedTo |-> {}, broken |-> {}, missing |-> {}, uncertified |-> {}]

\* Two different things of the same key were seen.
Conflict(S) == \E x, y \in S : x[1] = y[1] /\ x[2] # y[2]

\* What is wrong with one observation alone, or next to the earlier ones.
Below(S, n, value) == \E x \in S : x[1] = n /\ x[2] > value

\* Log matching as it is stated: the same term at an index, the same log up
\* to it, where both logs still have it.
LogsDisagree(l, r) ==
  \E i \in held(l) \cap held(r) :
     /\ entryAt(l, i).term = entryAt(r, i).term
     /\ \E j \in held(l) \cap held(r) : j <= i /\ entryAt(l, j) # entryAt(r, j)

\* The configurations of a log, each with the one before it and nothing else in
\* its entry; no other entry carries one.
ConfigsBroken(o) ==
  LET configs == {k \in DOMAIN o.log : o.log[k].type \in {"joint", "final"}}
      start == IF o.snap.index > 0 /\ o.snap.membership # NoMembership THEN o.snap.membership ELSE Initial
      before(k) == LET earlier == {j \in configs : j < k}
                   IN IF earlier = {} THEN start
                      ELSE o.log[CHOOSE j \in earlier : \A i \in earlier : i <= j].membership
  IN \E k \in DOMAIN o.log :
       CASE o.log[k].type = "joint" -> o.log[k].data # NoData \/ ~jointTransitionOK(before(k), o.log[k].membership)
         [] o.log[k].type = "final" -> o.log[k].data # NoData \/ ~finalTransitionOK(before(k), o.log[k].membership)
         [] OTHER -> o.log[k].membership # NoMembership

Wrong(f, ns) ==
  {x \in {"durable-term-monotonic", "commit-monotonic", "applied-monotonic", "volatile-durable-match",
          "log-matching", "membership-transition"} :
     \E n \in Server :
        CASE x = "durable-term-monotonic" -> Below(f.terms, n, ns[n].term)
          [] x = "commit-monotonic" -> Below(f.commits, n, ns[n].commit)
          [] x = "applied-monotonic" -> Below(f.appliedTo, n, ns[n].appliedIndex)
          [] x = "volatile-durable-match" -> ns[n].up /\ ~ns[n].awaiting /\ liveState(ns[n]) # hardState(ns[n])
          [] x = "log-matching" -> \E m \in Server \ {n} : LogsDisagree(ns[n], ns[m])
          [] x = "membership-transition" -> ConfigsBroken(ns[n])}

\* Leaders without an entry that was seen committed above their snapshot.
Missing(f, ns) ==
  UNION {{<<ns[n].statusTerm, x>> :
            x \in {y \in f.committed : y[1] > ns[n].snap.index
                                      /\ (y[1] \notin held(ns[n]) \/ entryAt(ns[n], y[1]) # y[2])}} :
         n \in {m \in Server : isLeader(ns[m])}}

\* Leaders no quorum of the configuration that elected them was seen to vote for,
\* or that no valid configuration elected.
Uncertified(f, ns) ==
  {<<n, ns[n].statusTerm>> :
     n \in {m \in Server : isLeader(ns[m]) /\
             \/ ~validateMembership(electedBy(ns[m]))
             \/ ~quorum(electedBy(ns[m]), {v \in Server : <<<<v, ns[m].statusTerm>>, m>> \in f.voted})}}

\* One observation more.
Seen(f, ns) ==
  LET g == [f EXCEPT
        !.led = @ \cup {<<ns[n].statusTerm, n>> : n \in {m \in Server : isLeader(ns[m])}},
        !.voted = @ \cup {<<<<n, ns[n].term>>, ns[n].votedFor>> : n \in {m \in Server : ns[m].votedFor # Nil}},
        !.committed = @ \cup UNION {{<<i, entryAt(ns[n], i), ns[n].term>> : i \in committedBy(ns[n])} : n \in Server},
        !.applied = @ \cup UNION {{<<i, ns[n].applied[i]>> : i \in DOMAIN ns[n].applied} : n \in Server},
        !.snapshots = @ \cup {<<ns[n].snap.index, ns[n].snap>> : n \in {m \in Server : ns[m].snap.index > 0}},
        !.terms = @ \cup {<<n, ns[n].term>> : n \in Server},
        !.commits = @ \cup {<<n, ns[n].commit>> : n \in Server},
        !.appliedTo = @ \cup {<<n, ns[n].appliedIndex>> : n \in Server}]
  IN [g EXCEPT !.broken = @ \cup Wrong(g, ns), !.missing = @ \cup Missing(g, ns),
               !.uncertified = @ \cup Uncertified(g, ns)]

Init ==
  /\ \E s \in Starts : nodes = [n \in Server |-> s]
  /\ now = 0
  /\ checker = Observe(NoHistory, 0, nodes)
  /\ facts = Seen(NoFacts, nodes)
-----------------------------------------------------------------------------
(* What a node may do, and what it must not.                               *)

\* Cluster.observe at the end of an event.
Observed(n, o) ==
  /\ now < Steps
  /\ now' = now + 1
  /\ nodes' = [nodes EXCEPT ![n] = o]
  /\ checker' = Observe(checker, now', nodes')
  /\ facts' = Seen(facts, nodes')

\* The live state of a node that has written everything.
settled(o) == [o EXCEPT !.statusTerm = o.term, !.statusVote = o.votedFor, !.statusCommit = o.commit]

\* A term begins, or an old one comes back.
ChangeTerm(n) ==
  \E t \in {nodes[n].term - 1, nodes[n].term + 1} \cap 1..MaxTerm :
     Observed(n, settled([nodes[n] EXCEPT !.term = t, !.votedFor = Nil, !.leader = FALSE]))

Vote(n) ==
  \E v \in Server \ {nodes[n].votedFor} : Observed(n, settled([nodes[n] EXCEPT !.votedFor = v]))

\* Some configuration elects a node, or it steps down.
ChangeRole(n) ==
  \E m \in IF nodes[n].leader THEN {NoMembership} ELSE Electing :
     Observed(n, [nodes[n] EXCEPT !.leader = ~@, !.elected = m])

AppendEntry(n) ==
  /\ stateLastIndex(nodes[n]) < MaxLog
  /\ \E e \in Entries : Observed(n, [nodes[n] EXCEPT !.log = Append(@, [e EXCEPT !.term = nodes[n].term])])

Truncate(n) ==
  /\ nodes[n].log # <<>>
  /\ Observed(n, [nodes[n] EXCEPT !.log = SubSeq(@, 1, Len(@) - 1)])

ChangeCommit(n) ==
  \E i \in (nodes[n].snap.index..stateLastIndex(nodes[n])) \ {nodes[n].commit} :
     Observed(n, settled([nodes[n] EXCEPT !.commit = i]))

Apply(n) ==
  LET i == nodes[n].appliedIndex + 1
  IN /\ i \in held(nodes[n])
     /\ Observed(n, [nodes[n] EXCEPT !.appliedIndex = i, !.applied = Append(@, entryAt(nodes[n], i))])

\* The application starts over.
Forget(n) ==
  /\ nodes[n].appliedIndex > 0
  /\ Observed(n, [nodes[n] EXCEPT !.appliedIndex = 0, !.applied = <<>>])

\* A snapshot of the committed log, with the right data or not.
Compact(n) ==
  LET o == nodes[n]
  IN /\ o.commit \in held(o)
     /\ \E d \in BOOLEAN :
          Observed(n, [o EXCEPT !.snap = [index |-> o.commit, term |-> entryAt(o, o.commit).term, data |-> d,
                                          membership |-> NoMembership],
                                !.log = SubSeq(@, o.commit - o.snap.index + 1, Len(@))])

\* A write is pending: the live term runs ahead, whether the node says so; or
\* the live vote or commit index does without one.
RunAhead(n) ==
  \/ \E a \in BOOLEAN : Observed(n, [nodes[n] EXCEPT !.statusTerm = @ + 1, !.awaiting = a])
  \/ \E v \in Server \ {nodes[n].statusVote} : Observed(n, [nodes[n] EXCEPT !.statusVote = v])
  \/ Observed(n, [nodes[n] EXCEPT !.statusCommit = @ + 1])

Restart(n) == Observed(n, settled([nodes[n] EXCEPT !.up = ~@, !.awaiting = FALSE, !.leader = FALSE]))

Next ==
  \/ \E n \in Server : ChangeTerm(n)
  \/ \E n \in Server : Vote(n)
  \/ \E n \in Server : ChangeRole(n)
  \/ \E n \in Server : AppendEntry(n)
  \/ \E n \in Server : Truncate(n)
  \/ \E n \in Server : ChangeCommit(n)
  \/ \E n \in Server : Apply(n)
  \/ \E n \in Server : Forget(n)
  \/ \E n \in Server : Compact(n)
  \/ \E n \in Server : RunAhead(n)
  \/ \E n \in Server : Restart(n)

Spec == Init /\ [][Next]_vars
-----------------------------------------------------------------------------
(* What the checker promises.                                              *)

Reported == {v[1][1] : v \in checker.violations}

(* First witnesses are enough: each history invariant is reported exactly  *)
(* when two observations, at any distance, contradict it, whichever came   *)
(* first and whatever was compacted or restarted between them, and never   *)
(* otherwise (Observe and the check functions below it).                   *)
AlarmsAreExact ==
  /\ "election-safety" \in Reported <=> Conflict(facts.led)
  /\ "durable-double-vote" \in Reported <=> Conflict(facts.voted)
  /\ "committed-conflict" \in Reported <=> Conflict(facts.committed)
  /\ "applied-conflict" \in Reported <=> Conflict(facts.applied)
  /\ "snapshot-conflict" \in Reported <=> Conflict(facts.snapshots)
  /\ Reported \ {"election-safety", "durable-double-vote", "committed-conflict", "applied-conflict",
                  "snapshot-conflict", "leader-completeness", "election-certificate"} = facts.broken

(* A leader is blamed only for an entry seen committed no later than its   *)
(* term that it lacked, and for every one it lacked that was only ever     *)
(* seen committed so; and exactly the leaders that no valid configuration  *)
(* elected, or of which no quorum was seen to vote for them, lack a        *)
(* certificate, unless a voter voted twice (checkLeader).                  *)
LeaderAlarmsAreJust ==
  LET blamed == {<<v[1][3], v[1][4]>> : v \in {w \in checker.violations : w[1][1] = "leader-completeness"}}
      uncertified == {x \in Server \X (0..MaxTerm + Steps) :
                        \E v \in checker.violations :
                           v[1][1] = "election-certificate" /\ x[1] \in DOMAIN v[1][2] /\ x[2] = v[1][3]}
  IN /\ \A b \in blamed : \E m \in facts.missing : m[1] = b[1] /\ m[2][1] = b[2] /\ m[2][3] <= b[1]
     /\ \A m \in facts.missing :
          (\A x \in facts.committed : x[1] = m[2][1] => x[2] = m[2][2] /\ x[3] <= m[1]) => <<m[1], m[2][1]>> \in blamed
     /\ facts.uncertified \subseteq uncertified
     /\ Conflict(facts.voted) \/ uncertified \subseteq facts.uncertified

(* Evidence is reported once: an observation that changes nothing, however *)
(* often it is repeated, reports nothing (add, Fingerprint).               *)
ReportedOnce ==
  /\ \A v, w \in checker.violations : v[1] = w[1] => v = w
  /\ Observe(checker, now + 1, nodes) = checker
=============================================================================
