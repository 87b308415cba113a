--------------------------- MODULE CheckerProofs ---------------------------
(***************************************************************************)
(* What the online checker keeps is enough (check/check.go): for any       *)
(* number of nodes that do anything, rightly or wrongly, the alarms raised *)
(* from first witnesses are exactly those that everything ever observed    *)
(* calls for, and no evidence is reported twice.                           *)
(*                                                                         *)
(* Observe is followed node by node.  Agrees relates the history that the  *)
(* checker keeps to the facts of the nodes taken up so far; Settled says   *)
(* that a node taken up already would add nothing if it came again.        *)
(***************************************************************************)
EXTENDS CheckedHistory, FiniteSetTheorems, WellFoundedInduction, TLAPS

-----------------------------------------------------------------------------
(* The shape of a history.                                                 *)

\* What has been found, whenever it was.
Found(c) == {v[1] : v \in c.violations}
Names(c) == {x[1] : x \in Found(c)}

IsFunction(f) == f = [k \in DOMAIN f |-> f[k]]

Ledgers == {"leaders", "votes", "durableTerms", "commitIndexes", "appliedIndexes",
            "committed", "applied", "snapshots", "seen", "violations"}
IsHistory(c) == IsFunction(c) /\ DOMAIN c = Ledgers

\* Ledgers are functions, and each finding is kept once, with its fingerprint.
HistoryOK(c) ==
  /\ IsHistory(c)
  /\ IsFunction(c.leaders) /\ IsFunction(c.votes)
  /\ IsFunction(c.committed) /\ IsFunction(c.applied) /\ IsFunction(c.snapshots)
  /\ c.durableTerms \in [Server -> Nat] /\ c.commitIndexes \in [Server -> Nat]
  /\ c.appliedIndexes \in [Server -> Nat]
  /\ c.seen = {<<x, 0>> : x \in Found(c)}
  /\ \A v, w \in c.violations : v[1] = w[1] => v = w

\* Two histories with the same ledgers.
SameLedgers(c, d) ==
  /\ d.leaders = c.leaders /\ d.votes = c.votes
  /\ d.durableTerms = c.durableTerms /\ d.commitIndexes = c.commitIndexes
  /\ d.appliedIndexes = c.appliedIndexes
  /\ d.committed = c.committed /\ d.applied = c.applied /\ d.snapshots = c.snapshots

\* Adding findings adds these findings, and nothing at all if all are known.
LEMMA AddAdds ==
  ASSUME NEW c, HistoryOK(c), NEW at, NEW F
  PROVE  /\ HistoryOK(add(c, at, F)) /\ SameLedgers(c, add(c, at, F))
         /\ Found(add(c, at, F)) = Found(c) \cup F
         /\ F \subseteq Found(c) => add(c, at, F) = c
<1> DEFINE d == add(c, at, F)
           new == {y \in F : <<y, 0>> \notin c.seen}
<1>1. /\ IsHistory(c) /\ c.seen = {<<x, 0>> : x \in Found(c)}
      /\ \A v, w \in c.violations : v[1] = w[1] => v = w
  BY DEF HistoryOK
<1>2. new = F \ Found(c)
  BY <1>1
<1>3. d = [c EXCEPT !.seen = c.seen \cup {<<x, 0>> : x \in F}, !.violations = c.violations \cup {<<x, at>> : x \in new}]
  BY DEF add, fingerprint
<1> HIDE DEF new, d
<1>4. c = [k \in DOMAIN c |-> c[k]] /\ DOMAIN c = Ledgers
  BY <1>1 DEF IsHistory, IsFunction
<1>5. d.seen = c.seen \cup {<<x, 0>> : x \in F} /\ d.violations = c.violations \cup {<<x, at>> : x \in new}
  BY <1>4, <1>3 DEF Ledgers
<1>6. IsHistory(d) /\ SameLedgers(c, d)
  BY <1>4, <1>3 DEF IsHistory, IsFunction, SameLedgers, Ledgers
<1>7. Found(d) = Found(c) \cup F
  <2>1. Found(d) = {v[1] : v \in c.violations} \cup {v[1] : v \in {<<x, at>> : x \in new}}
    BY <1>5 DEF Found
  <2>2. {v[1] : v \in {<<x, at>> : x \in new}} = {<<x, at>>[1] : x \in new}
    OBVIOUS
  <2> QED BY <1>2, <2>1, <2>2 DEF Found
<1>8. \A v, w \in d.violations : v[1] = w[1] => v = w
  BY <1>1, <1>2, <1>5 DEF Found
<1>9. d.seen = {<<x, 0>> : x \in Found(d)}
  BY <1>1, <1>5, <1>7
<1>10. HistoryOK(d)
  BY <1>6, <1>8, <1>9 DEF HistoryOK, SameLedgers
<1>11. ASSUME F \subseteq Found(c) PROVE d = c
  <2>1. new = {}
    BY <1>2, <1>11
  <2>2. d.violations = c.violations
    BY <1>5, <2>1
  <2>3. d.seen = c.seen
    BY <1>1, <1>5, <1>11
  <2>4. \A k \in Ledgers : d[k] = c[k]
    BY <1>6, <2>2, <2>3 DEF SameLedgers, Ledgers
  <2> QED BY <1>1, <1>6, <2>4 DEF IsHistory, IsFunction
<1> QED BY <1>6, <1>7, <1>10, <1>11 DEF d

-----------------------------------------------------------------------------
(* One node taken up.                                                      *)

\* What is found of it.
NodeFindings(c, n, o) ==
  checkDurableHistory(c, n, o) \cup checkCommittedHistory(c, n, o) \cup checkAppliedHistory(c, n, o)
    \cup checkSnapshotHistory(c, n, o) \cup checkMembershipHistory(c, n, o)

\* What one node adds to each ledger.
VotesOf(n, o) == IF o.votedFor = Nil THEN <<>> ELSE [k \in {<<n, o.term>>} |-> o.votedFor]
CommittedOf(n, o) == [i \in committedBy(o) |-> [node |-> n, entry |-> entryAt(o, i), commitTerm |-> o.term]]
AppliedOf(n, o) == [i \in DOMAIN o.applied |-> [node |-> n, entry |-> o.applied[i]]]
SnapshotsOf(n, o) == IF o.snap.index = 0 THEN <<>> ELSE [i \in {o.snap.index} |-> [node |-> n, snap |-> o.snap]]

\* The ledgers after it.
Witnessed(c, d, n, o) ==
  /\ d.leaders = c.leaders
  /\ d.votes = keeping(c.votes, VotesOf(n, o))
  /\ d.durableTerms = [c.durableTerms EXCEPT ![n] = Greatest(@, o.term)]
  /\ d.commitIndexes = [c.commitIndexes EXCEPT ![n] = Greatest(@, o.commit)]
  /\ d.appliedIndexes = [c.appliedIndexes EXCEPT ![n] = Greatest(@, o.appliedIndex)]
  /\ d.committed = keeping(c.committed, CommittedOf(n, o))
  /\ d.applied = keeping(c.applied, AppliedOf(n, o))
  /\ d.snapshots = keeping(c.snapshots, SnapshotsOf(n, o))

\* A ledger with what another has keeps its own, and with nothing new it is the same.
LEMMA KeepingKeeps ==
  ASSUME NEW f, NEW g
  PROVE  /\ IsFunction(keeping(f, g)) /\ DOMAIN keeping(f, g) = DOMAIN f \cup DOMAIN g
         /\ \A k \in DOMAIN f : keeping(f, g)[k] = f[k]
         /\ \A k \in DOMAIN g \ DOMAIN f : keeping(f, g)[k] = g[k]
         /\ IsFunction(f) /\ DOMAIN g \subseteq DOMAIN f => keeping(f, g) = f
<1>1. /\ IsFunction(keeping(f, g)) /\ DOMAIN keeping(f, g) = DOMAIN f \cup DOMAIN g
      /\ \A k \in DOMAIN f : keeping(f, g)[k] = f[k]
      /\ \A k \in DOMAIN g \ DOMAIN f : keeping(f, g)[k] = g[k]
  BY DEF keeping, IsFunction
<1>2. ASSUME IsFunction(f), DOMAIN g \subseteq DOMAIN f PROVE keeping(f, g) = f
  <2>1. DOMAIN f \cup DOMAIN g = DOMAIN f
    BY <1>2
  <2>2. keeping(f, g) = [k \in DOMAIN f |-> IF k \in DOMAIN f THEN f[k] ELSE g[k]]
    BY <2>1 DEF keeping
  <2>3. keeping(f, g) = [k \in DOMAIN f |-> f[k]]
    BY <2>2
  <2> QED BY <1>2, <2>3 DEF IsFunction
<1> QED BY <1>1, <1>2

\* What a ledger holds after it got what another has.
LEMMA KeepingAdds ==
  ASSUME NEW f, NEW g
  PROVE  /\ DOMAIN keeping(f, g) = DOMAIN f \cup DOMAIN g
         /\ \A k \in DOMAIN f : keeping(f, g)[k] = f[k]
         /\ \A k \in DOMAIN g \ DOMAIN f : keeping(f, g)[k] = g[k]
BY DEF keeping

\* Nothing added to a ledger.
LEMMA NothingAdded ==
  ASSUME NEW f, IsFunction(f)
  PROVE  keeping(f, <<>>) = f
<1>1. DOMAIN <<>> = {}
  OBVIOUS
<1> QED BY <1>1, KeepingKeeps

\* checkNode: the findings are added and the ledgers extended.
LEMMA NodeChecked ==
  ASSUME NEW c, HistoryOK(c), NEW at, NEW n \in Server, NEW o \in Observable
  PROVE  LET d == checkNode(c, at, n, o)
         IN /\ HistoryOK(d) /\ Witnessed(c, d, n, o)
            /\ Found(d) = Found(c) \cup NodeFindings(c, n, o)
<1> DEFINE a == add(c, at, NodeFindings(c, n, o))
           d == witnessed(a, n, o)
<1>1. checkNode(c, at, n, o) = d
  BY DEF checkNode, NodeFindings
<1>2. HistoryOK(a) /\ SameLedgers(c, a) /\ Found(a) = Found(c) \cup NodeFindings(c, n, o)
  BY AddAdds
<1>3. /\ IsFunction(c.votes) /\ IsFunction(c.committed) /\ IsFunction(c.applied) /\ IsFunction(c.snapshots)
      /\ c.durableTerms \in [Server -> Nat] /\ c.commitIndexes \in [Server -> Nat]
      /\ c.appliedIndexes \in [Server -> Nat] /\ IsFunction(c.leaders)
  BY DEF HistoryOK
<1> HIDE DEF a
<1>4. IsHistory(a)
  BY <1>2 DEF HistoryOK
<1>5. a = [k \in DOMAIN a |-> a[k]] /\ DOMAIN a = Ledgers
  BY <1>4 DEF IsHistory, IsFunction
<1>6. IsHistory(d) /\ d.seen = a.seen /\ d.violations = a.violations /\ d.leaders = a.leaders
  <2>1. DOMAIN d = Ledgers
    BY <1>5 DEF witnessed
  <2>2. IsFunction(d)
    BY <1>5 DEF witnessed, IsFunction
  <2>3. d.seen = a.seen /\ d.violations = a.violations /\ d.leaders = a.leaders
    BY <1>5 DEF witnessed, Ledgers
  <2> QED BY <2>1, <2>2, <2>3 DEF IsHistory
<1>7. d.votes = keeping(a.votes, VotesOf(n, o))
  <2>1. d.votes = IF o.votedFor = Nil THEN a.votes ELSE keeping(a.votes, [k \in {<<n, o.term>>} |-> o.votedFor])
    BY <1>5 DEF witnessed, Ledgers
  <2> HIDE DEF d
  <2>2. CASE o.votedFor = Nil
    BY <1>2, <1>3, <2>1, <2>2, NothingAdded DEF VotesOf, SameLedgers
  <2>3. CASE o.votedFor # Nil
    BY <2>1, <2>3 DEF VotesOf
  <2> QED BY <2>2, <2>3
<1>8. d.snapshots = keeping(a.snapshots, SnapshotsOf(n, o))
  <2>1. d.snapshots = IF o.snap.index = 0 THEN a.snapshots
                      ELSE keeping(a.snapshots, [i \in {o.snap.index} |-> [node |-> n, snap |-> o.snap]])
    BY <1>5 DEF witnessed, Ledgers
  <2> HIDE DEF d
  <2>2. CASE o.snap.index = 0
    BY <1>2, <1>3, <2>1, <2>2, NothingAdded DEF SnapshotsOf, SameLedgers
  <2>3. CASE o.snap.index # 0
    BY <2>1, <2>3 DEF SnapshotsOf
  <2> QED BY <2>2, <2>3
<1>9. d.committed = keeping(a.committed, CommittedOf(n, o)) /\ d.applied = keeping(a.applied, AppliedOf(n, o))
  <2>1. d.committed = committedHistory(a, n, o)
    BY <1>5 DEF witnessed, Ledgers
  <2>2. d.applied = keeping(a.applied, AppliedOf(n, o))
    BY <1>5 DEF witnessed, Ledgers, AppliedOf
  <2> QED BY <2>1, <2>2 DEF committedHistory, CommittedOf
<1>10. /\ d.durableTerms = [a.durableTerms EXCEPT ![n] = Greatest(@, o.term)]
       /\ d.commitIndexes = [a.commitIndexes EXCEPT ![n] = Greatest(@, o.commit)]
       /\ d.appliedIndexes = [a.appliedIndexes EXCEPT ![n] = Greatest(@, o.appliedIndex)]
  <2>1. d.durableTerms = [a.durableTerms EXCEPT ![n] = Greatest(@, o.term)]
    BY <1>5 DEF witnessed, Ledgers
  <2>2. d.commitIndexes = [a.commitIndexes EXCEPT ![n] = Greatest(@, o.commit)]
    BY <1>5 DEF witnessed, Ledgers
  <2>3. d.appliedIndexes = [a.appliedIndexes EXCEPT ![n] = Greatest(@, o.appliedIndex)]
    BY <1>5 DEF witnessed, Ledgers
  <2> QED BY <2>1, <2>2, <2>3
<1> HIDE DEF d
<1>11. Witnessed(c, d, n, o)
  BY <1>2, <1>6, <1>7, <1>8, <1>9, <1>10 DEF Witnessed, SameLedgers
<1>12. o.term \in Nat /\ o.commit \in Nat /\ o.appliedIndex \in Nat
  BY BoundsAssumption DEF Observable
<1>13. /\ d.durableTerms \in [Server -> Nat] /\ d.commitIndexes \in [Server -> Nat]
       /\ d.appliedIndexes \in [Server -> Nat]
  <2>1. \A x, y \in Nat : Greatest(x, y) \in Nat
    BY DEF Greatest
  <2>2. /\ c.durableTerms[n] \in Nat /\ c.commitIndexes[n] \in Nat /\ c.appliedIndexes[n] \in Nat
    BY <1>3
  <2> QED BY <1>3, <1>11, <1>12, <2>1, <2>2 DEF Witnessed
<1>14. Found(d) = Found(a)
  BY <1>6 DEF Found
<1>15. IsFunction(d.votes) /\ IsFunction(d.committed) /\ IsFunction(d.applied) /\ IsFunction(d.snapshots)
  <2>1. \A f, g : IsFunction(keeping(f, g))
    BY KeepingKeeps
  <2> QED BY <1>11, <2>1 DEF Witnessed
<1>16. IsFunction(d.leaders)
  BY <1>3, <1>11 DEF Witnessed
<1>17. HistoryOK(d)
  BY <1>2, <1>6, <1>13, <1>14, <1>15, <1>16 DEF HistoryOK
<1> QED BY <1>1, <1>2, <1>11, <1>14, <1>17

-----------------------------------------------------------------------------
(* The configurations of a log.                                            *)

\* Every nonempty set of naturals has a least element.
LEMMA LeastElement ==
  ASSUME NEW T, T \subseteq Nat, T # {}
  PROVE  \E x \in T : \A y \in T : x <= y
<1>1. PICK x \in T : \A y \in T : ~(<<y, x>> \in OpToRel(<, Nat))
  BY WFMin, NatLessThanWellFounded
<1>2. \A y \in T : ~(y < x)
  BY <1>1 DEF OpToRel
<1> QED BY <1>2

\* The recursion of checkMembershipHistory.
StartOf(o) == IF o.snap.index > 0 /\ o.snap.membership # NoMembership THEN o.snap.membership ELSE Initial
Configures(e) == e.type \in {"joint", "final"}
Transits(m, e) ==
  CASE e.type = "joint" -> e.data = NoData /\ jointTransitionOK(m, e.membership)
    [] e.type = "final" -> e.data = NoData /\ finalTransitionOK(m, e.membership)
    [] OTHER -> e.membership = NoMembership
EvidenceOf(o, m, k) ==
  IF k = 0 THEN <<m>>
  ELSE IF o.log[k].type \in {"joint", "final"} THEN <<o.snap.index + k, o.log[k], m>>
  ELSE <<o.snap.index + k, o.log[k]>>
\* What such a run reports when it ends.
Refusal(n, o, r) == {<<"membership-transition", names(<<n>>), EvidenceOf(o, r.m, k)>> : k \in r.bad}
runStart(o) == [m |-> StartOf(o), bad |-> IF validateMembership(StartOf(o)) THEN {} ELSE {0}]
runStep(o, r, k) ==
  IF r.bad # {} THEN r
  ELSE IF ~Transits(r.m, o.log[k]) THEN [r EXCEPT !.bad = {k}]
  ELSE IF Configures(o.log[k]) THEN [r EXCEPT !.m = o.log[k].membership]
  ELSE r
RunOf(o, f) == f = [k \in 0..Len(o.log) |-> IF k = 0 THEN runStart(o) ELSE runStep(o, f[k - 1], k)]

\* The recursion over a log has a solution.
LEMMA RunExists ==
  ASSUME NEW o, Len(o.log) \in Nat
  PROVE  \E f : RunOf(o, f)
<1> DEFINE n == Len(o.log)
           upTo(d, f) == f[0] = runStart(o) /\ \A k \in 1..d : f[k] = runStep(o, f[k - 1], k)
           T == {d \in Nat : ~\E f : upTo(d, f)}
<1>1. T = {}
  <2> SUFFICES ASSUME T # {} PROVE FALSE
    OBVIOUS
  <2>1. T \subseteq Nat
    OBVIOUS
  <2> HIDE DEF T
  <2>2. PICK d \in T : \A y \in T : d <= y
    BY <2>1, LeastElement
  <2>3. d \in Nat /\ ~\E f : upTo(d, f)
    BY <2>2 DEF T
  <2>4. CASE d = 0
    <3>1. upTo(0, [k \in {0} |-> runStart(o)])
      OBVIOUS
    <3> QED BY <2>3, <2>4, <3>1
  <2>5. CASE d # 0
    <3>1. d - 1 \in Nat /\ d - 1 \notin T
      BY <2>2, <2>3, <2>5
    <3>2. PICK f : upTo(d - 1, f)
      BY <3>1 DEF T
    <3> DEFINE g == [k \in 0..d |-> IF k = d THEN runStep(o, f[d - 1], d) ELSE f[k]]
    <3>3. g[0] = runStart(o)
      BY <2>3, <2>5, <3>2
    <3>4. ASSUME NEW k \in 1..d PROVE g[k] = runStep(o, g[k - 1], k)
      <4>1. k - 1 \in 0..d /\ k \in 0..d /\ k - 1 # d /\ (k # d => k \in 1..(d - 1))
        BY <2>3
      <4>2. g[k - 1] = f[k - 1] /\ g[k] = IF k = d THEN runStep(o, f[d - 1], d) ELSE f[k]
        BY <4>1
      <4> QED BY <3>2, <4>1, <4>2
    <3> QED BY <2>3, <3>3, <3>4
  <2> QED BY <2>4, <2>5
<1>2. PICK f : upTo(n, f)
  BY <1>1
<1> DEFINE g == [k \in 0..n |-> f[k]]
<1>3. ASSUME NEW k \in 0..n PROVE g[k] = IF k = 0 THEN runStart(o) ELSE runStep(o, g[k - 1], k)
  BY <1>2
<1>4. g = [k \in 0..n |-> g[k]]
  OBVIOUS
<1> HIDE DEF g
<1>5. g = [k \in 0..n |-> IF k = 0 THEN runStart(o) ELSE runStep(o, g[k - 1], k)]
  BY <1>3, <1>4
<1> QED BY <1>5 DEF RunOf

\* checkMembershipHistory reports what that solution found bad.
LEMMA CheckIsRun ==
  ASSUME NEW c, NEW n, NEW o, Len(o.log) \in Nat
  PROVE  \E f : /\ RunOf(o, f)
                /\ checkMembershipHistory(c, n, o) = Refusal(n, o, f[Len(o.log)])
<1> DEFINE eq(f) ==
             f = [k \in 0..Len(o.log) |->
                    IF k = 0 THEN [m |-> StartOf(o), bad |-> IF validateMembership(StartOf(o)) THEN {} ELSE {0}]
                    ELSE LET r == f[k - 1]
                         IN IF r.bad # {} THEN r
                            ELSE IF ~Transits(r.m, o.log[k]) THEN [r EXCEPT !.bad = {k}]
                            ELSE IF o.log[k].type \in {"joint", "final"} THEN [r EXCEPT !.m = o.log[k].membership]
                            ELSE r]
           run == CHOOSE f : eq(f)
<1>1. checkMembershipHistory(c, n, o) = Refusal(n, o, run[Len(o.log)])
  BY DEF checkMembershipHistory, StartOf, Transits, EvidenceOf, Refusal
<1>2. \A f : eq(f) <=> RunOf(o, f)
  BY DEF RunOf, runStart, runStep, Configures
<1>3. PICK f : RunOf(o, f)
  BY RunExists
<1>4. eq(run)
  <2> HIDE DEF eq
  <2>1. eq(f)
    BY <1>2, <1>3
  <2> QED BY <2>1
<1>5. RunOf(o, run)
  BY <1>2, <1>4
<1> HIDE DEF run
<1> QED BY <1>1, <1>5

\* The configuration before an entry, and an entry that may not follow it.
EarlierConfigs(o, k) == {j \in DOMAIN o.log : Configures(o.log[j]) /\ j < k}
Latest(S) == CHOOSE j \in S : \A i \in S : i <= j
Before(o, k) ==
  IF EarlierConfigs(o, k) = {} THEN StartOf(o) ELSE o.log[Latest(EarlierConfigs(o, k))].membership
BrokenAt(o, k) == ~Transits(Before(o, k), o.log[k])

\* A configuration is broken when some entry of the log does not follow.
LEMMA BrokenSomewhere ==
  ASSUME NEW o
  PROVE  ConfigsBroken(o) <=> \E k \in DOMAIN o.log : BrokenAt(o, k)
<1> DEFINE configs == {k \in DOMAIN o.log : o.log[k].type \in {"joint", "final"}}
           before(k) == LET earlier == {j \in configs : j < k}
                        IN IF earlier = {} THEN StartOf(o)
                           ELSE o.log[CHOOSE j \in earlier : \A i \in earlier : i <= j].membership
<1>1. \A k : {j \in configs : j < k} = EarlierConfigs(o, k)
  BY DEF EarlierConfigs, Configures
<1>2. \A k : before(k) = Before(o, k)
  <2> SUFFICES ASSUME NEW k PROVE before(k) = Before(o, k)
    OBVIOUS
  <2> DEFINE S == {j \in configs : j < k}
  <2>1. before(k) = IF S = {} THEN StartOf(o) ELSE o.log[Latest(S)].membership
    BY DEF Latest
  <2>2. S = EarlierConfigs(o, k)
    BY <1>1
  <2> HIDE DEF S, before
  <2> QED BY <2>1, <2>2 DEF Before
<1>3. ConfigsBroken(o) <=>
        \E k \in DOMAIN o.log :
          CASE o.log[k].type = "joint" -> o.log[k].data # NoData \/ ~jointTransitionOK(before(k), o.log[k].membership)
            [] o.log[k].type = "final" -> o.log[k].data # NoData \/ ~finalTransitionOK(before(k), o.log[k].membership)
            [] OTHER -> o.log[k].membership # NoMembership
  BY DEF ConfigsBroken, StartOf
<1> HIDE DEF before
<1>4. ASSUME NEW k \in DOMAIN o.log
      PROVE  BrokenAt(o, k) <=>
               CASE o.log[k].type = "joint" -> o.log[k].data # NoData \/ ~jointTransitionOK(before(k), o.log[k].membership)
                 [] o.log[k].type = "final" -> o.log[k].data # NoData \/ ~finalTransitionOK(before(k), o.log[k].membership)
                 [] OTHER -> o.log[k].membership # NoMembership
  <2>1. CASE o.log[k].type = "joint"
    BY <1>2, <2>1 DEF BrokenAt, Transits
  <2>2. CASE o.log[k].type = "final"
    BY <1>2, <2>2 DEF BrokenAt, Transits
  <2>3. CASE o.log[k].type # "joint" /\ o.log[k].type # "final"
    BY <2>3 DEF BrokenAt, Transits
  <2> QED BY <2>1, <2>2, <2>3
<1> QED BY <1>3, <1>4

\* The configuration before the next entry, from the one before this entry.
LEMMA BeforeNext ==
  ASSUME NEW o, NEW n \in Nat, DOMAIN o.log = 1..n, NEW k \in 0..n
  PROVE  Before(o, k + 1) = IF k = 0 THEN StartOf(o)
                            ELSE IF Configures(o.log[k]) THEN o.log[k].membership
                            ELSE Before(o, k)
<1>1. CASE k = 0
  <2>1. EarlierConfigs(o, k + 1) = {}
    BY <1>1 DEF EarlierConfigs
  <2> QED BY <1>1, <2>1 DEF Before
<1>2. CASE k # 0 /\ Configures(o.log[k])
  <2>1. k \in EarlierConfigs(o, k + 1) /\ \A i \in EarlierConfigs(o, k + 1) : i <= k /\ i \in Nat
    BY <1>2 DEF EarlierConfigs
  <2> DEFINE j == Latest(EarlierConfigs(o, k + 1))
  <2>2. j \in EarlierConfigs(o, k + 1) /\ \A i \in EarlierConfigs(o, k + 1) : i <= j
    BY <2>1 DEF Latest
  <2> HIDE DEF j
  <2>3. j = k
    BY <2>1, <2>2
  <2>4. Before(o, k + 1) = o.log[j].membership
    BY <2>1 DEF Before, j
  <2> QED BY <1>2, <2>3, <2>4
<1>3. CASE k # 0 /\ ~Configures(o.log[k])
  <2>1. EarlierConfigs(o, k + 1) = EarlierConfigs(o, k)
    BY <1>3 DEF EarlierConfigs
  <2> QED BY <1>3, <2>1 DEF Before
<1> QED BY <1>1, <1>2, <1>3

\* A step that only moves on to the next configuration.
LEMMA MovesOn ==
  ASSUME NEW a, NEW b
  PROVE  [[m |-> a, bad |-> {}] EXCEPT !.m = b] = [m |-> b, bad |-> {}]
<1> DEFINE r == [m |-> a, bad |-> {}]
<1>1. r.m = a /\ r.bad = {} /\ DOMAIN r = {"m", "bad"}
  OBVIOUS
<1> QED BY <1>1

\* Up to the first entry that may not stand where it stands, the recursion has
\* the configuration before the next one.
LEMMA RunFollows ==
  ASSUME NEW o, NEW n \in Nat, Len(o.log) = n, DOMAIN o.log = 1..n, NEW f, RunOf(o, f),
         validateMembership(StartOf(o)), NEW k \in 0..n
  PROVE  \/ f[k].bad = {} /\ (\A j \in 1..k : ~BrokenAt(o, j))
         \/ \E j \in 1..k : f[k].bad = {j} /\ BrokenAt(o, j)
<1> DEFINE good(i) == f[i] = [m |-> Before(o, i + 1), bad |-> {}] /\ \A j \in 1..i : ~BrokenAt(o, j)
           stopped(i) == \E j \in 1..i : f[i].bad = {j} /\ BrokenAt(o, j)
           T == {i \in 0..n : ~good(i) /\ ~stopped(i)}
<1>1. \A i \in 0..n : f[i] = IF i = 0 THEN runStart(o) ELSE runStep(o, f[i - 1], i)
  BY DEF RunOf
<1>2. T = {}
  <2> SUFFICES ASSUME T # {} PROVE FALSE
    OBVIOUS
  <2>1. T \subseteq Nat
    OBVIOUS
  <2> HIDE DEF T
  <2>2. PICK i \in T : \A y \in T : i <= y
    BY <2>1, LeastElement
  <2>3. i \in 0..n /\ ~good(i) /\ ~stopped(i)
    BY <2>2 DEF T
  <2>4. CASE i = 0
    <3>1. f[0] = runStart(o)
      BY <1>1
    <3>2. f[0] = [m |-> StartOf(o), bad |-> {}]
      BY <3>1 DEF runStart
    <3>3. Before(o, 0 + 1) = StartOf(o)
      BY BeforeNext
    <3> QED BY <2>3, <2>4, <3>2, <3>3
  <2>5. CASE i # 0
    <3>1. i - 1 \in 0..n /\ i \in 1..n /\ (i - 1) + 1 = i
      BY <2>3, <2>5
    <3>2. i - 1 \notin T
      BY <2>2, <2>3, <3>1
    <3>3. good(i - 1) \/ stopped(i - 1)
      BY <3>1, <3>2 DEF T
    <3>4. f[i] = runStep(o, f[i - 1], i)
      BY <1>1, <2>3, <2>5
    <3>5. CASE stopped(i - 1)
      <4>1. PICK j \in 1..(i - 1) : f[i - 1].bad = {j} /\ BrokenAt(o, j)
        BY <3>5
      <4>2. f[i] = f[i - 1]
        BY <3>4, <4>1 DEF runStep
      <4>3. j \in 1..i
        BY <3>1
      <4> QED BY <2>3, <4>1, <4>2, <4>3
    <3>6. CASE good(i - 1)
      <4>1. f[i - 1] = [m |-> Before(o, i), bad |-> {}] /\ \A j \in 1..(i - 1) : ~BrokenAt(o, j)
        BY <3>1, <3>6
      <4>2. f[i - 1].m = Before(o, i) /\ f[i - 1].bad = {}
        BY <4>1
      <4>3. CASE BrokenAt(o, i)
        <5>1. f[i] = [f[i - 1] EXCEPT !.bad = {i}]
          BY <3>4, <4>2, <4>3 DEF runStep, BrokenAt
        <5>2. f[i].bad = {i}
          BY <4>1, <5>1
        <5> QED BY <2>3, <3>1, <4>3, <5>2
      <4>4. CASE ~BrokenAt(o, i)
        <5>1. f[i] = IF Configures(o.log[i]) THEN [f[i - 1] EXCEPT !.m = o.log[i].membership] ELSE f[i - 1]
          BY <3>4, <4>2, <4>4 DEF runStep, BrokenAt
        <5>2. Before(o, i + 1) = IF Configures(o.log[i]) THEN o.log[i].membership ELSE Before(o, i)
          BY <2>3, <2>5, BeforeNext
        <5>3. f[i] = [m |-> Before(o, i + 1), bad |-> {}]
          <6>1. CASE Configures(o.log[i])
            <7>1. f[i] = [f[i - 1] EXCEPT !.m = o.log[i].membership]
              BY <5>1, <6>1
            <7>2. [[m |-> Before(o, i), bad |-> {}] EXCEPT !.m = o.log[i].membership]
                    = [m |-> o.log[i].membership, bad |-> {}]
              BY MovesOn
            <7> QED BY <4>1, <5>2, <6>1, <7>1, <7>2
          <6>2. CASE ~Configures(o.log[i])
            BY <4>1, <5>1, <5>2, <6>2
          <6> QED BY <6>1, <6>2
        <5>4. \A j \in 1..i : ~BrokenAt(o, j)
          BY <3>1, <4>1, <4>4
        <5> QED BY <2>3, <5>3, <5>4
      <4> QED BY <4>3, <4>4
    <3> QED BY <3>3, <3>5, <3>6
  <2> QED BY <2>4, <2>5
<1>3. good(k) \/ stopped(k)
  BY <1>2
<1> QED BY <1>3

\* What checkMembershipHistory finds.
LEMMA MembershipChecked ==
  ASSUME NEW c, NEW n, NEW o \in Observable
  PROVE  /\ checkMembershipHistory(c, n, o) # {} <=> ConfigsBroken(o)
         /\ \A x \in checkMembershipHistory(c, n, o) : x[1] = "membership-transition"
         /\ \A d : checkMembershipHistory(d, n, o) = checkMembershipHistory(c, n, o)
<1>1. o.log \in Seq(Logged) /\ Len(o.log) \in Nat /\ DOMAIN o.log = 1..Len(o.log)
  BY DEF Observable
<1>2. validateMembership(StartOf(o))
  BY InitialAssumption DEF Observable, StartOf
<1>3. PICK f : /\ RunOf(o, f)
               /\ checkMembershipHistory(c, n, o) = Refusal(n, o, f[Len(o.log)])
  BY <1>1, CheckIsRun
<1>4. \/ f[Len(o.log)].bad = {} /\ (\A j \in 1..Len(o.log) : ~BrokenAt(o, j))
      \/ \E j \in 1..Len(o.log) : f[Len(o.log)].bad = {j} /\ BrokenAt(o, j)
  BY <1>1, <1>2, <1>3, RunFollows
<1>5. ConfigsBroken(o) <=> \E k \in 1..Len(o.log) : BrokenAt(o, k)
  BY <1>1, BrokenSomewhere
<1>6. checkMembershipHistory(c, n, o) # {} <=> f[Len(o.log)].bad # {}
  BY <1>3 DEF Refusal
<1>7. \A d : checkMembershipHistory(d, n, o) = checkMembershipHistory(c, n, o)
  BY DEF checkMembershipHistory
<1>8. \A x \in checkMembershipHistory(c, n, o) : x[1] = "membership-transition"
  BY <1>3 DEF Refusal
<1>9. f[Len(o.log)].bad # {} <=> ConfigsBroken(o)
  BY <1>4, <1>5
<1> QED BY <1>6, <1>7, <1>8, <1>9

-----------------------------------------------------------------------------
(* First witnesses and highest values.                                     *)

\* f holds one value of each key that S has.
First(f, S) ==
  /\ \A x \in S : x[1] \in DOMAIN f
  /\ \A k \in DOMAIN f : \E x \in S : x[1] = k /\ x[2] = f[k]

\* T has one value of each key; a value of T that is not the first of its key.
OnePerKey(T) == \A x, y \in T : x[1] = y[1] => x[2] = y[2]
Clash(f, T) == \E x \in T : x[1] \in DOMAIN f /\ f[x[1]] # x[2]

\* Nothing is lost by keeping the first one: a conflict in S is one with it.
LEMMA FirstKept ==
  ASSUME NEW f, NEW S, First(f, S), NEW g, NEW T, First(g, T), OnePerKey(T)
  PROVE  /\ First(keeping(f, g), S \cup T)
         /\ Conflict(S \cup T) <=> Conflict(S) \/ Clash(f, T)
<1> DEFINE h == keeping(f, g)
<1>1. /\ DOMAIN h = DOMAIN f \cup DOMAIN g
      /\ \A k \in DOMAIN f : h[k] = f[k]
      /\ \A k \in DOMAIN g \ DOMAIN f : h[k] = g[k]
  BY KeepingAdds
<1> HIDE DEF h
<1>2. First(h, S \cup T)
  <2>1. ASSUME NEW k \in DOMAIN h PROVE \E x \in S \cup T : x[1] = k /\ x[2] = h[k]
    <3>1. CASE k \in DOMAIN f
      BY <1>1, <3>1 DEF First
    <3>2. CASE k \notin DOMAIN f
      BY <1>1, <2>1, <3>2 DEF First
    <3> QED BY <3>1, <3>2
  <2>2. ASSUME NEW x \in S \cup T PROVE x[1] \in DOMAIN h
    BY <1>1, <2>2 DEF First
  <2> QED BY <2>1, <2>2 DEF First
<1>3. ASSUME Conflict(S \cup T), ~Conflict(S) PROVE Clash(f, T)
  <2>1. PICK x \in S \cup T, y \in S \cup T : x[1] = y[1] /\ x[2] # y[2]
    BY <1>3 DEF Conflict
  <2>2. ASSUME NEW p \in S, NEW q \in T, p[1] = q[1], p[2] # q[2]
        PROVE  q[1] \in DOMAIN f /\ f[q[1]] # q[2]
    <3>1. q[1] \in DOMAIN f
      BY <2>2 DEF First
    <3>2. PICK w \in S : w[1] = q[1] /\ w[2] = f[q[1]]
      BY <3>1 DEF First
    <3>3. w[2] = p[2]
      BY <1>3, <2>2, <3>2 DEF Conflict
    <3> QED BY <2>2, <3>1, <3>2, <3>3
  <2>3. ~(x \in S /\ y \in S)
    BY <1>3, <2>1 DEF Conflict
  <2>4. ~(x \in T /\ y \in T)
    BY <2>1 DEF OnePerKey
  <2> QED BY <2>1, <2>2, <2>3, <2>4 DEF Clash
<1>4. ASSUME Clash(f, T) PROVE Conflict(S \cup T)
  <2>1. PICK x \in T : x[1] \in DOMAIN f /\ f[x[1]] # x[2]
    BY <1>4 DEF Clash
  <2>2. PICK w \in S : w[1] = x[1] /\ w[2] = f[x[1]]
    BY <2>1 DEF First
  <2> QED BY <2>1, <2>2 DEF Conflict
<1>5. Conflict(S) => Conflict(S \cup T)
  BY DEF Conflict
<1> QED BY <1>2, <1>3, <1>4, <1>5 DEF h

\* m[n] is the highest value S has of n.
Highest(m, S) ==
  /\ \A x \in S : x[2] \in Nat
  /\ \A n \in Server : /\ \A x \in S : x[1] = n => x[2] <= m[n]
                       /\ m[n] = 0 \/ \E x \in S : x[1] = n /\ x[2] = m[n]

\* A highest value kept says whether a new one is below an old one, also after it.
LEMMA HighestValue ==
  ASSUME NEW m \in [Server -> Nat], NEW S, Highest(m, S), NEW n \in Server, NEW v \in Nat
  PROVE  /\ Below(S, n, v) <=> v < m[n]
         /\ Highest([m EXCEPT ![n] = Greatest(@, v)], S \cup {<<n, v>>})
<1> DEFINE g == [m EXCEPT ![n] = Greatest(@, v)]
<1>1. Below(S, n, v) <=> v < m[n]
  <2>1. m[n] \in Nat
    OBVIOUS
  <2>2. ASSUME Below(S, n, v) PROVE v < m[n]
    <3>1. PICK x \in S : x[1] = n /\ x[2] > v
      BY <2>2 DEF Below
    <3>2. x[2] \in Nat /\ x[2] <= m[n]
      BY <3>1 DEF Highest
    <3> QED BY <2>1, <3>1, <3>2
  <2>3. ASSUME v < m[n] PROVE Below(S, n, v)
    <3>1. m[n] # 0
      BY <2>1, <2>3
    <3>2. PICK x \in S : x[1] = n /\ x[2] = m[n]
      BY <3>1 DEF Highest
    <3> QED BY <2>1, <2>3, <3>2 DEF Below
  <2> QED BY <2>2, <2>3
<1>2. g[n] \in Nat /\ g[n] >= m[n] /\ g[n] >= v /\ (g[n] = m[n] \/ g[n] = v)
  BY DEF Greatest
<1>3. \A k \in Server : k # n => g[k] = m[k]
  OBVIOUS
<1> HIDE DEF g
<1>4. <<n, v>>[1] = n /\ <<n, v>>[2] = v
  OBVIOUS
<1>5. ASSUME NEW x \in S \cup {<<n, v>>} PROVE x[2] \in Nat
  BY <1>4, <1>5 DEF Highest
<1>6. ASSUME NEW k \in Server, NEW x \in S \cup {<<n, v>>}, x[1] = k PROVE x[2] <= g[k]
  <2>1. CASE x \in S
    <3>1. x[2] \in Nat /\ x[2] <= m[k] /\ m[k] \in Nat
      BY <1>6, <2>1 DEF Highest
    <3> QED BY <1>2, <1>3, <3>1
  <2>2. CASE x = <<n, v>>
    BY <1>2, <1>4, <1>6, <2>2
  <2> QED BY <1>6, <2>1, <2>2
<1>7. ASSUME NEW k \in Server PROVE g[k] = 0 \/ \E x \in S \cup {<<n, v>>} : x[1] = k /\ x[2] = g[k]
  <2>1. CASE g[k] = m[k]
    BY <2>1 DEF Highest
  <2>2. CASE g[k] # m[k]
    <3>1. k = n /\ g[n] = v
      BY <1>2, <1>3, <2>2
    <3> QED BY <1>4, <3>1
  <2> QED BY <2>1, <2>2
<1>8. Highest(g, S \cup {<<n, v>>})
  BY <1>5, <1>6, <1>7 DEF Highest
<1> QED BY <1>1, <1>8 DEF g

-----------------------------------------------------------------------------
(* What is found of one node.                                              *)

\* What a node says against the first witnesses.
VoteClash(c, n, o) == o.votedFor # Nil /\ <<n, o.term>> \in DOMAIN c.votes /\ c.votes[<<n, o.term>>] # o.votedFor
CommitClash(c, o) == \E i \in committedBy(o) \cap DOMAIN c.committed : c.committed[i].entry # entryAt(o, i)
AppliedClash(c, o) == \E i \in DOMAIN o.applied \cap DOMAIN c.applied : c.applied[i].entry # o.applied[i]
SnapClash(c, o) == o.snap.index \in DOMAIN c.snapshots /\ c.snapshots[o.snap.index].snap # o.snap

Has(F, s) == \E x \in F : x[1] = s

\* A finding made on a condition.
LEMMA OnlyOne ==
  ASSUME NEW P, NEW t
  PROVE  (\A x \in only(P, t) : x = t) /\ (only(P, t) # {} <=> P)
BY DEF only

\* Each check raises its own alarms, and when.
LEMMA DurableAlarms ==
  ASSUME NEW c, NEW n, NEW o
  PROVE  LET F == checkDurableHistory(c, n, o)
         IN /\ \A x \in F : x[1] \in {"durable-term-monotonic", "durable-double-vote", "volatile-durable-match"}
            /\ Has(F, "durable-term-monotonic") <=> o.term < c.durableTerms[n]
            /\ Has(F, "durable-double-vote") <=> VoteClash(c, n, o)
            /\ Has(F, "volatile-durable-match") <=> o.up /\ ~o.awaiting /\ liveState(o) # hardState(o)
<1> DEFINE A == only(o.term < c.durableTerms[n], <<"durable-term-monotonic", names(<<n>>), c.durableTerms[n], o.term>>)
           B == {<<"durable-double-vote", names(<<n, c.votes[k], o.votedFor>>), o.term, c.votes[k], o.votedFor>> :
                   k \in {l \in DOMAIN c.votes \cap {<<n, o.term>>} : o.votedFor # Nil /\ c.votes[l] # o.votedFor}}
           C == only(o.up /\ ~o.awaiting /\ liveState(o) # hardState(o),
                     <<"volatile-durable-match", names(<<n>>), liveState(o), hardState(o)>>)
<1>1. checkDurableHistory(c, n, o) = A \cup B \cup C
  BY DEF checkDurableHistory
<1>2. (\A x \in A : x[1] = "durable-term-monotonic") /\ (A # {} <=> o.term < c.durableTerms[n])
  <2>1. <<"durable-term-monotonic", names(<<n>>), c.durableTerms[n], o.term>>[1] = "durable-term-monotonic"
    OBVIOUS
  <2> QED BY <2>1, OnlyOne
<1>3. (\A x \in B : x[1] = "durable-double-vote") /\ (B # {} <=> VoteClash(c, n, o))
  <2>1. ASSUME NEW x \in B PROVE x[1] = "durable-double-vote"
    <3>1. PICK k : x = <<"durable-double-vote", names(<<n, c.votes[k], o.votedFor>>), o.term, c.votes[k], o.votedFor>>
      OBVIOUS
    <3> QED BY <3>1
  <2>2. B # {} <=> VoteClash(c, n, o)
    BY DEF VoteClash
  <2> QED BY <2>1, <2>2
<1>4. (\A x \in C : x[1] = "volatile-durable-match") /\ (C # {} <=> o.up /\ ~o.awaiting /\ liveState(o) # hardState(o))
  <2>1. <<"volatile-durable-match", names(<<n>>), liveState(o), hardState(o)>>[1] = "volatile-durable-match"
    OBVIOUS
  <2> QED BY <2>1, OnlyOne
<1> HIDE DEF A, B, C
<1> QED BY <1>1, <1>2, <1>3, <1>4 DEF Has

\* checkCommittedHistory: a lower index, or another entry than the first.
LEMMA CommitAlarms ==
  ASSUME NEW c, NEW n, NEW o
  PROVE  LET F == checkCommittedHistory(c, n, o)
         IN /\ \A x \in F : x[1] \in {"commit-monotonic", "committed-conflict"}
            /\ Has(F, "commit-monotonic") <=> o.commit < c.commitIndexes[n]
            /\ Has(F, "committed-conflict") <=> CommitClash(c, o)
<1> DEFINE A == only(o.commit < c.commitIndexes[n], <<"commit-monotonic", names(<<n>>), c.commitIndexes[n], o.commit>>)
           B == {<<"committed-conflict", names(<<c.committed[i].node, n>>), i, c.committed[i], entryAt(o, i)>> :
                   i \in {j \in committedBy(o) \cap DOMAIN c.committed : c.committed[j].entry # entryAt(o, j)}}
<1>1. checkCommittedHistory(c, n, o) = A \cup B
  BY DEF checkCommittedHistory
<1>2. (\A x \in A : x[1] = "commit-monotonic") /\ (A # {} <=> o.commit < c.commitIndexes[n])
  <2>1. <<"commit-monotonic", names(<<n>>), c.commitIndexes[n], o.commit>>[1] = "commit-monotonic"
    OBVIOUS
  <2> QED BY <2>1, OnlyOne
<1>3. (\A x \in B : x[1] = "committed-conflict") /\ (B # {} <=> CommitClash(c, o))
  <2>1. ASSUME NEW x \in B PROVE x[1] = "committed-conflict"
    <3>1. PICK i : x = <<"committed-conflict", names(<<c.committed[i].node, n>>), i, c.committed[i], entryAt(o, i)>>
      OBVIOUS
    <3> QED BY <3>1
  <2>2. B # {} <=> CommitClash(c, o)
    BY DEF CommitClash
  <2> QED BY <2>1, <2>2
<1> HIDE DEF A, B
<1> QED BY <1>1, <1>2, <1>3 DEF Has

\* checkAppliedHistory: a lower index, or another entry than the first.
LEMMA AppliedAlarms ==
  ASSUME NEW c, NEW n, NEW o
  PROVE  LET F == checkAppliedHistory(c, n, o)
         IN /\ \A x \in F : x[1] \in {"applied-monotonic", "applied-conflict"}
            /\ Has(F, "applied-monotonic") <=> o.appliedIndex < c.appliedIndexes[n]
            /\ Has(F, "applied-conflict") <=> AppliedClash(c, o)
<1> DEFINE A == only(o.appliedIndex < c.appliedIndexes[n], <<"applied-monotonic", names(<<n>>), c.appliedIndexes[n], o.appliedIndex>>)
           B == {<<"applied-conflict", names(<<c.applied[i].node, n>>), i, c.applied[i], o.applied[i]>> :
                   i \in {j \in DOMAIN o.applied \cap DOMAIN c.applied : c.applied[j].entry # o.applied[j]}}
<1>1. checkAppliedHistory(c, n, o) = A \cup B
  BY DEF checkAppliedHistory
<1>2. (\A x \in A : x[1] = "applied-monotonic") /\ (A # {} <=> o.appliedIndex < c.appliedIndexes[n])
  <2>1. <<"applied-monotonic", names(<<n>>), c.appliedIndexes[n], o.appliedIndex>>[1] = "applied-monotonic"
    OBVIOUS
  <2> QED BY <2>1, OnlyOne
<1>3. (\A x \in B : x[1] = "applied-conflict") /\ (B # {} <=> AppliedClash(c, o))
  <2>1. ASSUME NEW x \in B PROVE x[1] = "applied-conflict"
    <3>1. PICK i : x = <<"applied-conflict", names(<<c.applied[i].node, n>>), i, c.applied[i], o.applied[i]>>
      OBVIOUS
    <3> QED BY <3>1
  <2>2. B # {} <=> AppliedClash(c, o)
    BY DEF AppliedClash
  <2> QED BY <2>1, <2>2
<1> HIDE DEF A, B
<1> QED BY <1>1, <1>2, <1>3 DEF Has

\* checkSnapshotHistory: another snapshot of the same index.
LEMMA SnapshotAlarms ==
  ASSUME NEW c, NEW n, NEW o
  PROVE  LET F == checkSnapshotHistory(c, n, o)
         IN /\ \A x \in F : x[1] = "snapshot-conflict"
            /\ Has(F, "snapshot-conflict") <=> SnapClash(c, o)
<1> DEFINE B == {<<"snapshot-conflict", names(<<c.snapshots[i].node, n>>), i, c.snapshots[i], o.snap>> :
                   i \in {j \in {o.snap.index} \cap DOMAIN c.snapshots : c.snapshots[j].snap # o.snap}}
<1>1. checkSnapshotHistory(c, n, o) = B
  BY DEF checkSnapshotHistory
<1>2. ASSUME NEW x \in B PROVE x[1] = "snapshot-conflict"
  <2>1. PICK i : x = <<"snapshot-conflict", names(<<c.snapshots[i].node, n>>), i, c.snapshots[i], o.snap>>
    OBVIOUS
  <2> QED BY <2>1
<1>3. B # {} <=> SnapClash(c, o)
  BY DEF SnapClash
<1> HIDE DEF B
<1> QED BY <1>1, <1>2, <1>3 DEF Has

NodeAlarms ==
  {"durable-term-monotonic", "durable-double-vote", "volatile-durable-match", "commit-monotonic",
   "committed-conflict", "applied-monotonic", "applied-conflict", "snapshot-conflict", "membership-transition"}

\* All that checkNode can find, and when.
LEMMA NodeFound ==
  ASSUME NEW c, NEW n, NEW o \in Observable
  PROVE  LET F == NodeFindings(c, n, o)
         IN /\ \A x \in F : x[1] \in NodeAlarms
            /\ Has(F, "durable-term-monotonic") <=> o.term < c.durableTerms[n]
            /\ Has(F, "durable-double-vote") <=> VoteClash(c, n, o)
            /\ Has(F, "volatile-durable-match") <=> o.up /\ ~o.awaiting /\ liveState(o) # hardState(o)
            /\ Has(F, "commit-monotonic") <=> o.commit < c.commitIndexes[n]
            /\ Has(F, "committed-conflict") <=> CommitClash(c, o)
            /\ Has(F, "applied-monotonic") <=> o.appliedIndex < c.appliedIndexes[n]
            /\ Has(F, "applied-conflict") <=> AppliedClash(c, o)
            /\ Has(F, "snapshot-conflict") <=> SnapClash(c, o)
            /\ Has(F, "membership-transition") <=> ConfigsBroken(o)
<1> DEFINE F == NodeFindings(c, n, o)
           D == checkDurableHistory(c, n, o)
           C == checkCommittedHistory(c, n, o)
           A == checkAppliedHistory(c, n, o)
           S == checkSnapshotHistory(c, n, o)
           M == checkMembershipHistory(c, n, o)
<1>1. F = D \cup C \cup A \cup S \cup M
  BY DEF NodeFindings
<1>2. /\ \A x \in D : x[1] \in {"durable-term-monotonic", "durable-double-vote", "volatile-durable-match"}
      /\ Has(D, "durable-term-monotonic") <=> o.term < c.durableTerms[n]
      /\ Has(D, "durable-double-vote") <=> VoteClash(c, n, o)
      /\ Has(D, "volatile-durable-match") <=> o.up /\ ~o.awaiting /\ liveState(o) # hardState(o)
  BY DurableAlarms
<1>3. /\ \A x \in C : x[1] \in {"commit-monotonic", "committed-conflict"}
      /\ Has(C, "commit-monotonic") <=> o.commit < c.commitIndexes[n]
      /\ Has(C, "committed-conflict") <=> CommitClash(c, o)
  BY CommitAlarms
<1>4. /\ \A x \in A : x[1] \in {"applied-monotonic", "applied-conflict"}
      /\ Has(A, "applied-monotonic") <=> o.appliedIndex < c.appliedIndexes[n]
      /\ Has(A, "applied-conflict") <=> AppliedClash(c, o)
  BY AppliedAlarms
<1>5. /\ \A x \in S : x[1] = "snapshot-conflict"
      /\ Has(S, "snapshot-conflict") <=> SnapClash(c, o)
  BY SnapshotAlarms
<1>6. /\ \A x \in M : x[1] = "membership-transition"
      /\ M # {} <=> ConfigsBroken(o)
  BY MembershipChecked
<1> HIDE DEF F, D, C, A, S, M
<1>7. \A s : Has(F, s) <=> Has(D, s) \/ Has(C, s) \/ Has(A, s) \/ Has(S, s) \/ Has(M, s)
  BY <1>1 DEF Has
<1>8. /\ \A s : Has(D, s) => s \in {"durable-term-monotonic", "durable-double-vote", "volatile-durable-match"}
      /\ \A s : Has(C, s) => s \in {"commit-monotonic", "committed-conflict"}
      /\ \A s : Has(A, s) => s \in {"applied-monotonic", "applied-conflict"}
      /\ \A s : Has(S, s) => s = "snapshot-conflict"
      /\ \A s : Has(M, s) <=> s = "membership-transition" /\ ConfigsBroken(o)
  BY <1>2, <1>3, <1>4, <1>5, <1>6 DEF Has
<1>9. /\ Has(F, "durable-term-monotonic") <=> Has(D, "durable-term-monotonic")
      /\ Has(F, "durable-double-vote") <=> Has(D, "durable-double-vote")
      /\ Has(F, "volatile-durable-match") <=> Has(D, "volatile-durable-match")
      /\ Has(F, "commit-monotonic") <=> Has(C, "commit-monotonic")
      /\ Has(F, "committed-conflict") <=> Has(C, "committed-conflict")
      /\ Has(F, "applied-monotonic") <=> Has(A, "applied-monotonic")
      /\ Has(F, "applied-conflict") <=> Has(A, "applied-conflict")
      /\ Has(F, "snapshot-conflict") <=> Has(S, "snapshot-conflict")
      /\ Has(F, "membership-transition") <=> ConfigsBroken(o)
  BY <1>7, <1>8
<1>10. \A x \in F : x[1] \in NodeAlarms
  BY <1>1, <1>2, <1>3, <1>4, <1>5, <1>6 DEF NodeAlarms
<1>11. /\ Has(F, "durable-term-monotonic") <=> o.term < c.durableTerms[n]
       /\ Has(F, "durable-double-vote") <=> VoteClash(c, n, o)
       /\ Has(F, "volatile-durable-match") <=> o.up /\ ~o.awaiting /\ liveState(o) # hardState(o)
  BY <1>2, <1>9
<1>12. /\ Has(F, "commit-monotonic") <=> o.commit < c.commitIndexes[n]
       /\ Has(F, "committed-conflict") <=> CommitClash(c, o)
  BY <1>3, <1>9
<1>13. /\ Has(F, "applied-monotonic") <=> o.appliedIndex < c.appliedIndexes[n]
       /\ Has(F, "applied-conflict") <=> AppliedClash(c, o)
  BY <1>4, <1>9
<1>14. Has(F, "snapshot-conflict") <=> SnapClash(c, o)
  BY <1>5, <1>9
<1> QED BY <1>9, <1>10, <1>11, <1>12, <1>13, <1>14 DEF F

-----------------------------------------------------------------------------
(* A history agrees with the facts.                                        *)

EntriesIn(w) == [i \in DOMAIN w |-> w[i].entry]
SnapsIn(w) == [i \in DOMAIN w |-> w[i].snap]

\* The alarms that say what is wrong with an observation.
Broken == {"durable-term-monotonic", "commit-monotonic", "applied-monotonic", "volatile-durable-match",
           "log-matching", "membership-transition"}

OtherAlarms == {"election-safety", "durable-double-vote", "committed-conflict", "applied-conflict",
                "snapshot-conflict", "leader-completeness", "election-certificate"}

Indexed(S) == \A x \in S : x[1] # 0
Timed(S) == \A x \in S : x[3] \in Nat
Pairs(S) == \A x \in S : x = <<x[1], x[2]>>

\* Each entry of a ledger was seen committed at its term.
Dated(w, S) == \A i \in DOMAIN w : <<i, w[i].entry, w[i].commitTerm>> \in S

\* The ledgers hold first witnesses and highest values of the facts.
Remembers(c, f) ==
  /\ First(c.votes, f.voted) /\ First(EntriesIn(c.committed), f.committed)
  /\ First(EntriesIn(c.applied), f.applied) /\ First(SnapsIn(c.snapshots), f.snapshots)
  /\ Dated(c.committed, f.committed)
  /\ Indexed(f.snapshots) /\ Pairs(f.voted) /\ Timed(f.committed)
  /\ Highest(c.durableTerms, f.terms) /\ Highest(c.commitIndexes, f.commits)
  /\ Highest(c.appliedIndexes, f.appliedTo)

\* The alarms that nodes raise are those the facts call for.
Alarmed(c, f) ==
  /\ Has(Found(c), "durable-double-vote") <=> Conflict(f.voted)
  /\ Has(Found(c), "committed-conflict") <=> Conflict(f.committed)
  /\ Has(Found(c), "applied-conflict") <=> Conflict(f.applied)
  /\ Has(Found(c), "snapshot-conflict") <=> Conflict(f.snapshots)
  /\ \A s \in Broken : Has(Found(c), s) <=> s \in f.broken
  /\ f.broken \subseteq Broken
  /\ \A x \in Found(c) : x[1] \in Broken \cup OtherAlarms

\* What is wrong with one node alone or next to the facts.
NodeBroken(f, n, o, s) ==
  \/ s = "durable-term-monotonic" /\ Below(f.terms, n, o.term)
  \/ s = "commit-monotonic" /\ Below(f.commits, n, o.commit)
  \/ s = "applied-monotonic" /\ Below(f.appliedTo, n, o.appliedIndex)
  \/ s = "volatile-durable-match" /\ o.up /\ ~o.awaiting /\ liveState(o) # hardState(o)
  \/ s = "membership-transition" /\ ConfigsBroken(o)

VotedBy(n, o) == IF o.votedFor = Nil THEN {} ELSE {<<<<n, o.term>>, o.votedFor>>}
CommitsOf(o) == {<<i, entryAt(o, i), o.term>> : i \in committedBy(o)}
AppliesOf(o) == {<<i, o.applied[i]>> : i \in DOMAIN o.applied}
SnapOf(o) == IF o.snap.index = 0 THEN {} ELSE {<<o.snap.index, o.snap>>}

\* g are the facts f and those of node n.
Takes(f, g, n, o) ==
  /\ g.led = f.led /\ g.missing = f.missing /\ g.uncertified = f.uncertified
  /\ g.voted = f.voted \cup VotedBy(n, o)
  /\ g.committed = f.committed \cup CommitsOf(o)
  /\ g.applied = f.applied \cup AppliesOf(o)
  /\ g.snapshots = f.snapshots \cup SnapOf(o)
  /\ g.terms = f.terms \cup {<<n, o.term>>}
  /\ g.commits = f.commits \cup {<<n, o.commit>>}
  /\ g.appliedTo = f.appliedTo \cup {<<n, o.appliedIndex>>}
  /\ \A s : s \in g.broken <=> s \in f.broken \/ NodeBroken(f, n, o, s)

\* The ledger of votes after one node more.
LEMMA VotesRemembered ==
  ASSUME NEW c, NEW f, First(c.votes, f.voted), NEW n, NEW o
  PROVE  /\ First(keeping(c.votes, VotesOf(n, o)), f.voted \cup VotedBy(n, o))
         /\ Conflict(f.voted \cup VotedBy(n, o)) <=>
              \/ Conflict(f.voted)
              \/ VoteClash(c, n, o)
<1> DEFINE T == VotedBy(n, o)
           g == VotesOf(n, o)
           x == <<<<n, o.term>>, o.votedFor>>
<1>1. x[1] = <<n, o.term>> /\ x[2] = o.votedFor
  OBVIOUS
<1>2. T = IF o.votedFor = Nil THEN {} ELSE {x}
  BY DEF VotedBy
<1>3. /\ o.votedFor = Nil => DOMAIN g = {}
      /\ o.votedFor # Nil => DOMAIN g = {<<n, o.term>>} /\ g[<<n, o.term>>] = o.votedFor
  BY DEF VotesOf
<1> HIDE DEF x, T, g
<1>4. First(g, T)
  BY <1>1, <1>2, <1>3 DEF First
<1>5. OnePerKey(T)
  BY <1>2 DEF OnePerKey
<1>6. Clash(c.votes, T) <=> VoteClash(c, n, o)
  BY <1>1, <1>2 DEF Clash, VoteClash
<1>7. /\ First(keeping(c.votes, g), f.voted \cup T)
      /\ Conflict(f.voted \cup T) <=> Conflict(f.voted) \/ Clash(c.votes, T)
  BY <1>4, <1>5, FirstKept
<1> QED BY <1>6, <1>7 DEF T, g

\* The entries of a ledger that is extended.
LEMMA EntriesKept ==
  ASSUME NEW f, NEW g
  PROVE  EntriesIn(keeping(f, g)) = keeping(EntriesIn(f), EntriesIn(g))
<1>1. /\ DOMAIN keeping(f, g) = DOMAIN f \cup DOMAIN g
      /\ \A k \in DOMAIN f : keeping(f, g)[k] = f[k]
      /\ \A k \in DOMAIN g \ DOMAIN f : keeping(f, g)[k] = g[k]
  BY KeepingAdds
<1>2. DOMAIN EntriesIn(f) = DOMAIN f /\ DOMAIN EntriesIn(g) = DOMAIN g
  BY DEF EntriesIn
<1>3. EntriesIn(keeping(f, g)) = [k \in DOMAIN f \cup DOMAIN g |-> keeping(f, g)[k].entry]
  BY <1>1 DEF EntriesIn
<1>4. keeping(EntriesIn(f), EntriesIn(g))
        = [k \in DOMAIN f \cup DOMAIN g |-> IF k \in DOMAIN f THEN EntriesIn(f)[k] ELSE EntriesIn(g)[k]]
  BY <1>2 DEF keeping
<1>5. \A k \in DOMAIN f \cup DOMAIN g :
        keeping(f, g)[k].entry = IF k \in DOMAIN f THEN EntriesIn(f)[k] ELSE EntriesIn(g)[k]
  BY <1>1 DEF EntriesIn
<1> QED BY <1>3, <1>4, <1>5

\* What a ledger of snapshots holds, after another was added.
LEMMA SnapsKept ==
  ASSUME NEW f, NEW g
  PROVE  SnapsIn(keeping(f, g)) = keeping(SnapsIn(f), SnapsIn(g))
<1>1. /\ DOMAIN keeping(f, g) = DOMAIN f \cup DOMAIN g
      /\ \A k \in DOMAIN f : keeping(f, g)[k] = f[k]
      /\ \A k \in DOMAIN g \ DOMAIN f : keeping(f, g)[k] = g[k]
  BY KeepingAdds
<1>2. DOMAIN SnapsIn(f) = DOMAIN f /\ DOMAIN SnapsIn(g) = DOMAIN g
  BY DEF SnapsIn
<1>3. SnapsIn(keeping(f, g)) = [k \in DOMAIN f \cup DOMAIN g |-> keeping(f, g)[k].snap]
  BY <1>1 DEF SnapsIn
<1>4. keeping(SnapsIn(f), SnapsIn(g))
        = [k \in DOMAIN f \cup DOMAIN g |-> IF k \in DOMAIN f THEN SnapsIn(f)[k] ELSE SnapsIn(g)[k]]
  BY <1>2 DEF keeping
<1>5. \A k \in DOMAIN f \cup DOMAIN g :
        keeping(f, g)[k].snap = IF k \in DOMAIN f THEN SnapsIn(f)[k] ELSE SnapsIn(g)[k]
  BY <1>1 DEF SnapsIn
<1> QED BY <1>3, <1>4, <1>5

\* The ledger of committed entries after one node more.
LEMMA CommitsRemembered ==
  ASSUME NEW c, NEW f, First(EntriesIn(c.committed), f.committed), NEW n, NEW o,
         Dated(c.committed, f.committed)
  PROVE  LET w == keeping(c.committed, CommittedOf(n, o))
         IN /\ First(EntriesIn(w), f.committed \cup CommitsOf(o))
            /\ Dated(w, f.committed \cup CommitsOf(o))
            /\ Conflict(f.committed \cup CommitsOf(o)) <=>
                 \/ Conflict(f.committed)
                 \/ CommitClash(c, o)
<1> DEFINE T == CommitsOf(o)
           w == keeping(c.committed, CommittedOf(n, o))
           p == EntriesIn(c.committed)
           q == EntriesIn(CommittedOf(n, o))
<1>1. \A i \in committedBy(o) : /\ <<i, entryAt(o, i), o.term>> \in T
                                /\ <<i, entryAt(o, i), o.term>>[1] = i
                                /\ <<i, entryAt(o, i), o.term>>[2] = entryAt(o, i)
  BY DEF CommitsOf
<1>2. \A x \in T : x[1] \in committedBy(o) /\ x[2] = entryAt(o, x[1])
  BY DEF CommitsOf
<1>3. /\ DOMAIN w = DOMAIN c.committed \cup DOMAIN CommittedOf(n, o)
      /\ \A k \in DOMAIN c.committed : w[k] = c.committed[k]
      /\ \A k \in DOMAIN CommittedOf(n, o) \ DOMAIN c.committed : w[k] = CommittedOf(n, o)[k]
  BY KeepingAdds
<1>4. /\ DOMAIN CommittedOf(n, o) = committedBy(o)
      /\ \A i \in committedBy(o) : CommittedOf(n, o)[i].entry = entryAt(o, i) /\ CommittedOf(n, o)[i].commitTerm = o.term
  BY DEF CommittedOf
<1>5. /\ DOMAIN p = DOMAIN c.committed /\ \A i \in DOMAIN c.committed : p[i] = c.committed[i].entry
      /\ DOMAIN q = committedBy(o) /\ \A i \in committedBy(o) : q[i] = entryAt(o, i)
  BY <1>4 DEF EntriesIn
<1>6. ASSUME NEW i \in DOMAIN w PROVE <<i, w[i].entry, w[i].commitTerm>> \in f.committed \cup T
  BY <1>1, <1>3, <1>4, <1>6 DEF Dated
<1>7. EntriesIn(w) = keeping(p, q)
  BY EntriesKept
<1>8. First(p, f.committed)
  OBVIOUS
<1> HIDE DEF T, w, p, q
<1>9. First(q, T)
  BY <1>1, <1>2, <1>5 DEF First
<1>10. OnePerKey(T)
  BY <1>2 DEF OnePerKey
<1>11. /\ First(keeping(p, q), f.committed \cup T)
       /\ Conflict(f.committed \cup T) <=> Conflict(f.committed) \/ Clash(p, T)
  BY <1>8, <1>9, <1>10, FirstKept
<1>12. Clash(p, T) <=> CommitClash(c, o)
  <2>1. ASSUME NEW x \in T, x[1] \in DOMAIN p, p[x[1]] # x[2]
        PROVE  \E i \in committedBy(o) \cap DOMAIN c.committed : c.committed[i].entry # entryAt(o, i)
    <3>1. x[1] \in committedBy(o) /\ x[2] = entryAt(o, x[1])
      BY <1>2
    <3>2. x[1] \in DOMAIN c.committed /\ p[x[1]] = c.committed[x[1]].entry
      BY <1>5, <2>1
    <3> QED BY <2>1, <3>1, <3>2
  <2>2. ASSUME NEW i \in committedBy(o) \cap DOMAIN c.committed, c.committed[i].entry # entryAt(o, i)
        PROVE  \E x \in T : x[1] \in DOMAIN p /\ p[x[1]] # x[2]
    <3>1. i \in DOMAIN p /\ p[i] = c.committed[i].entry
      BY <1>5
    <3>2. PICK x \in T : x[1] = i /\ x[2] = entryAt(o, i)
      BY <1>1
    <3> QED BY <2>2, <3>1, <3>2
  <2> QED BY <2>1, <2>2 DEF Clash, CommitClash
<1>13. Dated(w, f.committed \cup T)
  BY <1>6 DEF Dated
<1> QED BY <1>7, <1>11, <1>12, <1>13 DEF T, w

\* The ledger of applied entries after one node more.
LEMMA AppliedRemembered ==
  ASSUME NEW c, NEW f, First(EntriesIn(c.applied), f.applied), NEW n, NEW o
  PROVE  /\ First(EntriesIn(keeping(c.applied, AppliedOf(n, o))), f.applied \cup AppliesOf(o))
         /\ Conflict(f.applied \cup AppliesOf(o)) <=>
              \/ Conflict(f.applied)
              \/ AppliedClash(c, o)
<1> DEFINE T == AppliesOf(o)
           p == EntriesIn(c.applied)
           q == EntriesIn(AppliedOf(n, o))
<1>1. \A i \in DOMAIN o.applied : /\ <<i, o.applied[i]>> \in T
                                  /\ <<i, o.applied[i]>>[1] = i
                                  /\ <<i, o.applied[i]>>[2] = o.applied[i]
  BY DEF AppliesOf
<1>2. \A x \in T : x[1] \in DOMAIN o.applied /\ x[2] = o.applied[x[1]]
  BY DEF AppliesOf
<1>3. /\ DOMAIN p = DOMAIN c.applied /\ \A i \in DOMAIN c.applied : p[i] = c.applied[i].entry
      /\ DOMAIN q = DOMAIN o.applied /\ \A i \in DOMAIN o.applied : q[i] = o.applied[i]
  BY DEF EntriesIn, AppliedOf
<1>4. EntriesIn(keeping(c.applied, AppliedOf(n, o))) = keeping(p, q)
  BY EntriesKept
<1>5. First(p, f.applied)
  OBVIOUS
<1> HIDE DEF T, p, q
<1>6. First(q, T)
  BY <1>1, <1>2, <1>3 DEF First
<1>7. OnePerKey(T)
  BY <1>2 DEF OnePerKey
<1>8. /\ First(keeping(p, q), f.applied \cup T)
      /\ Conflict(f.applied \cup T) <=> Conflict(f.applied) \/ Clash(p, T)
  BY <1>5, <1>6, <1>7, FirstKept
<1>9. Clash(p, T) <=> AppliedClash(c, o)
  BY <1>1, <1>2, <1>3 DEF Clash, AppliedClash
<1> QED BY <1>4, <1>8, <1>9 DEF T

\* The ledger of snapshots after one node more.
LEMMA SnapshotRemembered ==
  ASSUME NEW c, NEW f, First(SnapsIn(c.snapshots), f.snapshots), Indexed(f.snapshots), NEW n, NEW o
  PROVE  /\ First(SnapsIn(keeping(c.snapshots, SnapshotsOf(n, o))), f.snapshots \cup SnapOf(o))
         /\ Indexed(f.snapshots \cup SnapOf(o))
         /\ Conflict(f.snapshots \cup SnapOf(o)) <=>
              \/ Conflict(f.snapshots)
              \/ SnapClash(c, o)
<1> DEFINE T == SnapOf(o)
           p == SnapsIn(c.snapshots)
           q == SnapsIn(SnapshotsOf(n, o))
           x == <<o.snap.index, o.snap>>
<1>1. x[1] = o.snap.index /\ x[2] = o.snap
  OBVIOUS
<1>2. T = IF o.snap.index = 0 THEN {} ELSE {x}
  BY DEF SnapOf
<1>3. /\ DOMAIN p = DOMAIN c.snapshots /\ \A i \in DOMAIN c.snapshots : p[i] = c.snapshots[i].snap
      /\ o.snap.index = 0 => DOMAIN q = {}
      /\ o.snap.index # 0 => DOMAIN q = {o.snap.index} /\ q[o.snap.index] = o.snap
  <2>1. DOMAIN p = DOMAIN c.snapshots /\ \A i \in DOMAIN c.snapshots : p[i] = c.snapshots[i].snap
    BY DEF SnapsIn
  <2>2. ASSUME o.snap.index = 0 PROVE DOMAIN q = {}
    <3>1. DOMAIN SnapshotsOf(n, o) = {}
      BY <2>2 DEF SnapshotsOf
    <3> QED BY <3>1 DEF SnapsIn
  <2>3. ASSUME o.snap.index # 0 PROVE DOMAIN q = {o.snap.index} /\ q[o.snap.index] = o.snap
    BY <2>3 DEF SnapsIn, SnapshotsOf
  <2> QED BY <2>1, <2>2, <2>3
<1>4. SnapsIn(keeping(c.snapshots, SnapshotsOf(n, o))) = keeping(p, q)
  BY SnapsKept
<1>5. First(p, f.snapshots)
  OBVIOUS
<1> HIDE DEF T, p, q, x
<1>6. First(q, T)
  BY <1>1, <1>2, <1>3 DEF First
<1>7. OnePerKey(T)
  BY <1>2 DEF OnePerKey
<1>8. /\ First(keeping(p, q), f.snapshots \cup T)
      /\ Conflict(f.snapshots \cup T) <=> Conflict(f.snapshots) \/ Clash(p, T)
  BY <1>5, <1>6, <1>7, FirstKept
<1>9. 0 \notin DOMAIN c.snapshots
  BY <1>3, <1>5 DEF First, Indexed
<1>10. Clash(p, T) <=> SnapClash(c, o)
  BY <1>1, <1>2, <1>3, <1>9 DEF Clash, SnapClash
<1>11. Indexed(f.snapshots \cup T)
  BY <1>1, <1>2 DEF Indexed
<1> QED BY <1>4, <1>8, <1>10, <1>11 DEF T

-----------------------------------------------------------------------------
(* One node more.                                                          *)

\* The highest terms and indexes after one node more.
LEMMA MaximaRemembered ==
  ASSUME NEW c, NEW d, NEW f, NEW g, HistoryOK(c), Remembers(c, f), NEW n \in Server, NEW o \in Observable,
         Witnessed(c, d, n, o), Takes(f, g, n, o)
  PROVE  /\ Highest(d.durableTerms, g.terms) /\ Highest(d.commitIndexes, g.commits)
         /\ Highest(d.appliedIndexes, g.appliedTo)
         /\ Below(f.terms, n, o.term) <=> o.term < c.durableTerms[n]
         /\ Below(f.commits, n, o.commit) <=> o.commit < c.commitIndexes[n]
         /\ Below(f.appliedTo, n, o.appliedIndex) <=> o.appliedIndex < c.appliedIndexes[n]
<1>1. o.term \in Nat /\ o.commit \in Nat /\ o.appliedIndex \in Nat
  BY BoundsAssumption DEF Observable
<1> DEFINE dt == c.durableTerms
           ci == c.commitIndexes
           ai == c.appliedIndexes
<1>2. /\ dt \in [Server -> Nat] /\ ci \in [Server -> Nat] /\ ai \in [Server -> Nat]
      /\ Highest(dt, f.terms) /\ Highest(ci, f.commits) /\ Highest(ai, f.appliedTo)
  BY DEF HistoryOK, Remembers
<1>3. /\ d.durableTerms = [dt EXCEPT ![n] = Greatest(@, o.term)]
      /\ d.commitIndexes = [ci EXCEPT ![n] = Greatest(@, o.commit)]
      /\ d.appliedIndexes = [ai EXCEPT ![n] = Greatest(@, o.appliedIndex)]
      /\ g.terms = f.terms \cup {<<n, o.term>>} /\ g.commits = f.commits \cup {<<n, o.commit>>}
      /\ g.appliedTo = f.appliedTo \cup {<<n, o.appliedIndex>>}
  BY DEF Witnessed, Takes
<1> HIDE DEF dt, ci, ai
<1>4. /\ Below(f.terms, n, o.term) <=> o.term < dt[n]
      /\ Highest([dt EXCEPT ![n] = Greatest(@, o.term)], f.terms \cup {<<n, o.term>>})
  BY <1>1, <1>2, HighestValue
<1>5. /\ Below(f.commits, n, o.commit) <=> o.commit < ci[n]
      /\ Highest([ci EXCEPT ![n] = Greatest(@, o.commit)], f.commits \cup {<<n, o.commit>>})
  BY <1>1, <1>2, HighestValue
<1>6. /\ Below(f.appliedTo, n, o.appliedIndex) <=> o.appliedIndex < ai[n]
      /\ Highest([ai EXCEPT ![n] = Greatest(@, o.appliedIndex)], f.appliedTo \cup {<<n, o.appliedIndex>>})
  BY <1>1, <1>2, HighestValue
<1>7. /\ Highest(d.durableTerms, g.terms) /\ Highest(d.commitIndexes, g.commits)
      /\ Highest(d.appliedIndexes, g.appliedTo)
  BY <1>3, <1>4, <1>5, <1>6
<1> QED BY <1>4, <1>5, <1>6, <1>7 DEF dt, ci, ai

\* What a node is found to have done wrong is what the facts say it did.
LEMMA NodeBrokenFound ==
  ASSUME NEW c, NEW d, NEW f, NEW g, HistoryOK(c), Remembers(c, f), NEW n \in Server, NEW o \in Observable,
         Witnessed(c, d, n, o), Takes(f, g, n, o), NEW s \in Broken
  PROVE  Has(NodeFindings(c, n, o), s) <=> NodeBroken(f, n, o, s)
<1> DEFINE F == NodeFindings(c, n, o)
<1>1. /\ \A x \in F : x[1] \in NodeAlarms
      /\ Has(F, "durable-term-monotonic") <=> o.term < c.durableTerms[n]
      /\ Has(F, "volatile-durable-match") <=> o.up /\ ~o.awaiting /\ liveState(o) # hardState(o)
      /\ Has(F, "commit-monotonic") <=> o.commit < c.commitIndexes[n]
      /\ Has(F, "applied-monotonic") <=> o.appliedIndex < c.appliedIndexes[n]
      /\ Has(F, "membership-transition") <=> ConfigsBroken(o)
  BY NodeFound
<1>2. /\ Below(f.terms, n, o.term) <=> o.term < c.durableTerms[n]
      /\ Below(f.commits, n, o.commit) <=> o.commit < c.commitIndexes[n]
      /\ Below(f.appliedTo, n, o.appliedIndex) <=> o.appliedIndex < c.appliedIndexes[n]
  BY MaximaRemembered
<1> HIDE DEF F
<1>3. ~Has(F, "log-matching")
  BY <1>1 DEF Has, NodeAlarms
<1>4. /\ NodeBroken(f, n, o, "durable-term-monotonic") <=> Below(f.terms, n, o.term)
      /\ NodeBroken(f, n, o, "commit-monotonic") <=> Below(f.commits, n, o.commit)
      /\ NodeBroken(f, n, o, "applied-monotonic") <=> Below(f.appliedTo, n, o.appliedIndex)
      /\ NodeBroken(f, n, o, "volatile-durable-match") <=> o.up /\ ~o.awaiting /\ liveState(o) # hardState(o)
      /\ ~NodeBroken(f, n, o, "log-matching")
      /\ NodeBroken(f, n, o, "membership-transition") <=> ConfigsBroken(o)
  BY DEF NodeBroken
<1>5. /\ Has(F, "durable-term-monotonic") <=> NodeBroken(f, n, o, "durable-term-monotonic")
      /\ Has(F, "commit-monotonic") <=> NodeBroken(f, n, o, "commit-monotonic")
      /\ Has(F, "applied-monotonic") <=> NodeBroken(f, n, o, "applied-monotonic")
      /\ Has(F, "volatile-durable-match") <=> NodeBroken(f, n, o, "volatile-durable-match")
      /\ Has(F, "log-matching") <=> NodeBroken(f, n, o, "log-matching")
      /\ Has(F, "membership-transition") <=> NodeBroken(f, n, o, "membership-transition")
  BY <1>1, <1>2, <1>3, <1>4
<1> QED BY <1>5 DEF Broken, F

\* checkNode keeps ledgers and alarms in agreement with the facts.
LEMMA NodeTaken ==
  ASSUME NEW c, NEW f, NEW g, HistoryOK(c), Remembers(c, f), Alarmed(c, f), NEW at,
         NEW n \in Server, NEW o \in Observable, Takes(f, g, n, o)
  PROVE  LET d == checkNode(c, at, n, o)
         IN /\ HistoryOK(d) /\ Remembers(d, g) /\ Alarmed(d, g)
            /\ Witnessed(c, d, n, o) /\ Found(d) = Found(c) \cup NodeFindings(c, n, o)
<1> DEFINE d == checkNode(c, at, n, o)
           F == NodeFindings(c, n, o)
<1>1. HistoryOK(d) /\ Witnessed(c, d, n, o) /\ Found(d) = Found(c) \cup F
  BY NodeChecked
<1> HIDE DEF d, F
<1>2. /\ Highest(d.durableTerms, g.terms) /\ Highest(d.commitIndexes, g.commits)
      /\ Highest(d.appliedIndexes, g.appliedTo)
  BY <1>1, MaximaRemembered
<1>3. /\ First(c.votes, f.voted) /\ First(EntriesIn(c.committed), f.committed)
      /\ First(EntriesIn(c.applied), f.applied) /\ First(SnapsIn(c.snapshots), f.snapshots)
      /\ Dated(c.committed, f.committed)
      /\ Indexed(f.snapshots)
  BY DEF Remembers
<1>4. /\ d.votes = keeping(c.votes, VotesOf(n, o)) /\ g.voted = f.voted \cup VotedBy(n, o)
       /\ d.committed = keeping(c.committed, CommittedOf(n, o)) /\ g.committed = f.committed \cup CommitsOf(o)
       /\ d.applied = keeping(c.applied, AppliedOf(n, o)) /\ g.applied = f.applied \cup AppliesOf(o)
       /\ d.snapshots = keeping(c.snapshots, SnapshotsOf(n, o)) /\ g.snapshots = f.snapshots \cup SnapOf(o)
  BY <1>1 DEF Witnessed, Takes
<1>5. /\ First(d.votes, g.voted)
      /\ Conflict(g.voted) <=> Conflict(f.voted) \/ VoteClash(c, n, o)
  BY <1>3, <1>4, VotesRemembered
<1>6. /\ First(EntriesIn(d.committed), g.committed)
      /\ Dated(d.committed, g.committed)
      /\ Conflict(g.committed) <=> Conflict(f.committed) \/ CommitClash(c, o)
  BY <1>3, <1>4, CommitsRemembered
<1>7. /\ First(EntriesIn(d.applied), g.applied)
      /\ Conflict(g.applied) <=> Conflict(f.applied) \/ AppliedClash(c, o)
  BY <1>3, <1>4, AppliedRemembered
<1>8. /\ First(SnapsIn(d.snapshots), g.snapshots)
      /\ Indexed(g.snapshots)
      /\ Conflict(g.snapshots) <=> Conflict(f.snapshots) \/ SnapClash(c, o)
  BY <1>3, <1>4, SnapshotRemembered
<1>9. Pairs(g.voted)
  <2>1. Pairs(VotedBy(n, o))
    BY DEF VotedBy, Pairs
  <2> QED BY <2>1 DEF Takes, Remembers, Pairs
<1>10. Timed(g.committed)
  <2>1. Timed(CommitsOf(o))
    BY BoundsAssumption DEF CommitsOf, Timed, Observable
  <2> QED BY <2>1 DEF Takes, Remembers, Timed
<1>11. Remembers(d, g)
  BY <1>2, <1>5, <1>6, <1>7, <1>8, <1>9, <1>10 DEF Remembers
<1>12. \A s : Has(Found(d), s) <=> Has(Found(c), s) \/ Has(F, s)
  BY <1>1 DEF Has
<1>13. /\ Has(F, "durable-double-vote") <=> VoteClash(c, n, o)
       /\ Has(F, "committed-conflict") <=> CommitClash(c, o)
       /\ Has(F, "applied-conflict") <=> AppliedClash(c, o)
       /\ Has(F, "snapshot-conflict") <=> SnapClash(c, o)
       /\ \A x \in F : x[1] \in NodeAlarms
  BY NodeFound DEF F
<1>14. /\ Has(Found(d), "durable-double-vote") <=> Conflict(g.voted)
       /\ Has(Found(d), "committed-conflict") <=> Conflict(g.committed)
       /\ Has(Found(d), "applied-conflict") <=> Conflict(g.applied)
       /\ Has(Found(d), "snapshot-conflict") <=> Conflict(g.snapshots)
  <2>1. /\ Has(Found(c), "durable-double-vote") <=> Conflict(f.voted)
        /\ Has(Found(c), "committed-conflict") <=> Conflict(f.committed)
        /\ Has(Found(c), "applied-conflict") <=> Conflict(f.applied)
        /\ Has(Found(c), "snapshot-conflict") <=> Conflict(f.snapshots)
    BY DEF Alarmed
  <2>2. Has(Found(d), "durable-double-vote") <=> Conflict(g.voted)
    BY <1>5, <1>12, <1>13, <2>1
  <2>3. Has(Found(d), "committed-conflict") <=> Conflict(g.committed)
    BY <1>6, <1>12, <1>13, <2>1
  <2>4. Has(Found(d), "applied-conflict") <=> Conflict(g.applied)
    BY <1>7, <1>12, <1>13, <2>1
  <2>5. Has(Found(d), "snapshot-conflict") <=> Conflict(g.snapshots)
    BY <1>8, <1>12, <1>13, <2>1
  <2> QED BY <2>2, <2>3, <2>4, <2>5
<1>15. ASSUME NEW s \in Broken PROVE Has(Found(d), s) <=> s \in g.broken
  <2>1. Has(F, s) <=> NodeBroken(f, n, o, s)
    BY <1>1, NodeBrokenFound DEF F
  <2>2. Has(Found(c), s) <=> s \in f.broken
    BY DEF Alarmed
  <2>3. s \in g.broken <=> s \in f.broken \/ NodeBroken(f, n, o, s)
    BY DEF Takes
  <2> QED BY <1>12, <2>1, <2>2, <2>3
<1>16. g.broken \subseteq Broken
  <2>1. \A s : NodeBroken(f, n, o, s) => s \in Broken
    BY DEF NodeBroken, Broken
  <2> QED BY <2>1 DEF Takes, Alarmed
<1>17. \A x \in Found(d) : x[1] \in Broken \cup OtherAlarms
  <2>1. NodeAlarms \subseteq Broken \cup OtherAlarms
    BY DEF NodeAlarms, Broken, OtherAlarms
  <2> QED BY <1>1, <1>13, <2>1 DEF Alarmed
<1>18. Alarmed(d, g)
  BY <1>14, <1>15, <1>16, <1>17 DEF Alarmed
<1> QED BY <1>1, <1>11, <1>18 DEF d, F

-----------------------------------------------------------------------------
(* All nodes of one observation.                                           *)

\* The recursions of Observe over the nodes and over the leaders.
NodesRun(c, at, ns, n, h) ==
  h = [k \in 0..n |-> IF k = 0 THEN c ELSE checkNode(h[k - 1], at, k, ns[k])]
LeadersRun(c, at, ns, n, h) ==
  h = [k \in 0..n |-> IF k = 0 THEN c ELSE checkLeaderNode(h[k - 1], at, k, ns[k])]

\* Observe's recursion over the nodes has a solution.
LEMMA NodesRunExists ==
  ASSUME NEW c, NEW at, NEW ns, NEW n \in Nat
  PROVE  \E f : NodesRun(c, at, ns, n, f)
<1> DEFINE upTo(d, f) == f[0] = c /\ \A k \in 1..d : f[k] = checkNode(f[k - 1], at, k, ns[k])
           T == {d \in Nat : ~\E f : upTo(d, f)}
<1>1. T = {}
  <2> SUFFICES ASSUME T # {} PROVE FALSE
    OBVIOUS
  <2>1. T \subseteq Nat
    OBVIOUS
  <2> HIDE DEF T
  <2>2. PICK d \in T : \A y \in T : d <= y
    BY <2>1, LeastElement
  <2>3. d \in Nat /\ ~\E f : upTo(d, f)
    BY <2>2 DEF T
  <2>4. CASE d = 0
    <3>1. upTo(0, [k \in {0} |-> c])
      OBVIOUS
    <3> QED BY <2>3, <2>4, <3>1
  <2>5. CASE d # 0
    <3>1. d - 1 \in Nat /\ d - 1 \notin T
      BY <2>2, <2>3, <2>5
    <3>2. PICK f : upTo(d - 1, f)
      BY <3>1 DEF T
    <3> DEFINE g == [k \in 0..d |-> IF k = d THEN checkNode(f[d - 1], at, d, ns[d]) ELSE f[k]]
    <3>3. g[0] = c
      BY <2>3, <2>5, <3>2
    <3>4. ASSUME NEW k \in 1..d PROVE g[k] = checkNode(g[k - 1], at, k, ns[k])
      <4>1. k - 1 \in 0..d /\ k \in 0..d /\ k - 1 # d /\ (k # d => k \in 1..(d - 1))
        BY <2>3
      <4>2. g[k - 1] = f[k - 1] /\ g[k] = IF k = d THEN checkNode(f[d - 1], at, d, ns[d]) ELSE f[k]
        BY <4>1
      <4> QED BY <3>2, <4>1, <4>2
    <3> QED BY <2>3, <3>3, <3>4
  <2> QED BY <2>4, <2>5
<1>2. PICK f : upTo(n, f)
  BY <1>1
<1> DEFINE g == [k \in 0..n |-> f[k]]
<1>3. ASSUME NEW k \in 0..n PROVE g[k] = IF k = 0 THEN c ELSE checkNode(g[k - 1], at, k, ns[k])
  BY <1>2
<1>4. g = [k \in 0..n |-> g[k]]
  OBVIOUS
<1> HIDE DEF g
<1>5. g = [k \in 0..n |-> IF k = 0 THEN c ELSE checkNode(g[k - 1], at, k, ns[k])]
  BY <1>3, <1>4
<1> QED BY <1>5 DEF NodesRun

\* Its recursion over the leaders has one.
LEMMA LeadersRunExists ==
  ASSUME NEW c, NEW at, NEW ns, NEW n \in Nat
  PROVE  \E f : LeadersRun(c, at, ns, n, f)
<1> DEFINE upTo(d, f) == f[0] = c /\ \A k \in 1..d : f[k] = checkLeaderNode(f[k - 1], at, k, ns[k])
           T == {d \in Nat : ~\E f : upTo(d, f)}
<1>1. T = {}
  <2> SUFFICES ASSUME T # {} PROVE FALSE
    OBVIOUS
  <2>1. T \subseteq Nat
    OBVIOUS
  <2> HIDE DEF T
  <2>2. PICK d \in T : \A y \in T : d <= y
    BY <2>1, LeastElement
  <2>3. d \in Nat /\ ~\E f : upTo(d, f)
    BY <2>2 DEF T
  <2>4. CASE d = 0
    <3>1. upTo(0, [k \in {0} |-> c])
      OBVIOUS
    <3> QED BY <2>3, <2>4, <3>1
  <2>5. CASE d # 0
    <3>1. d - 1 \in Nat /\ d - 1 \notin T
      BY <2>2, <2>3, <2>5
    <3>2. PICK f : upTo(d - 1, f)
      BY <3>1 DEF T
    <3> DEFINE g == [k \in 0..d |-> IF k = d THEN checkLeaderNode(f[d - 1], at, d, ns[d]) ELSE f[k]]
    <3>3. g[0] = c
      BY <2>3, <2>5, <3>2
    <3>4. ASSUME NEW k \in 1..d PROVE g[k] = checkLeaderNode(g[k - 1], at, k, ns[k])
      <4>1. k - 1 \in 0..d /\ k \in 0..d /\ k - 1 # d /\ (k # d => k \in 1..(d - 1))
        BY <2>3
      <4>2. g[k - 1] = f[k - 1] /\ g[k] = IF k = d THEN checkLeaderNode(f[d - 1], at, d, ns[d]) ELSE f[k]
        BY <4>1
      <4> QED BY <3>2, <4>1, <4>2
    <3> QED BY <2>3, <3>3, <3>4
  <2> QED BY <2>4, <2>5
<1>2. PICK f : upTo(n, f)
  BY <1>1
<1> DEFINE g == [k \in 0..n |-> f[k]]
<1>3. ASSUME NEW k \in 0..n PROVE g[k] = IF k = 0 THEN c ELSE checkLeaderNode(g[k - 1], at, k, ns[k])
  BY <1>2
<1>4. g = [k \in 0..n |-> g[k]]
  OBVIOUS
<1> HIDE DEF g
<1>5. g = [k \in 0..n |-> IF k = 0 THEN c ELSE checkLeaderNode(g[k - 1], at, k, ns[k])]
  BY <1>3, <1>4
<1> QED BY <1>5 DEF LeadersRun


\* The nodes are numbered from 1.
LEMMA Universe == Cardinality(Server) \in Nat /\ Server = 1..Cardinality(Server)
<1>1. Cardinality(Server) \in Nat
  BY ServerAssumption, FS_CardinalityType
<1> QED BY <1>1, NodesAssumption

\* Observe is the end of the two recursions.
LEMMA ObserveRuns ==
  ASSUME NEW c, NEW at, NEW ns
  PROVE  LET n == Cardinality(Server)
         IN \E h, l : /\ NodesRun(c, at, ns, n, h)
                      /\ LeadersRun(add(h[n], at, checkLogs(ns)), at, ns, n, l)
                      /\ Observe(c, at, ns) = l[n]
<1> DEFINE n == Cardinality(Server)
           h == CHOOSE f : NodesRun(c, at, ns, n, f)
           a == add(h[n], at, checkLogs(ns))
           l == CHOOSE f : LeadersRun(a, at, ns, n, f)
<1>1. n \in Nat
  BY Universe
<1>2. Observe(c, at, ns) = l[n]
  BY DEF Observe, NodesRun, LeadersRun
<1>3. NodesRun(c, at, ns, n, h)
  BY <1>1, NodesRunExists
<1> HIDE DEF a
<1>4. LeadersRun(a, at, ns, n, l)
  BY <1>1, LeadersRunExists
<1> HIDE DEF h, l
<1> QED BY <1>2, <1>3, <1>4 DEF a

\* The facts of an observation after nodes 1 to k.
TakenUpTo(f, ns, k) ==
  [led |-> f.led,
   voted |-> f.voted \cup UNION {VotedBy(n, ns[n]) : n \in 1..k},
   committed |-> f.committed \cup UNION {CommitsOf(ns[n]) : n \in 1..k},
   applied |-> f.applied \cup UNION {AppliesOf(ns[n]) : n \in 1..k},
   snapshots |-> f.snapshots \cup UNION {SnapOf(ns[n]) : n \in 1..k},
   terms |-> f.terms \cup {<<n, ns[n].term>> : n \in 1..k},
   commits |-> f.commits \cup {<<n, ns[n].commit>> : n \in 1..k},
   appliedTo |-> f.appliedTo \cup {<<n, ns[n].appliedIndex>> : n \in 1..k},
   broken |-> f.broken \cup {s \in Broken : \E n \in 1..k : NodeBroken(f, n, ns[n], s)},
   missing |-> f.missing,
   uncertified |-> f.uncertified]

\* The same facts.
SameFacts(f, g) ==
  /\ g.led = f.led /\ g.missing = f.missing /\ g.uncertified = f.uncertified
  /\ g.voted = f.voted /\ g.committed = f.committed /\ g.applied = f.applied /\ g.snapshots = f.snapshots
  /\ g.terms = f.terms /\ g.commits = f.commits /\ g.appliedTo = f.appliedTo /\ g.broken = f.broken

\* The nodes up to k are those before k, and k.
LEMMA OneMore == \A k \in Nat : k # 0 => k - 1 \in Nat /\ 1..k = 1..(k - 1) \cup {k} /\ k \notin 1..(k - 1)
OBVIOUS

\* Other nodes do not change what is below a value of this one.
LEMMA BelowOthers ==
  ASSUME NEW S, NEW T, NEW n, NEW v, \A x \in T : x[1] # n
  PROVE  Below(S \cup T, n, v) <=> Below(S, n, v)
BY DEF Below

\* Node k taken up after those before it.
LEMMA TakesNext ==
  ASSUME NEW f, NEW ns, NEW k \in Nat, k # 0
  PROVE  Takes(TakenUpTo(f, ns, k - 1), TakenUpTo(f, ns, k), k, ns[k])
<1> DEFINE g == TakenUpTo(f, ns, k - 1)
           h == TakenUpTo(f, ns, k)
<1>1. k - 1 \in Nat /\ 1..k = 1..(k - 1) \cup {k} /\ k \notin 1..(k - 1)
  BY OneMore
<1>2. /\ h.voted = g.voted \cup VotedBy(k, ns[k])
      /\ h.committed = g.committed \cup CommitsOf(ns[k])
      /\ h.applied = g.applied \cup AppliesOf(ns[k])
      /\ h.snapshots = g.snapshots \cup SnapOf(ns[k])
  BY <1>1 DEF TakenUpTo
<1>3. /\ h.terms = g.terms \cup {<<k, ns[k].term>>}
      /\ h.commits = g.commits \cup {<<k, ns[k].commit>>}
      /\ h.appliedTo = g.appliedTo \cup {<<k, ns[k].appliedIndex>>}
  BY <1>1 DEF TakenUpTo
<1>4. \A s : NodeBroken(g, k, ns[k], s) <=> NodeBroken(f, k, ns[k], s)
  <2> DEFINE T == {<<n, ns[n].term>> : n \in 1..(k - 1)}
             C == {<<n, ns[n].commit>> : n \in 1..(k - 1)}
             A == {<<n, ns[n].appliedIndex>> : n \in 1..(k - 1)}
  <2>1. (\A x \in T : x[1] # k) /\ (\A x \in C : x[1] # k) /\ (\A x \in A : x[1] # k)
    BY <1>1
  <2>2. g.terms = f.terms \cup T /\ g.commits = f.commits \cup C /\ g.appliedTo = f.appliedTo \cup A
    BY DEF TakenUpTo
  <2> HIDE DEF T, C, A, g
  <2>3. \A v : /\ Below(g.terms, k, v) <=> Below(f.terms, k, v)
               /\ Below(g.commits, k, v) <=> Below(f.commits, k, v)
               /\ Below(g.appliedTo, k, v) <=> Below(f.appliedTo, k, v)
    BY <2>1, <2>2, BelowOthers
  <2> QED BY <2>3 DEF NodeBroken
<1>5. \A s : s \in h.broken <=> s \in g.broken \/ NodeBroken(g, k, ns[k], s)
  <2>1. \A s : NodeBroken(f, k, ns[k], s) => s \in Broken
    BY DEF NodeBroken, Broken
  <2>2. \A s : s \in h.broken <=> s \in f.broken \/ (s \in Broken /\ \E n \in 1..k : NodeBroken(f, n, ns[n], s))
    BY DEF TakenUpTo
  <2>3. \A s : s \in g.broken <=> s \in f.broken \/ (s \in Broken /\ \E n \in 1..(k - 1) : NodeBroken(f, n, ns[n], s))
    BY DEF TakenUpTo
  <2> HIDE DEF g, h
  <2> QED BY <1>1, <1>4, <2>1, <2>2, <2>3
<1> HIDE DEF g, h
<1>6. Takes(g, h, k, ns[k])
  <2>1. h.led = g.led /\ h.missing = g.missing /\ h.uncertified = g.uncertified
    BY DEF TakenUpTo, g, h
  <2> QED BY <1>2, <1>3, <1>5, <2>1 DEF Takes
<1> QED BY <1>6 DEF g, h

\* No node taken up.
LEMMA TakesNone ==
  ASSUME NEW f, NEW ns
  PROVE  SameFacts(f, TakenUpTo(f, ns, 0))
<1>1. 1..0 = {}
  OBVIOUS
<1> QED BY <1>1 DEF TakenUpTo, SameFacts

-----------------------------------------------------------------------------
(* A node that comes again.                                                *)

\* The history has all that the node would add, and has found all there is.
Covers(c, n, o) ==
  /\ o.term <= c.durableTerms[n] /\ o.commit <= c.commitIndexes[n] /\ o.appliedIndex <= c.appliedIndexes[n]
  /\ DOMAIN VotesOf(n, o) \subseteq DOMAIN c.votes
  /\ DOMAIN CommittedOf(n, o) \subseteq DOMAIN c.committed
  /\ DOMAIN AppliedOf(n, o) \subseteq DOMAIN c.applied
  /\ DOMAIN SnapshotsOf(n, o) \subseteq DOMAIN c.snapshots
Settled(c, n, o) == Covers(c, n, o) /\ NodeFindings(c, n, o) \subseteq Found(c)

\* d has what f has.
Preserves(f, d) == \A k \in DOMAIN f : k \in DOMAIN d /\ d[k] = f[k]

\* A later history, in which other nodes or leaders were taken up.
Later(c, d, n) ==
  /\ d.durableTerms[n] = c.durableTerms[n] /\ d.commitIndexes[n] = c.commitIndexes[n]
  /\ d.appliedIndexes[n] = c.appliedIndexes[n]
  /\ Preserves(c.votes, d.votes) /\ Preserves(c.committed, d.committed)
  /\ Preserves(c.applied, d.applied) /\ Preserves(c.snapshots, d.snapshots)
  /\ 0 \notin DOMAIN d.snapshots
  /\ Found(c) \subseteq Found(d)

\* A settled node stays settled in a later history.
LEMMA SettledStays ==
  ASSUME NEW c, NEW d, NEW n, NEW o, Settled(c, n, o), Later(c, d, n)
  PROVE  Settled(d, n, o)
<1>1. Covers(d, n, o)
  BY DEF Settled, Covers, Later, Preserves
<1>2. checkDurableHistory(d, n, o) \subseteq checkDurableHistory(c, n, o)
  <2>1. d.durableTerms[n] = c.durableTerms[n]
    BY DEF Later
  <2>2. ASSUME NEW k \in {l \in DOMAIN d.votes \cap {<<n, o.term>>} : o.votedFor # Nil /\ d.votes[l] # o.votedFor}
        PROVE  /\ k \in {l \in DOMAIN c.votes \cap {<<n, o.term>>} : o.votedFor # Nil /\ c.votes[l] # o.votedFor}
               /\ d.votes[k] = c.votes[k]
    <3>1. k = <<n, o.term>> /\ o.votedFor # Nil /\ d.votes[k] # o.votedFor
      OBVIOUS
    <3>2. k \in DOMAIN VotesOf(n, o)
      BY <3>1 DEF VotesOf
    <3>3. k \in DOMAIN c.votes /\ d.votes[k] = c.votes[k]
      BY <3>2 DEF Settled, Covers, Later, Preserves
    <3> QED BY <3>1, <3>3
  <2> QED BY <2>1, <2>2 DEF checkDurableHistory
<1>3. checkCommittedHistory(d, n, o) \subseteq checkCommittedHistory(c, n, o)
  <2>1. d.commitIndexes[n] = c.commitIndexes[n]
    BY DEF Later
  <2>2. \A i \in committedBy(o) : i \in DOMAIN c.committed /\ d.committed[i] = c.committed[i]
    <3>1. DOMAIN CommittedOf(n, o) = committedBy(o)
      BY DEF CommittedOf
    <3> QED BY <3>1 DEF Settled, Covers, Later, Preserves
  <2> QED BY <2>1, <2>2 DEF checkCommittedHistory
<1>4. checkAppliedHistory(d, n, o) \subseteq checkAppliedHistory(c, n, o)
  <2>1. d.appliedIndexes[n] = c.appliedIndexes[n]
    BY DEF Later
  <2>2. \A i \in DOMAIN o.applied : i \in DOMAIN c.applied /\ d.applied[i] = c.applied[i]
    <3>1. DOMAIN AppliedOf(n, o) = DOMAIN o.applied
      BY DEF AppliedOf
    <3> QED BY <3>1 DEF Settled, Covers, Later, Preserves
  <2> QED BY <2>1, <2>2 DEF checkAppliedHistory
<1>5. checkMembershipHistory(d, n, o) = checkMembershipHistory(c, n, o)
  BY DEF checkMembershipHistory
<1>6. checkSnapshotHistory(d, n, o) \subseteq checkSnapshotHistory(c, n, o)
  <2>1. ASSUME NEW i \in {j \in {o.snap.index} \cap DOMAIN d.snapshots : d.snapshots[j].snap # o.snap}
        PROVE  /\ i \in {j \in {o.snap.index} \cap DOMAIN c.snapshots : c.snapshots[j].snap # o.snap}
               /\ d.snapshots[i] = c.snapshots[i]
    <3>1. i = o.snap.index /\ i # 0 /\ d.snapshots[i].snap # o.snap
      BY DEF Later
    <3>2. i \in DOMAIN SnapshotsOf(n, o)
      BY <3>1 DEF SnapshotsOf
    <3>3. i \in DOMAIN c.snapshots /\ d.snapshots[i] = c.snapshots[i]
      BY <3>2 DEF Settled, Covers, Later, Preserves
    <3> QED BY <3>1, <3>3
  <2> QED BY <2>1 DEF checkSnapshotHistory
<1>7. NodeFindings(d, n, o) \subseteq NodeFindings(c, n, o)
  BY <1>2, <1>3, <1>4, <1>5, <1>6 DEF NodeFindings
<1>8. NodeFindings(c, n, o) \subseteq Found(c) /\ Found(c) \subseteq Found(d)
  BY DEF Settled, Later
<1> QED BY <1>1, <1>7, <1>8 DEF Settled

\* Values that Greatest kept.
LEMMA GreatestKeeps ==
  \A a, b \in Nat : /\ b <= Greatest(a, b) /\ Greatest(a, b) \in Nat
                    /\ b < Greatest(a, b) => Greatest(a, b) = a
BY DEF Greatest

\* A node is settled once it was taken up.
LEMMA NodeSettles ==
  ASSUME NEW c, NEW d, HistoryOK(c), NEW n \in Server, NEW o \in Observable, Witnessed(c, d, n, o),
         0 \notin DOMAIN d.snapshots, Found(d) = Found(c) \cup NodeFindings(c, n, o)
  PROVE  Settled(d, n, o)
<1>1. /\ c.durableTerms \in [Server -> Nat] /\ c.commitIndexes \in [Server -> Nat]
      /\ c.appliedIndexes \in [Server -> Nat]
  BY DEF HistoryOK
<1>2. o.term \in Nat /\ o.commit \in Nat /\ o.appliedIndex \in Nat
  BY BoundsAssumption DEF Observable
<1>3. /\ d.durableTerms[n] = Greatest(c.durableTerms[n], o.term)
      /\ d.commitIndexes[n] = Greatest(c.commitIndexes[n], o.commit)
      /\ d.appliedIndexes[n] = Greatest(c.appliedIndexes[n], o.appliedIndex)
  BY <1>1 DEF Witnessed
<1>4. /\ d.votes = keeping(c.votes, VotesOf(n, o)) /\ d.committed = keeping(c.committed, CommittedOf(n, o))
       /\ d.applied = keeping(c.applied, AppliedOf(n, o)) /\ d.snapshots = keeping(c.snapshots, SnapshotsOf(n, o))
  BY DEF Witnessed
<1>5. /\ DOMAIN d.votes = DOMAIN c.votes \cup DOMAIN VotesOf(n, o)
      /\ \A k \in DOMAIN c.votes : d.votes[k] = c.votes[k]
      /\ \A k \in DOMAIN VotesOf(n, o) \ DOMAIN c.votes : d.votes[k] = VotesOf(n, o)[k]
  BY <1>4 DEF keeping
<1>6. /\ DOMAIN d.committed = DOMAIN c.committed \cup DOMAIN CommittedOf(n, o)
      /\ \A k \in DOMAIN c.committed : d.committed[k] = c.committed[k]
      /\ \A k \in DOMAIN CommittedOf(n, o) \ DOMAIN c.committed : d.committed[k] = CommittedOf(n, o)[k]
  BY <1>4 DEF keeping
<1>7. /\ DOMAIN d.applied = DOMAIN c.applied \cup DOMAIN AppliedOf(n, o)
      /\ \A k \in DOMAIN c.applied : d.applied[k] = c.applied[k]
      /\ \A k \in DOMAIN AppliedOf(n, o) \ DOMAIN c.applied : d.applied[k] = AppliedOf(n, o)[k]
  BY <1>4 DEF keeping
<1>8. /\ DOMAIN d.snapshots = DOMAIN c.snapshots \cup DOMAIN SnapshotsOf(n, o)
      /\ \A k \in DOMAIN c.snapshots : d.snapshots[k] = c.snapshots[k]
      /\ \A k \in DOMAIN SnapshotsOf(n, o) \ DOMAIN c.snapshots : d.snapshots[k] = SnapshotsOf(n, o)[k]
  BY <1>4 DEF keeping
<1>9. /\ o.term <= d.durableTerms[n] /\ o.commit <= d.commitIndexes[n] /\ o.appliedIndex <= d.appliedIndexes[n]
      /\ o.term < d.durableTerms[n] => d.durableTerms[n] = c.durableTerms[n]
      /\ o.commit < d.commitIndexes[n] => d.commitIndexes[n] = c.commitIndexes[n]
      /\ o.appliedIndex < d.appliedIndexes[n] => d.appliedIndexes[n] = c.appliedIndexes[n]
  <2>1. c.durableTerms[n] \in Nat /\ c.commitIndexes[n] \in Nat /\ c.appliedIndexes[n] \in Nat
    BY <1>1
  <2>2. /\ o.term <= d.durableTerms[n] /\ (o.term < d.durableTerms[n] => d.durableTerms[n] = c.durableTerms[n])
    BY <1>2, <1>3, <2>1, GreatestKeeps
  <2>3. /\ o.commit <= d.commitIndexes[n]
        /\ o.commit < d.commitIndexes[n] => d.commitIndexes[n] = c.commitIndexes[n]
    BY <1>2, <1>3, <2>1, GreatestKeeps
  <2>4. /\ o.appliedIndex <= d.appliedIndexes[n]
        /\ o.appliedIndex < d.appliedIndexes[n] => d.appliedIndexes[n] = c.appliedIndexes[n]
    BY <1>2, <1>3, <2>1, GreatestKeeps
  <2> QED BY <2>2, <2>3, <2>4
<1>10. Covers(d, n, o)
  BY <1>5, <1>6, <1>7, <1>8, <1>9 DEF Covers
<1>11. checkDurableHistory(d, n, o) \subseteq checkDurableHistory(c, n, o)
  <2>1. ASSUME NEW k \in {l \in DOMAIN d.votes \cap {<<n, o.term>>} : o.votedFor # Nil /\ d.votes[l] # o.votedFor}
        PROVE  /\ k \in {l \in DOMAIN c.votes \cap {<<n, o.term>>} : o.votedFor # Nil /\ c.votes[l] # o.votedFor}
               /\ d.votes[k] = c.votes[k]
    <3>1. k = <<n, o.term>> /\ o.votedFor # Nil /\ d.votes[k] # o.votedFor /\ k \in DOMAIN d.votes
      OBVIOUS
    <3>2. VotesOf(n, o)[k] = o.votedFor
      BY <3>1 DEF VotesOf
    <3>3. k \in DOMAIN c.votes /\ d.votes[k] = c.votes[k]
      BY <1>5, <3>1, <3>2
    <3> QED BY <3>1, <3>3
  <2>2. only(o.term < d.durableTerms[n], <<"durable-term-monotonic", names(<<n>>), d.durableTerms[n], o.term>>)
          \subseteq only(o.term < c.durableTerms[n], <<"durable-term-monotonic", names(<<n>>), c.durableTerms[n], o.term>>)
    BY <1>9 DEF only
  <2> QED BY <2>1, <2>2 DEF checkDurableHistory
<1>12. checkCommittedHistory(d, n, o) \subseteq checkCommittedHistory(c, n, o)
  <2>1. ASSUME NEW i \in {j \in committedBy(o) \cap DOMAIN d.committed : d.committed[j].entry # entryAt(o, j)}
        PROVE  /\ i \in {j \in committedBy(o) \cap DOMAIN c.committed : c.committed[j].entry # entryAt(o, j)}
               /\ d.committed[i] = c.committed[i]
    <3>1. i \in committedBy(o) => CommittedOf(n, o)[i].entry = entryAt(o, i)
      BY DEF CommittedOf
    <3> QED BY <1>6, <3>1
  <2>2. only(o.commit < d.commitIndexes[n], <<"commit-monotonic", names(<<n>>), d.commitIndexes[n], o.commit>>)
          \subseteq only(o.commit < c.commitIndexes[n], <<"commit-monotonic", names(<<n>>), c.commitIndexes[n], o.commit>>)
    BY <1>9 DEF only
  <2> QED BY <2>1, <2>2 DEF checkCommittedHistory
<1>13. checkAppliedHistory(d, n, o) \subseteq checkAppliedHistory(c, n, o)
  <2>1. ASSUME NEW i \in {j \in DOMAIN o.applied \cap DOMAIN d.applied : d.applied[j].entry # o.applied[j]}
        PROVE  /\ i \in {j \in DOMAIN o.applied \cap DOMAIN c.applied : c.applied[j].entry # o.applied[j]}
               /\ d.applied[i] = c.applied[i]
    <3>1. i \in DOMAIN o.applied => AppliedOf(n, o)[i].entry = o.applied[i]
      BY DEF AppliedOf
    <3> QED BY <1>7, <3>1
  <2>2. only(o.appliedIndex < d.appliedIndexes[n], <<"applied-monotonic", names(<<n>>), d.appliedIndexes[n], o.appliedIndex>>)
          \subseteq only(o.appliedIndex < c.appliedIndexes[n], <<"applied-monotonic", names(<<n>>), c.appliedIndexes[n], o.appliedIndex>>)
    BY <1>9 DEF only
  <2> QED BY <2>1, <2>2 DEF checkAppliedHistory
<1>14. checkMembershipHistory(d, n, o) = checkMembershipHistory(c, n, o)
  BY DEF checkMembershipHistory
<1>15. checkSnapshotHistory(d, n, o) \subseteq checkSnapshotHistory(c, n, o)
  <2>1. ASSUME NEW i \in {j \in {o.snap.index} \cap DOMAIN d.snapshots : d.snapshots[j].snap # o.snap}
        PROVE  /\ i \in {j \in {o.snap.index} \cap DOMAIN c.snapshots : c.snapshots[j].snap # o.snap}
               /\ d.snapshots[i] = c.snapshots[i]
    <3>1. i = o.snap.index /\ i # 0 /\ d.snapshots[i].snap # o.snap /\ i \in DOMAIN d.snapshots
      OBVIOUS
    <3>2. SnapshotsOf(n, o)[i].snap = o.snap
      BY <3>1 DEF SnapshotsOf
    <3>3. i \in DOMAIN c.snapshots /\ d.snapshots[i] = c.snapshots[i]
      BY <1>8, <3>1, <3>2
    <3> QED BY <3>1, <3>3
  <2> QED BY <2>1 DEF checkSnapshotHistory
<1>16. NodeFindings(d, n, o) \subseteq NodeFindings(c, n, o)
  BY <1>11, <1>12, <1>13, <1>14, <1>15 DEF NodeFindings
<1> QED BY <1>10, <1>16 DEF Settled

\* Taking up a settled node changes nothing.
LEMMA SettledIsStill ==
  ASSUME NEW c, HistoryOK(c), NEW at, NEW n \in Server, NEW o \in Observable, Settled(c, n, o)
  PROVE  checkNode(c, at, n, o) = c
<1>1. add(c, at, NodeFindings(c, n, o)) = c
  BY AddAdds DEF Settled
<1>2. checkNode(c, at, n, o) = witnessed(c, n, o)
  BY <1>1 DEF checkNode, NodeFindings
<1> DEFINE d == checkNode(c, at, n, o)
<1>3. HistoryOK(d) /\ Witnessed(c, d, n, o)
  BY NodeChecked
<1>4. c = [k \in DOMAIN c |-> c[k]] /\ DOMAIN c = Ledgers
  BY DEF HistoryOK, IsHistory, IsFunction
<1>5. d.seen = c.seen /\ d.violations = c.violations
  BY <1>2, <1>4 DEF witnessed, Ledgers
<1>6. d = [k \in DOMAIN d |-> d[k]] /\ DOMAIN d = Ledgers
  BY <1>3 DEF HistoryOK, IsHistory, IsFunction
<1> HIDE DEF d
<1>7. Covers(c, n, o)
  BY DEF Settled
<1>8. d.votes = c.votes /\ d.committed = c.committed /\ d.applied = c.applied /\ d.snapshots = c.snapshots
  <2>1. /\ d.votes = keeping(c.votes, VotesOf(n, o)) /\ d.committed = keeping(c.committed, CommittedOf(n, o))
        /\ d.applied = keeping(c.applied, AppliedOf(n, o)) /\ d.snapshots = keeping(c.snapshots, SnapshotsOf(n, o))
    BY <1>3 DEF Witnessed
  <2>2. /\ IsFunction(c.votes) /\ IsFunction(c.committed) /\ IsFunction(c.applied) /\ IsFunction(c.snapshots)
    BY DEF HistoryOK
  <2>3. \A f, g : IsFunction(f) /\ DOMAIN g \subseteq DOMAIN f => keeping(f, g) = f
    BY KeepingKeeps
  <2> QED BY <1>7, <2>1, <2>2, <2>3 DEF Covers
<1>9. /\ d.durableTerms = c.durableTerms /\ d.commitIndexes = c.commitIndexes
      /\ d.appliedIndexes = c.appliedIndexes
  <2>1. /\ c.durableTerms \in [Server -> Nat] /\ c.commitIndexes \in [Server -> Nat]
        /\ c.appliedIndexes \in [Server -> Nat]
    BY DEF HistoryOK
  <2>2. o.term \in Nat /\ o.commit \in Nat /\ o.appliedIndex \in Nat
    BY BoundsAssumption DEF Observable
  <2>3. /\ Greatest(c.durableTerms[n], o.term) = c.durableTerms[n]
        /\ Greatest(c.commitIndexes[n], o.commit) = c.commitIndexes[n]
        /\ Greatest(c.appliedIndexes[n], o.appliedIndex) = c.appliedIndexes[n]
    BY <1>7, <2>1, <2>2 DEF Covers, Greatest
  <2>4. \A f \in [Server -> Nat] : \A v : v = f[n] => [f EXCEPT ![n] = v] = f
    OBVIOUS
  <2> QED BY <1>3, <2>1, <2>3, <2>4 DEF Witnessed
<1>10. \A k \in Ledgers : d[k] = c[k]
  BY <1>3, <1>5, <1>8, <1>9 DEF Ledgers, Witnessed
<1>11. d = c
  BY <1>4, <1>6, <1>10
<1> QED BY <1>11 DEF d
-----------------------------------------------------------------------------
(* Logs against each other.                                                *)

\* checkPair finds exactly the logs that disagree.
LEMMA PairChecked ==
  ASSUME NEW a, NEW b, NEW l \in Observable, NEW r \in Observable
  PROVE  /\ checkPair(a, b, l, r) # {} <=> LogsDisagree(l, r)
         /\ \A x \in checkPair(a, b, l, r) : x[1] = "log-matching"
<1> DEFINE shared == held(l) \cap held(r)
           differ == {i \in shared : entryAt(l, i) # entryAt(r, i)}
           first == CHOOSE i \in differ : \A j \in differ : i <= j
           bad == {j \in shared : differ # {} /\ first <= j /\ entryAt(l, j).term = entryAt(r, j).term}
<1>1. checkPair(a, b, l, r) = {<<"log-matching", names(<<a, b>>), i, first, entryAt(l, i).term>> : i \in bad}
  BY DEF checkPair
<1>2. shared \subseteq Nat
  BY SMTT(40) DEF held, stateLastIndex, Observable
<1>3. differ # {} => first \in differ /\ \A j \in differ : first <= j
  BY <1>2, LeastElement
<1>4. LogsDisagree(l, r) <=>
        \E i \in shared : entryAt(l, i).term = entryAt(r, i).term /\ \E j \in differ : j <= i
  BY DEF LogsDisagree
<1>5. ASSUME NEW x \in checkPair(a, b, l, r) PROVE x[1] = "log-matching"
  <2>1. PICK i : x = <<"log-matching", names(<<a, b>>), i, first, entryAt(l, i).term>>
    BY <1>1
  <2> QED BY <2>1
<1>6. checkPair(a, b, l, r) # {} <=> bad # {}
  BY <1>1
<1>7. bad # {} <=> \E i \in shared : entryAt(l, i).term = entryAt(r, i).term /\ differ # {} /\ first <= i
  OBVIOUS
<1> HIDE DEF first, bad
<1>8. differ \subseteq shared
  OBVIOUS
<1> HIDE DEF shared, differ
<1>9. \A i \in shared : (\E j \in differ : j <= i) <=> differ # {} /\ first <= i
  <2>1. SUFFICES ASSUME NEW i \in shared PROVE (\E j \in differ : j <= i) <=> differ # {} /\ first <= i
    OBVIOUS
  <2>2. i \in Nat /\ \A j \in differ : j \in Nat
    BY <1>2, <1>8
  <2>3. ASSUME NEW j \in differ, j <= i PROVE differ # {} /\ first <= i
    <3>1. first \in differ /\ first <= j
      BY <1>3
    <3>2. first \in Nat /\ j \in Nat
      BY <2>2, <3>1
    <3> QED BY <2>2, <2>3, <3>1, <3>2
  <2> QED BY <1>3, <2>3
<1>10. LogsDisagree(l, r) <=> bad # {}
  BY <1>4, <1>7, <1>9
<1> QED BY <1>5, <1>6, <1>10

\* Disagreement does not depend on which log comes first.
LEMMA DisagreeBoth == \A l, r : LogsDisagree(l, r) <=> LogsDisagree(r, l)
BY DEF LogsDisagree

SomeLogsDisagree(ns) == \E n \in Server : \E m \in Server \ {n} : LogsDisagree(ns[n], ns[m])

\* checkLogs, which compares every pair once, finds exactly the logs that disagree.
LEMMA LogsChecked ==
  ASSUME NEW ns, \A n \in Server : ns[n] \in Observable
  PROVE  /\ Has(checkLogs(ns), "log-matching") <=> SomeLogsDisagree(ns)
         /\ \A x \in checkLogs(ns) : x[1] = "log-matching"
<1> DEFINE pair(p) == checkPair(p[1], p[2], ns[p[1]], ns[p[2]])
<1>1. checkLogs(ns) = UNION {pair(p) : p \in {q \in Server \X Server : q[1] < q[2]}}
  BY DEF checkLogs
<1>2. ASSUME NEW p \in {q \in Server \X Server : q[1] < q[2]}
      PROVE  /\ pair(p) # {} <=> LogsDisagree(ns[p[1]], ns[p[2]])
             /\ \A x \in pair(p) : x[1] = "log-matching"
  <2>1. ns[p[1]] \in Observable /\ ns[p[2]] \in Observable
    OBVIOUS
  <2> QED BY <2>1, PairChecked
<1> HIDE DEF pair
<1>3. \A x \in checkLogs(ns) : x[1] = "log-matching"
  BY <1>1, <1>2
<1>4. Has(checkLogs(ns), "log-matching") <=>
        \E p \in {q \in Server \X Server : q[1] < q[2]} : LogsDisagree(ns[p[1]], ns[p[2]])
  BY <1>1, <1>2, <1>3 DEF Has
<1>5. ASSUME NEW n \in Server, NEW m \in Server \ {n}, LogsDisagree(ns[n], ns[m])
      PROVE  \E p \in {q \in Server \X Server : q[1] < q[2]} : LogsDisagree(ns[p[1]], ns[p[2]])
  <2>1. n \in Nat /\ m \in Nat /\ n # m
    BY Universe
  <2>2. CASE n < m
    <3>1. <<n, m>> \in {q \in Server \X Server : q[1] < q[2]} /\ <<n, m>>[1] = n /\ <<n, m>>[2] = m
      BY <2>2
    <3> QED BY <1>5, <3>1
  <2>3. CASE m < n
    <3>1. <<m, n>> \in {q \in Server \X Server : q[1] < q[2]} /\ <<m, n>>[1] = m /\ <<m, n>>[2] = n
      BY <2>3
    <3>2. LogsDisagree(ns[m], ns[n])
      BY <1>5, DisagreeBoth
    <3> QED BY <3>1, <3>2
  <2> QED BY <2>1, <2>2, <2>3
<1>6. ASSUME NEW p \in {q \in Server \X Server : q[1] < q[2]}, LogsDisagree(ns[p[1]], ns[p[2]])
      PROVE  SomeLogsDisagree(ns)
  <2>1. p[1] \in Server /\ p[2] \in Server /\ p[1] < p[2] /\ p[1] \in Nat /\ p[2] \in Nat
    BY Universe
  <2>2. p[2] \in Server \ {p[1]}
    BY <2>1
  <2> QED BY <1>6, <2>1, <2>2 DEF SomeLogsDisagree
<1>7. Has(checkLogs(ns), "log-matching") <=> SomeLogsDisagree(ns)
  BY <1>4, <1>5, <1>6 DEF SomeLogsDisagree
<1> QED BY <1>3, <1>7

-----------------------------------------------------------------------------
(* Leaders against the history.                                            *)

\* What a leader adds to the ledger of leaders, and what is found of it.
LeadersOf(n, o) == IF isLeader(o) THEN [t \in {o.statusTerm} |-> n] ELSE <<>>
LeaderFindings(c, n, o) == IF isLeader(o) THEN checkLeader(c, n, o) ELSE {}

\* The ledgers after it.
Enrolled(c, d, n, o) ==
  /\ d.leaders = keeping(c.leaders, LeadersOf(n, o))
  /\ d.votes = c.votes /\ d.durableTerms = c.durableTerms
  /\ d.commitIndexes = c.commitIndexes /\ d.appliedIndexes = c.appliedIndexes
  /\ d.committed = c.committed /\ d.applied = c.applied /\ d.snapshots = c.snapshots

\* checkLeaderNode enrols a leader and adds what was found of it.
LEMMA LeaderChecked ==
  ASSUME NEW c, HistoryOK(c), NEW at, NEW n \in Server, NEW o
  PROVE  LET d == checkLeaderNode(c, at, n, o)
         IN /\ HistoryOK(d) /\ Enrolled(c, d, n, o)
            /\ Found(d) = Found(c) \cup LeaderFindings(c, n, o)
            /\ (LeaderFindings(c, n, o) \subseteq Found(c) /\ DOMAIN LeadersOf(n, o) \subseteq DOMAIN c.leaders) => d = c
<1> DEFINE d == checkLeaderNode(c, at, n, o)
           F == LeaderFindings(c, n, o)
<1>1. /\ IsHistory(c) /\ IsFunction(c.leaders)
  BY DEF HistoryOK
<1>2. CASE ~isLeader(o)
  <2>1. d = c /\ F = {} /\ LeadersOf(n, o) = <<>>
    BY <1>2 DEF checkLeaderNode, LeaderFindings, LeadersOf
  <2>2. keeping(c.leaders, <<>>) = c.leaders
    BY <1>1, NothingAdded
  <2>3. Enrolled(c, d, n, o)
    BY <2>1, <2>2 DEF Enrolled
  <2> QED BY <2>1, <2>3
<1>3. CASE isLeader(o)
  <2> DEFINE a == add(c, at, checkLeader(c, n, o))
             e == [a EXCEPT !.leaders = keeping(@, [t \in {o.statusTerm} |-> n])]
  <2>1. d = e /\ F = checkLeader(c, n, o) /\ LeadersOf(n, o) = [t \in {o.statusTerm} |-> n]
    BY <1>3 DEF checkLeaderNode, LeaderFindings, LeadersOf
  <2>2. /\ HistoryOK(a) /\ SameLedgers(c, a) /\ Found(a) = Found(c) \cup F
        /\ F \subseteq Found(c) => a = c
    BY <2>1, AddAdds
  <2> HIDE DEF a, d, F
  <2>3. a = [k \in DOMAIN a |-> a[k]] /\ DOMAIN a = Ledgers
    BY <2>2 DEF HistoryOK, IsHistory, IsFunction
  <2>4. /\ e.leaders = keeping(a.leaders, LeadersOf(n, o)) /\ e.votes = a.votes /\ e.durableTerms = a.durableTerms
        /\ e.commitIndexes = a.commitIndexes /\ e.appliedIndexes = a.appliedIndexes
        /\ e.committed = a.committed /\ e.applied = a.applied /\ e.snapshots = a.snapshots
        /\ e.seen = a.seen /\ e.violations = a.violations
    BY <2>1, <2>3 DEF Ledgers
  <2>5. DOMAIN e = Ledgers /\ IsFunction(e)
    BY <2>3 DEF IsFunction
  <2> HIDE DEF e
  <2>6. Enrolled(c, e, n, o)
    BY <2>2, <2>4 DEF Enrolled, SameLedgers
  <2>7. Found(e) = Found(a)
    BY <2>4 DEF Found
  <2>8. IsFunction(e.leaders)
    <3>1. \A f, g : IsFunction(keeping(f, g))
      BY KeepingKeeps
    <3> QED BY <2>4, <3>1
  <2>9. HistoryOK(e)
    BY <2>2, <2>4, <2>5, <2>7, <2>8 DEF HistoryOK, IsHistory
  <2>10. ASSUME F \subseteq Found(c), DOMAIN LeadersOf(n, o) \subseteq DOMAIN c.leaders PROVE e = c
    <3>1. a = c
      BY <2>2, <2>10
    <3>2. e.leaders = c.leaders
      BY <1>1, <2>4, <2>10, <3>1, KeepingKeeps, ZenonT(40)
    <3>3. \A k \in Ledgers : e[k] = c[k]
      BY <2>4, <3>1, <3>2 DEF Ledgers
    <3> QED BY <1>1, <2>5, <3>3 DEF IsHistory, IsFunction
  <2> QED BY <2>1, <2>2, <2>6, <2>7, <2>9, <2>10 DEF d, F
<1> QED BY <1>2, <1>3 DEF d, F

\* The three alarms of a leader.
SafetyOf(c, n, o) ==
  {<<"election-safety", names(<<c.leaders[t], n>>), t>> :
     t \in {u \in {o.statusTerm} \cap DOMAIN c.leaders : c.leaders[u] # n}}
Elects(m, S) == validateMembership(m) /\ quorum(m, S)
CertificateOf(c, n, o) ==
  only(~Elects(electedBy(o), certified(c, n, o)),
       <<"election-certificate", names(<<n>>), o.statusTerm, certified(c, n, o), electedBy(o)>>)
CompletenessOf(c, n, o) ==
  {<<"leader-completeness", names(<<n, c.committed[i].node>>), o.statusTerm, i, c.committed[i]>> :
     i \in {j \in mustHold(c, o) : j \notin held(o) \/ entryAt(o, j) # c.committed[j].entry}}

\* The findings of checkLeader, one by one.
LEMMA LeaderAlarms ==
  ASSUME NEW c, NEW n, NEW o
  PROVE  checkLeader(c, n, o) = SafetyOf(c, n, o) \cup CertificateOf(c, n, o) \cup CompletenessOf(c, n, o)
<1>1. ~Elects(electedBy(o), certified(c, n, o))
        <=> ~validateMembership(electedBy(o)) \/ ~quorum(electedBy(o), certified(c, n, o))
  BY DEF Elects
<1>2. CertificateOf(c, n, o)
        = only(~validateMembership(electedBy(o)) \/ ~quorum(electedBy(o), certified(c, n, o)),
               <<"election-certificate", names(<<n>>), o.statusTerm, certified(c, n, o), electedBy(o)>>)
  BY <1>1 DEF CertificateOf, only
<1> QED BY <1>2 DEF checkLeader, SafetyOf, CompletenessOf

LedBy(n, o) == IF isLeader(o) THEN {<<o.statusTerm, n>>} ELSE {}
LeadClash(c, n, o) == isLeader(o) /\ o.statusTerm \in DOMAIN c.leaders /\ c.leaders[o.statusTerm] # n

\* The ledger of leaders after one leader more.
LEMMA LeadersRemembered ==
  ASSUME NEW c, NEW f, First(c.leaders, f.led), NEW n, NEW o
  PROVE  /\ First(keeping(c.leaders, LeadersOf(n, o)), f.led \cup LedBy(n, o))
         /\ Conflict(f.led \cup LedBy(n, o)) <=> Conflict(f.led) \/ LeadClash(c, n, o)
<1> DEFINE T == LedBy(n, o)
           g == LeadersOf(n, o)
           x == <<o.statusTerm, n>>
<1>1. x[1] = o.statusTerm /\ x[2] = n
  OBVIOUS
<1>2. T = IF isLeader(o) THEN {x} ELSE {}
  BY DEF LedBy
<1>3. /\ ~isLeader(o) => DOMAIN g = {}
      /\ isLeader(o) => DOMAIN g = {o.statusTerm} /\ g[o.statusTerm] = n
  BY DEF LeadersOf
<1> HIDE DEF x, T, g
<1>4. First(g, T)
  BY <1>1, <1>2, <1>3 DEF First
<1>5. OnePerKey(T)
  BY <1>2 DEF OnePerKey
<1>6. Clash(c.leaders, T) <=> LeadClash(c, n, o)
  BY <1>1, <1>2 DEF Clash, LeadClash
<1>7. /\ First(keeping(c.leaders, g), f.led \cup T)
      /\ Conflict(f.led \cup T) <=> Conflict(f.led) \/ Clash(c.leaders, T)
  BY <1>4, <1>5, FirstKept
<1> QED BY <1>6, <1>7 DEF T, g

-----------------------------------------------------------------------------
(* Blame.                                                                  *)

\* x blames the leader of a term for an entry.
Blamed(F, t, i) == \E x \in F : x[1] = "leader-completeness" /\ x[3] = t /\ x[4] = i
\* What a leader misses was only ever seen committed no later than its term.
InTime(S, m) == \A x \in S : x[1] = m[2][1] => x[2] = m[2][2] /\ x[3] <= m[1]

\* The findings F against what leaders missed, and who had no certificate.
BlameJust(F, M) ==
  \A x \in F : x[1] = "leader-completeness" => \E m \in M : m[1] = x[3] /\ m[2][1] = x[4] /\ m[2][3] <= x[3]
BlameFull(F, M, S) == \A m \in M : InTime(S, m) => Blamed(F, m[1], m[2][1])
CertFull(F, U) == \A u \in U : \E x \in F : x[1] = "election-certificate" /\ u[1] \in DOMAIN x[2] /\ u[2] = x[3]
CertJust(F, U) == \A x \in F : x[1] = "election-certificate" => \A n \in DOMAIN x[2] : <<n, x[3]>> \in U

\* A leader without an entry seen committed, and one without a certificate.
MissingOf(f, n, o) ==
  IF isLeader(o)
  THEN {<<o.statusTerm, x>> :
          x \in {y \in f.committed : y[1] > o.snap.index /\ (y[1] \notin held(o) \/ entryAt(o, y[1]) # y[2])}}
  ELSE {}
Voters(f, n, o) == {v \in Server : <<<<v, o.statusTerm>>, n>> \in f.voted}
UncertifiedOf(f, n, o) ==
  IF isLeader(o) /\ ~Elects(electedBy(o), Voters(f, n, o)) THEN {<<n, o.statusTerm>>} ELSE {}

\* Just blame of two sets of findings is just blame of both.
LEMMA JustTogether ==
  ASSUME NEW F, NEW G, NEW M, NEW N, NEW S
  PROVE  /\ BlameJust(F, M) /\ BlameJust(G, N) => BlameJust(F \cup G, M \cup N)
         /\ BlameFull(F, M, S) /\ BlameFull(G, N, S) => BlameFull(F \cup G, M \cup N, S)
         /\ CertFull(F, M) /\ CertFull(G, N) => CertFull(F \cup G, M \cup N)
         /\ CertJust(F, M) /\ CertJust(G, N) => CertJust(F \cup G, M \cup N)
<1>1. BlameJust(F, M) /\ BlameJust(G, N) => BlameJust(F \cup G, M \cup N)
  BY DEF BlameJust
<1>2. BlameFull(F, M, S) /\ BlameFull(G, N, S) => BlameFull(F \cup G, M \cup N, S)
  BY DEF BlameFull, Blamed
<1>3. CertFull(F, M) /\ CertFull(G, N) => CertFull(F \cup G, M \cup N)
  BY DEF CertFull
<1>4. CertJust(F, M) /\ CertJust(G, N) => CertJust(F \cup G, M \cup N)
  BY DEF CertJust
<1> QED BY <1>1, <1>2, <1>3, <1>4

\* More facts excuse no blame that is due.
LEMMA BlameLasts ==
  ASSUME NEW F, NEW M, NEW S, NEW T, BlameFull(F, M, S), S \subseteq T
  PROVE  BlameFull(F, M, T)
BY DEF BlameFull, InTime

\* More voters are a quorum where fewer are one.
LEMMA QuorumGrows ==
  ASSUME NEW m \in Membership, NEW A, NEW B, A \subseteq B, B \subseteq Server, quorum(m, A)
  PROVE  quorum(m, B)
<1>1. IsFiniteSet(Server)
  BY ServerAssumption
<1>2. m.voters \subseteq Server /\ m.outgoing \subseteq Server
  BY DEF Membership
<1>3. ASSUME NEW V, V \subseteq Server, majorityMatches(V, A) PROVE majorityMatches(V, B)
  <2>1. IsFiniteSet(V) /\ IsFiniteSet(V \cap A) /\ IsFiniteSet(V \cap B) /\ V \cap A \subseteq V \cap B
    BY <1>1, <1>3, FS_Subset
  <2>2. Cardinality(V) \in Nat /\ Cardinality(V \cap A) \in Nat /\ Cardinality(V \cap B) \in Nat
    BY <2>1, FS_CardinalityType
  <2>3. Cardinality(V \cap A) <= Cardinality(V \cap B)
    BY <2>1, FS_Subset
  <2> QED BY <1>3, <2>2, <2>3 DEF majorityMatches
<1> QED BY <1>2, <1>3 DEF quorum

\* A leader is blamed for what was seen committed no later than its term.
LEMMA CompletenessJust ==
  ASSUME NEW c, NEW f, Remembers(c, f), NEW n, NEW o, isLeader(o)
  PROVE  BlameJust(CompletenessOf(c, n, o), MissingOf(f, n, o))
<1> SUFFICES ASSUME NEW x \in CompletenessOf(c, n, o)
             PROVE  \E m \in MissingOf(f, n, o) : m[1] = x[3] /\ m[2][1] = x[4] /\ m[2][3] <= x[3]
  BY DEF BlameJust
<1>1. PICK i : /\ i \in mustHold(c, o) /\ (i \notin held(o) \/ entryAt(o, i) # c.committed[i].entry)
               /\ x = <<"leader-completeness", names(<<n, c.committed[i].node>>), o.statusTerm, i, c.committed[i]>>
  BY DEF CompletenessOf
<1>2. x[3] = o.statusTerm /\ x[4] = i
  BY <1>1
<1>3. i \in DOMAIN c.committed /\ c.committed[i].commitTerm <= o.statusTerm /\ i > o.snap.index
  BY <1>1 DEF mustHold
<1> DEFINE y == <<i, c.committed[i].entry, c.committed[i].commitTerm>>
<1>4. y[1] = i /\ y[2] = c.committed[i].entry /\ y[3] = c.committed[i].commitTerm
  OBVIOUS
<1>5. y \in f.committed
  BY <1>3 DEF Remembers, Dated
<1> HIDE DEF y
<1>6. <<o.statusTerm, y>> \in MissingOf(f, n, o)
  BY <1>1, <1>3, <1>4, <1>5 DEF MissingOf
<1>7. <<o.statusTerm, y>>[1] = o.statusTerm /\ <<o.statusTerm, y>>[2] = y
  OBVIOUS
<1> QED BY <1>2, <1>3, <1>4, <1>6, <1>7

\* And it is blamed for what was never seen committed otherwise.
LEMMA CompletenessFull ==
  ASSUME NEW c, NEW f, Remembers(c, f), NEW n, NEW o, isLeader(o)
  PROVE  BlameFull(CompletenessOf(c, n, o), MissingOf(f, n, o), f.committed)
<1> SUFFICES ASSUME NEW m \in MissingOf(f, n, o), InTime(f.committed, m)
             PROVE  Blamed(CompletenessOf(c, n, o), m[1], m[2][1])
  BY DEF BlameFull
<1>1. PICK y \in f.committed : /\ y[1] > o.snap.index /\ (y[1] \notin held(o) \/ entryAt(o, y[1]) # y[2])
                               /\ m = <<o.statusTerm, y>>
  BY DEF MissingOf
<1>2. m[1] = o.statusTerm /\ m[2] = y
  BY <1>1
<1> DEFINE i == y[1]
           z == <<i, c.committed[i].entry, c.committed[i].commitTerm>>
<1>3. i \in DOMAIN c.committed
  <2>1. First(EntriesIn(c.committed), f.committed)
    BY DEF Remembers
  <2> QED BY <2>1 DEF First, EntriesIn
<1>4. z \in f.committed
  BY <1>3 DEF Remembers, Dated
<1>5. z[1] = i /\ z[2] = c.committed[i].entry /\ z[3] = c.committed[i].commitTerm
  OBVIOUS
<1> HIDE DEF z
<1>6. c.committed[i].entry = y[2] /\ c.committed[i].commitTerm <= o.statusTerm
  BY <1>2, <1>4, <1>5 DEF InTime
<1>7. i \in mustHold(c, o) /\ (i \notin held(o) \/ entryAt(o, i) # c.committed[i].entry)
  BY <1>1, <1>3, <1>6 DEF mustHold
<1> DEFINE x == <<"leader-completeness", names(<<n, c.committed[i].node>>), o.statusTerm, i, c.committed[i]>>
<1>8. x \in CompletenessOf(c, n, o)
  BY <1>7 DEF CompletenessOf
<1>9. x[1] = "leader-completeness" /\ x[3] = o.statusTerm /\ x[4] = i
  OBVIOUS
<1> HIDE DEF x
<1> QED BY <1>2, <1>8, <1>9 DEF Blamed

\* A voter is known to have voted for the leader only if it was seen to, and
\* then unless it was seen to vote for another first.
LEMMA CertifiedVoted ==
  ASSUME NEW c, NEW f, Remembers(c, f), NEW n, NEW o
  PROVE  /\ certified(c, n, o) \subseteq Voters(f, n, o)
         /\ ~Conflict(f.voted) => certified(c, n, o) = Voters(f, n, o)
<1>1. First(c.votes, f.voted) /\ Pairs(f.voted)
  BY DEF Remembers
<1>2. ASSUME NEW v \in certified(c, n, o) PROVE v \in Voters(f, n, o)
  <2>1. v \in Server /\ <<v, o.statusTerm>> \in DOMAIN c.votes /\ c.votes[<<v, o.statusTerm>>] = n
    BY <1>2 DEF certified
  <2>2. PICK x \in f.voted : x[1] = <<v, o.statusTerm>> /\ x[2] = n
    BY <1>1, <2>1 DEF First
  <2>3. x = <<x[1], x[2]>>
    BY <1>1 DEF Pairs
  <2> QED BY <2>1, <2>2, <2>3 DEF Voters
<1>3. ASSUME ~Conflict(f.voted), NEW v \in Voters(f, n, o) PROVE v \in certified(c, n, o)
  <2> DEFINE k == <<v, o.statusTerm>>
             x == <<k, n>>
  <2>1. v \in Server /\ x \in f.voted
    BY DEF Voters
  <2>2. x[1] = k /\ x[2] = n
    OBVIOUS
  <2>3. k \in DOMAIN c.votes
    BY <1>1, <2>1, <2>2 DEF First
  <2> HIDE DEF k, x
  <2>4. PICK y \in f.voted : y[1] = k /\ y[2] = c.votes[k]
    BY <1>1, <2>3 DEF First
  <2>5. y[2] = n
    BY <1>3, <2>1, <2>2, <2>4 DEF Conflict
  <2> QED BY <2>1, <2>3, <2>4, <2>5 DEF certified, k
<1> QED BY <1>2, <1>3

\* What elects a leader is a configuration.
LEMMA ElectedByOne ==
  ASSUME NEW o \in Observable
  PROVE  electedBy(o) \in Membership
BY InitialAssumption DEF electedBy, Observable

\* A list of one names one.
LEMMA NamesOne ==
  ASSUME NEW n
  PROVE  DOMAIN names(<<n>>) = {n}
<1>1. DOMAIN <<n>> = {1} /\ <<n>>[1] = n
  OBVIOUS
<1>2. {<<n>>[k] : k \in DOMAIN <<n>>} = {n}
  BY <1>1
<1> QED BY <1>2 DEF names

\* A certificate is missing when the votes that were seen do not make one.
LEMMA CertificateKnown ==
  ASSUME NEW c, NEW f, Remembers(c, f), NEW n, NEW o \in Observable, isLeader(o)
  PROVE  /\ CertFull(CertificateOf(c, n, o), UncertifiedOf(f, n, o))
         /\ ~Conflict(f.voted) => CertJust(CertificateOf(c, n, o), UncertifiedOf(f, n, o))
<1> DEFINE m == electedBy(o)
           x == <<"election-certificate", names(<<n>>), o.statusTerm, certified(c, n, o), m>>
           u == <<n, o.statusTerm>>
<1>1. x[1] = "election-certificate" /\ x[2] = names(<<n>>) /\ x[3] = o.statusTerm /\ u[1] = n /\ u[2] = o.statusTerm
  OBVIOUS
<1>2. DOMAIN names(<<n>>) = {n} /\ m \in Membership
  BY NamesOne, ElectedByOne
<1>3. (\A y \in CertificateOf(c, n, o) : y = x) /\ (x \in CertificateOf(c, n, o) <=> ~Elects(m, certified(c, n, o)))
      /\ (CertificateOf(c, n, o) # {} => ~Elects(m, certified(c, n, o)))
  BY DEF CertificateOf, only
<1>4. UncertifiedOf(f, n, o) = IF ~Elects(m, Voters(f, n, o)) THEN {u} ELSE {}
  BY DEF UncertifiedOf
<1>5. /\ certified(c, n, o) \subseteq Voters(f, n, o) /\ Voters(f, n, o) \subseteq Server
      /\ ~Conflict(f.voted) => certified(c, n, o) = Voters(f, n, o)
  BY CertifiedVoted DEF Voters
<1> HIDE DEF m, x
<1>6. Elects(m, certified(c, n, o)) => Elects(m, Voters(f, n, o))
  BY <1>2, <1>5, QuorumGrows DEF Elects
<1>7. CertFull(CertificateOf(c, n, o), UncertifiedOf(f, n, o))
  <2> HIDE DEF u
  <2> QED BY <1>1, <1>2, <1>3, <1>4, <1>6 DEF CertFull
<1>8. ASSUME ~Conflict(f.voted) PROVE CertJust(CertificateOf(c, n, o), UncertifiedOf(f, n, o))
  <2> SUFFICES ASSUME NEW y \in CertificateOf(c, n, o), NEW k \in DOMAIN y[2]
               PROVE  <<k, y[3]>> \in UncertifiedOf(f, n, o)
    BY DEF CertJust
  <2>1. y = x /\ ~Elects(m, certified(c, n, o))
    BY <1>3
  <2>2. k = n /\ y[3] = o.statusTerm
    BY <1>1, <1>2, <2>1
  <2>3. u \in UncertifiedOf(f, n, o)
    BY <1>4, <1>5, <1>8, <2>1
  <2> QED BY <2>2, <2>3
<1> QED BY <1>7, <1>8

-----------------------------------------------------------------------------
(* The history agrees with the facts.                                      *)

\* Who led, and the alarms about leaders.
LeadersKnown(c, f) == First(c.leaders, f.led) /\ (Has(Found(c), "election-safety") <=> Conflict(f.led))
LeadersJust(c, f) ==
  /\ BlameJust(Found(c), f.missing) /\ BlameFull(Found(c), f.missing, f.committed)
  /\ CertFull(Found(c), f.uncertified)
  /\ Conflict(f.voted) \/ CertJust(Found(c), f.uncertified)

Agrees(c, f) ==
  HistoryOK(c) /\ Remembers(c, f) /\ Alarmed(c, f) /\ LeadersKnown(c, f) /\ LeadersJust(c, f)

\* Only the fields of the facts matter.
LEMMA SameAgrees ==
  ASSUME NEW c, NEW f, NEW g, Agrees(c, f), SameFacts(f, g)
  PROVE  Agrees(c, g)
<1>1. Remembers(c, g)
  BY DEF Agrees, SameFacts, Remembers
<1>2. Alarmed(c, g)
  BY DEF Agrees, SameFacts, Alarmed
<1>3. LeadersKnown(c, g) /\ LeadersJust(c, g)
  BY DEF Agrees, SameFacts, LeadersKnown, LeadersJust
<1> QED BY <1>1, <1>2, <1>3 DEF Agrees

\* Findings that are not about leaders.
LEMMA JustStays ==
  ASSUME NEW c, NEW d, NEW f, NEW g, LeadersKnown(c, f), LeadersJust(c, f), NEW F, Found(d) = Found(c) \cup F,
         \A x \in F : x[1] \notin {"election-safety", "leader-completeness", "election-certificate"},
         d.leaders = c.leaders, g.led = f.led, g.missing = f.missing, g.uncertified = f.uncertified,
         f.committed \subseteq g.committed, f.voted \subseteq g.voted
  PROVE  LeadersKnown(d, g) /\ LeadersJust(d, g)
<1>1. Has(Found(d), "election-safety") <=> Has(Found(c), "election-safety")
  BY DEF Has
<1>2. LeadersKnown(d, g)
  BY <1>1 DEF LeadersKnown
<1>3. BlameJust(Found(d), g.missing)
  BY DEF LeadersJust, BlameJust
<1>4. BlameFull(Found(d), g.missing, g.committed)
  <2>1. BlameFull(Found(c), f.missing, g.committed)
    BY BlameLasts DEF LeadersJust
  <2> QED BY <2>1 DEF BlameFull, Blamed
<1>5. CertFull(Found(d), g.uncertified)
  BY DEF LeadersJust, CertFull
<1>6. Conflict(g.voted) \/ CertJust(Found(d), g.uncertified)
  <2>1. Conflict(f.voted) => Conflict(g.voted)
    BY DEF Conflict
  <2> QED BY <2>1 DEF LeadersJust, CertJust
<1> QED BY <1>2, <1>3, <1>4, <1>5, <1>6 DEF LeadersJust

\* A node taken up keeps the history and the facts in agreement.
LEMMA NodeAgrees ==
  ASSUME NEW c, NEW f, NEW g, Agrees(c, f), NEW at, NEW n \in Server, NEW o \in Observable, Takes(f, g, n, o)
  PROVE  LET d == checkNode(c, at, n, o)
         IN Agrees(d, g) /\ Witnessed(c, d, n, o) /\ Found(d) = Found(c) \cup NodeFindings(c, n, o)
<1> DEFINE d == checkNode(c, at, n, o)
           F == NodeFindings(c, n, o)
<1>1. /\ HistoryOK(d) /\ Remembers(d, g) /\ Alarmed(d, g)
      /\ Witnessed(c, d, n, o) /\ Found(d) = Found(c) \cup F
  <2>1. HistoryOK(c) /\ Remembers(c, f) /\ Alarmed(c, f)
    BY DEF Agrees
  <2> QED BY <2>1, NodeTaken
<1>2. \A x \in F : x[1] \in NodeAlarms
  BY NodeFound
<1> HIDE DEF d, F
<1>3. \A x \in F : x[1] \notin {"election-safety", "leader-completeness", "election-certificate"}
  BY <1>2 DEF NodeAlarms
<1>4. /\ d.leaders = c.leaders /\ g.led = f.led /\ g.missing = f.missing /\ g.uncertified = f.uncertified
      /\ f.committed \subseteq g.committed /\ f.voted \subseteq g.voted
  BY <1>1 DEF Witnessed, Takes
<1>5. LeadersKnown(d, g) /\ LeadersJust(d, g)
  BY <1>1, <1>3, <1>4, JustStays DEF Agrees
<1> QED BY <1>1, <1>5 DEF Agrees, d, F

\* g are the facts f and what the logs say against each other.
Compares(f, g, ns) ==
  /\ g.led = f.led /\ g.missing = f.missing /\ g.uncertified = f.uncertified
  /\ g.voted = f.voted /\ g.committed = f.committed /\ g.applied = f.applied /\ g.snapshots = f.snapshots
  /\ g.terms = f.terms /\ g.commits = f.commits /\ g.appliedTo = f.appliedTo
  /\ \A s : s \in g.broken <=> s \in f.broken \/ (s = "log-matching" /\ SomeLogsDisagree(ns))

\* So does comparing the logs.
LEMMA LogsAgree ==
  ASSUME NEW c, NEW f, NEW g, Agrees(c, f), NEW at, NEW ns, \A n \in Server : ns[n] \in Observable, Compares(f, g, ns)
  PROVE  LET d == add(c, at, checkLogs(ns))
         IN Agrees(d, g) /\ SameLedgers(c, d) /\ Found(d) = Found(c) \cup checkLogs(ns)
<1> DEFINE d == add(c, at, checkLogs(ns))
           F == checkLogs(ns)
<1>1. HistoryOK(d) /\ SameLedgers(c, d) /\ Found(d) = Found(c) \cup F
  BY AddAdds DEF Agrees
<1>2. /\ Has(F, "log-matching") <=> SomeLogsDisagree(ns)
      /\ \A x \in F : x[1] = "log-matching"
  BY LogsChecked
<1> HIDE DEF d, F
<1>3. Remembers(d, g)
  BY <1>1 DEF Agrees, Remembers, Compares, SameLedgers
<1>4. \A s : Has(Found(d), s) <=> Has(Found(c), s) \/ (s = "log-matching" /\ SomeLogsDisagree(ns))
  BY <1>1, <1>2 DEF Has
<1>5. Alarmed(d, g)
  <2>1. \A s \in Broken : Has(Found(d), s) <=> s \in g.broken
    <3> SUFFICES ASSUME NEW s \in Broken PROVE Has(Found(d), s) <=> s \in g.broken
      OBVIOUS
    <3>1. Has(Found(c), s) <=> s \in f.broken
      BY DEF Agrees, Alarmed
    <3>2. s \in g.broken <=> s \in f.broken \/ (s = "log-matching" /\ SomeLogsDisagree(ns))
      BY DEF Compares
    <3> QED BY <1>4, <3>1, <3>2
  <2>2. g.broken \subseteq Broken
    BY DEF Agrees, Alarmed, Compares, Broken
  <2>3. \A x \in Found(d) : x[1] \in Broken \cup OtherAlarms
    BY <1>1, <1>2 DEF Agrees, Alarmed, Broken
  <2>4. /\ Has(Found(d), "durable-double-vote") <=> Has(Found(c), "durable-double-vote")
        /\ Has(Found(d), "committed-conflict") <=> Has(Found(c), "committed-conflict")
        /\ Has(Found(d), "applied-conflict") <=> Has(Found(c), "applied-conflict")
        /\ Has(Found(d), "snapshot-conflict") <=> Has(Found(c), "snapshot-conflict")
    BY <1>4
  <2>5. /\ Has(Found(d), "durable-double-vote") <=> Conflict(g.voted)
        /\ Has(Found(d), "committed-conflict") <=> Conflict(g.committed)
        /\ Has(Found(d), "applied-conflict") <=> Conflict(g.applied)
        /\ Has(Found(d), "snapshot-conflict") <=> Conflict(g.snapshots)
    BY <2>4 DEF Agrees, Alarmed, Compares
  <2> QED BY <2>1, <2>2, <2>3, <2>5 DEF Alarmed
<1>6. \A x \in F : x[1] \notin {"election-safety", "leader-completeness", "election-certificate"}
  BY <1>2
<1>7. /\ d.leaders = c.leaders /\ g.led = f.led /\ g.missing = f.missing /\ g.uncertified = f.uncertified
      /\ f.committed \subseteq g.committed /\ f.voted \subseteq g.voted
  BY <1>1 DEF SameLedgers, Compares
<1>8. LeadersKnown(d, g) /\ LeadersJust(d, g)
  BY <1>1, <1>6, <1>7, JustStays DEF Agrees
<1> QED BY <1>1, <1>3, <1>5, <1>8 DEF Agrees, d, F

\* g are the facts f and those of a leader n.
Leads(f, g, n, o) ==
  /\ g.led = f.led \cup LedBy(n, o) /\ g.missing = f.missing \cup MissingOf(f, n, o)
  /\ g.uncertified = f.uncertified \cup UncertifiedOf(f, n, o)
  /\ g.voted = f.voted /\ g.committed = f.committed /\ g.applied = f.applied /\ g.snapshots = f.snapshots
  /\ g.terms = f.terms /\ g.commits = f.commits /\ g.appliedTo = f.appliedTo /\ g.broken = f.broken

\* What is found of a leader.
LEMMA LeaderFound ==
  ASSUME NEW c, NEW f, Remembers(c, f), NEW n, NEW o \in Observable
  PROVE  LET F == LeaderFindings(c, n, o)
         IN /\ \A x \in F : x[1] \in {"election-safety", "leader-completeness", "election-certificate"}
            /\ Has(F, "election-safety") <=> LeadClash(c, n, o)
            /\ BlameJust(F, MissingOf(f, n, o)) /\ BlameFull(F, MissingOf(f, n, o), f.committed)
            /\ CertFull(F, UncertifiedOf(f, n, o))
            /\ ~Conflict(f.voted) => CertJust(F, UncertifiedOf(f, n, o))
<1> DEFINE F == LeaderFindings(c, n, o)
           S == SafetyOf(c, n, o)
           C == CertificateOf(c, n, o)
           B == CompletenessOf(c, n, o)
           M == MissingOf(f, n, o)
           U == UncertifiedOf(f, n, o)
<1>1. CASE ~isLeader(o)
  <2>1. F = {} /\ M = {} /\ U = {} /\ ~LeadClash(c, n, o)
    BY <1>1 DEF LeaderFindings, MissingOf, UncertifiedOf, LeadClash
  <2> HIDE DEF F, M, U
  <2>2. /\ \A x \in F : x[1] \in {"election-safety", "leader-completeness", "election-certificate"}
        /\ Has(F, "election-safety") <=> LeadClash(c, n, o)
        /\ BlameJust(F, M) /\ BlameFull(F, M, f.committed) /\ CertFull(F, U) /\ CertJust(F, U)
    BY <2>1 DEF Has, BlameJust, BlameFull, CertFull, CertJust
  <2> QED BY <2>2 DEF F, M, U
<1>2. CASE isLeader(o)
  <2>1. F = S \cup C \cup B
    BY <1>2, LeaderAlarms DEF LeaderFindings
  <2>2. (\A x \in S : x[1] = "election-safety") /\ (S # {} <=> LeadClash(c, n, o))
    <3>1. ASSUME NEW x \in S PROVE x[1] = "election-safety"
      <4>1. PICK t : x = <<"election-safety", names(<<c.leaders[t], n>>), t>>
        BY DEF SafetyOf
      <4> QED BY <4>1
    <3>2. S # {} <=> LeadClash(c, n, o)
      BY <1>2 DEF SafetyOf, LeadClash
    <3> QED BY <3>1, <3>2
  <2>3. \A x \in C : x[1] = "election-certificate"
    <3>1. <<"election-certificate", names(<<n>>), o.statusTerm, certified(c, n, o), electedBy(o)>>[1]
            = "election-certificate"
      OBVIOUS
    <3> QED BY <3>1 DEF CertificateOf, only
  <2>4. \A x \in B : x[1] = "leader-completeness"
    <3> SUFFICES ASSUME NEW x \in B PROVE x[1] = "leader-completeness"
      OBVIOUS
    <3>1. PICK i : x = <<"leader-completeness", names(<<n, c.committed[i].node>>), o.statusTerm, i, c.committed[i]>>
      BY DEF CompletenessOf
    <3> QED BY <3>1
  <2>5. BlameJust(B, M) /\ BlameFull(B, M, f.committed)
    BY <1>2, CompletenessJust, CompletenessFull
  <2>6. CertFull(C, U) /\ (~Conflict(f.voted) => CertJust(C, U))
    BY <1>2, CertificateKnown
  <2> HIDE DEF F, S, C, B, M, U
  <2>7. \A x \in F : x[1] \in {"election-safety", "leader-completeness", "election-certificate"}
    BY <2>1, <2>2, <2>3, <2>4
  <2>8. Has(F, "election-safety") <=> LeadClash(c, n, o)
    BY <2>1, <2>2, <2>3, <2>4 DEF Has
  <2>9. BlameJust(F, M) /\ BlameFull(F, M, f.committed)
    BY <2>1, <2>2, <2>3, <2>5 DEF BlameJust, BlameFull, Blamed
  <2>10. CertFull(F, U) /\ (~Conflict(f.voted) => CertJust(F, U))
    BY <2>1, <2>2, <2>4, <2>6 DEF CertFull, CertJust
  <2> QED BY <2>7, <2>8, <2>9, <2>10 DEF F, M, U
<1> QED BY <1>1, <1>2

\* So does a leader taken up.
LEMMA LeaderAgrees ==
  ASSUME NEW c, NEW f, NEW g, Agrees(c, f), NEW at, NEW n \in Server, NEW o \in Observable, Leads(f, g, n, o)
  PROVE  LET d == checkLeaderNode(c, at, n, o)
         IN Agrees(d, g) /\ Enrolled(c, d, n, o) /\ Found(d) = Found(c) \cup LeaderFindings(c, n, o)
<1> DEFINE d == checkLeaderNode(c, at, n, o)
           F == LeaderFindings(c, n, o)
           M == MissingOf(f, n, o)
           U == UncertifiedOf(f, n, o)
<1>1. HistoryOK(d) /\ Enrolled(c, d, n, o) /\ Found(d) = Found(c) \cup F
  BY LeaderChecked DEF Agrees
<1>2. /\ \A x \in F : x[1] \in {"election-safety", "leader-completeness", "election-certificate"}
      /\ Has(F, "election-safety") <=> LeadClash(c, n, o)
      /\ BlameJust(F, M) /\ BlameFull(F, M, f.committed) /\ CertFull(F, U)
      /\ ~Conflict(f.voted) => CertJust(F, U)
  BY LeaderFound DEF Agrees
<1>3. /\ g.led = f.led \cup LedBy(n, o) /\ g.missing = f.missing \cup M /\ g.uncertified = f.uncertified \cup U
      /\ g.voted = f.voted /\ g.committed = f.committed
  BY DEF Leads
<1> HIDE DEF d, F, M, U
<1>4. Remembers(d, g)
  BY <1>1 DEF Agrees, Remembers, Leads, Enrolled
<1>5. \A s : Has(Found(d), s) <=> Has(Found(c), s) \/ Has(F, s)
  BY <1>1 DEF Has
<1>6. \A s : Has(F, s) => s \in {"election-safety", "leader-completeness", "election-certificate"}
  BY <1>2 DEF Has
<1>7. Alarmed(d, g)
  <2>1. \A s \in Broken : Has(Found(d), s) <=> s \in g.broken
    <3>1. \A s \in Broken : ~Has(F, s)
      BY <1>6 DEF Broken
    <3> QED BY <1>5, <3>1 DEF Agrees, Alarmed, Leads
  <2>2. g.broken \subseteq Broken
    BY DEF Agrees, Alarmed, Leads
  <2>3. \A x \in Found(d) : x[1] \in Broken \cup OtherAlarms
    <3>1. \A x \in F : x[1] \in OtherAlarms
      BY <1>2 DEF OtherAlarms
    <3> QED BY <1>1, <3>1 DEF Agrees, Alarmed
  <2>4. /\ Has(Found(d), "durable-double-vote") <=> Has(Found(c), "durable-double-vote")
        /\ Has(Found(d), "committed-conflict") <=> Has(Found(c), "committed-conflict")
        /\ Has(Found(d), "applied-conflict") <=> Has(Found(c), "applied-conflict")
        /\ Has(Found(d), "snapshot-conflict") <=> Has(Found(c), "snapshot-conflict")
    BY <1>5, <1>6
  <2>5. /\ Has(Found(d), "durable-double-vote") <=> Conflict(g.voted)
        /\ Has(Found(d), "committed-conflict") <=> Conflict(g.committed)
        /\ Has(Found(d), "applied-conflict") <=> Conflict(g.applied)
        /\ Has(Found(d), "snapshot-conflict") <=> Conflict(g.snapshots)
    BY <2>4 DEF Agrees, Alarmed, Leads
  <2> QED BY <2>1, <2>2, <2>3, <2>5 DEF Alarmed
<1>8. LeadersKnown(d, g)
  <2>1. First(c.leaders, f.led) /\ (Has(Found(c), "election-safety") <=> Conflict(f.led))
    BY DEF Agrees, LeadersKnown
  <2>2. /\ First(keeping(c.leaders, LeadersOf(n, o)), f.led \cup LedBy(n, o))
        /\ Conflict(f.led \cup LedBy(n, o)) <=> Conflict(f.led) \/ LeadClash(c, n, o)
    BY <2>1, LeadersRemembered
  <2>3. d.leaders = keeping(c.leaders, LeadersOf(n, o))
    BY <1>1 DEF Enrolled
  <2> QED BY <1>2, <1>3, <1>5, <2>1, <2>2, <2>3 DEF LeadersKnown
<1>9. LeadersJust(d, g)
  <2> DEFINE P == Found(c)
             Mc == f.missing
             Uc == f.uncertified
             S == f.committed
  <2>1. /\ BlameJust(P, Mc) /\ BlameFull(P, Mc, S) /\ CertFull(P, Uc)
        /\ Conflict(f.voted) \/ CertJust(P, Uc)
    BY DEF Agrees, LeadersJust
  <2>2. BlameJust(F, M) /\ BlameFull(F, M, S) /\ CertFull(F, U) /\ (~Conflict(f.voted) => CertJust(F, U))
    BY <1>2
  <2>3. Found(d) = P \cup F /\ g.missing = Mc \cup M /\ g.uncertified = Uc \cup U /\ g.committed = S
    BY <1>1, <1>3
  <2> HIDE DEF P, Mc, Uc, S
  <2>4. BlameJust(P \cup F, Mc \cup M) /\ BlameFull(P \cup F, Mc \cup M, S)
    BY <2>1, <2>2, JustTogether
  <2>5. CertFull(P \cup F, Uc \cup U) /\ (CertJust(P, Uc) /\ CertJust(F, U) => CertJust(P \cup F, Uc \cup U))
    BY <2>1, <2>2, JustTogether
  <2> QED BY <1>3, <2>1, <2>2, <2>3, <2>4, <2>5 DEF LeadersJust
<1> QED BY <1>1, <1>4, <1>7, <1>8, <1>9 DEF Agrees, d, F

-----------------------------------------------------------------------------
(* The whole observation.                                                  *)

SettledLeader(c, n, o) ==
  DOMAIN LeadersOf(n, o) \subseteq DOMAIN c.leaders /\ LeaderFindings(c, n, o) \subseteq Found(c)

\* A history after more leaders.
LaterLeaders(c, d) ==
  /\ Preserves(c.leaders, d.leaders) /\ Found(c) \subseteq Found(d)
  /\ d.votes = c.votes /\ d.durableTerms = c.durableTerms
  /\ d.commitIndexes = c.commitIndexes /\ d.appliedIndexes = c.appliedIndexes
  /\ d.committed = c.committed /\ d.applied = c.applied /\ d.snapshots = c.snapshots

\* A history that enrolled a leader is a later one.
LEMMA EnrolledLater ==
  ASSUME NEW c, NEW d, NEW n, NEW o, Enrolled(c, d, n, o), Found(c) \subseteq Found(d)
  PROVE  LaterLeaders(c, d)
<1>1. Preserves(c.leaders, d.leaders)
  <2>1. d.leaders = keeping(c.leaders, LeadersOf(n, o))
    BY DEF Enrolled
  <2> QED BY <2>1 DEF keeping, Preserves
<1> QED BY <1>1 DEF Enrolled, LaterLeaders

\* Certificates and completeness do not depend on who led.
LEMMA SameCertificates ==
  ASSUME NEW c, NEW d, NEW n, NEW o, d.votes = c.votes, d.committed = c.committed
  PROVE  CertificateOf(d, n, o) = CertificateOf(c, n, o) /\ CompletenessOf(d, n, o) = CompletenessOf(c, n, o)
<1>1. certified(d, n, o) = certified(c, n, o)
  BY DEF certified
<1>2. mustHold(d, o) = mustHold(c, o)
  BY DEF mustHold
<1> QED BY <1>1, <1>2 DEF CertificateOf, CompletenessOf

\* A settled leader stays settled.
LEMMA LeaderStays ==
  ASSUME NEW c, NEW d, NEW n, NEW o \in Observable, SettledLeader(c, n, o), LaterLeaders(c, d)
  PROVE  SettledLeader(d, n, o)
<1>1. DOMAIN LeadersOf(n, o) \subseteq DOMAIN c.leaders /\ LeaderFindings(c, n, o) \subseteq Found(c)
  BY DEF SettledLeader
<1>2. DOMAIN LeadersOf(n, o) \subseteq DOMAIN d.leaders
  BY <1>1 DEF LaterLeaders, Preserves
<1>3. LeaderFindings(d, n, o) \subseteq LeaderFindings(c, n, o)
  <2>1. CASE ~isLeader(o)
    BY <2>1 DEF LeaderFindings
  <2>2. CASE isLeader(o)
    <3>1. CertificateOf(d, n, o) = CertificateOf(c, n, o) /\ CompletenessOf(d, n, o) = CompletenessOf(c, n, o)
      BY SameCertificates DEF LaterLeaders
    <3>2. o.statusTerm \in DOMAIN c.leaders /\ d.leaders[o.statusTerm] = c.leaders[o.statusTerm]
      BY <1>1, <2>2 DEF LeadersOf, LaterLeaders, Preserves
    <3>3. SafetyOf(d, n, o) \subseteq SafetyOf(c, n, o)
      BY <3>2 DEF SafetyOf
    <3>4. /\ LeaderFindings(d, n, o) = SafetyOf(d, n, o) \cup CertificateOf(d, n, o) \cup CompletenessOf(d, n, o)
          /\ LeaderFindings(c, n, o) = SafetyOf(c, n, o) \cup CertificateOf(c, n, o) \cup CompletenessOf(c, n, o)
      BY <2>2, LeaderAlarms DEF LeaderFindings
    <3> QED BY <3>1, <3>3, <3>4
  <2> QED BY <2>1, <2>2
<1> QED BY <1>1, <1>2, <1>3 DEF SettledLeader, LaterLeaders

\* A leader is settled once it was taken up.
LEMMA LeaderSettles ==
  ASSUME NEW c, NEW d, NEW n, NEW o \in Observable, Enrolled(c, d, n, o),
         Found(d) = Found(c) \cup LeaderFindings(c, n, o)
  PROVE  SettledLeader(d, n, o)
<1>1. d.leaders = keeping(c.leaders, LeadersOf(n, o))
  BY DEF Enrolled
<1>2. /\ DOMAIN d.leaders = DOMAIN c.leaders \cup DOMAIN LeadersOf(n, o)
      /\ \A k \in DOMAIN c.leaders : d.leaders[k] = c.leaders[k]
      /\ \A k \in DOMAIN LeadersOf(n, o) \ DOMAIN c.leaders : d.leaders[k] = LeadersOf(n, o)[k]
  BY <1>1 DEF keeping
<1>3. LeaderFindings(d, n, o) \subseteq LeaderFindings(c, n, o)
  <2>1. CASE ~isLeader(o)
    BY <2>1 DEF LeaderFindings
  <2>2. CASE isLeader(o)
    <3>1. CertificateOf(d, n, o) = CertificateOf(c, n, o) /\ CompletenessOf(d, n, o) = CompletenessOf(c, n, o)
      BY SameCertificates DEF Enrolled
    <3>2. LeadersOf(n, o)[o.statusTerm] = n /\ DOMAIN LeadersOf(n, o) = {o.statusTerm}
      BY <2>2 DEF LeadersOf
    <3>3. SafetyOf(d, n, o) \subseteq SafetyOf(c, n, o)
      <4> SUFFICES ASSUME NEW t \in {u \in {o.statusTerm} \cap DOMAIN d.leaders : d.leaders[u] # n}
                   PROVE  t \in {u \in {o.statusTerm} \cap DOMAIN c.leaders : c.leaders[u] # n} /\ d.leaders[t] = c.leaders[t]
        BY DEF SafetyOf
      <4>1. t = o.statusTerm /\ t \in DOMAIN d.leaders /\ d.leaders[t] # n
        OBVIOUS
      <4> QED BY <1>2, <3>2, <4>1
    <3>4. /\ LeaderFindings(d, n, o) = SafetyOf(d, n, o) \cup CertificateOf(d, n, o) \cup CompletenessOf(d, n, o)
          /\ LeaderFindings(c, n, o) = SafetyOf(c, n, o) \cup CertificateOf(c, n, o) \cup CompletenessOf(c, n, o)
      BY <2>2, LeaderAlarms DEF LeaderFindings
    <3> QED BY <3>1, <3>3, <3>4
  <2> QED BY <2>1, <2>2
<1> QED BY <1>2, <1>3 DEF SettledLeader

\* Settled nodes stay settled while other nodes and leaders are taken up.
LEMMA OthersLater ==
  ASSUME NEW c, NEW d, NEW f, HistoryOK(c), Remembers(d, f), NEW n \in Server, NEW o, Witnessed(c, d, n, o),
         Found(c) \subseteq Found(d), NEW k \in Server, k # n
  PROVE  Later(c, d, k)
<1>1. /\ d.votes = keeping(c.votes, VotesOf(n, o)) /\ d.committed = keeping(c.committed, CommittedOf(n, o))
      /\ d.applied = keeping(c.applied, AppliedOf(n, o)) /\ d.snapshots = keeping(c.snapshots, SnapshotsOf(n, o))
  BY DEF Witnessed
<1>2. \A p, q : Preserves(p, keeping(p, q))
  BY DEF Preserves, keeping
<1>3. /\ Preserves(c.votes, d.votes) /\ Preserves(c.committed, d.committed)
      /\ Preserves(c.applied, d.applied) /\ Preserves(c.snapshots, d.snapshots)
  BY <1>1, <1>2
<1>4. /\ d.durableTerms[k] = c.durableTerms[k] /\ d.commitIndexes[k] = c.commitIndexes[k]
      /\ d.appliedIndexes[k] = c.appliedIndexes[k]
  BY DEF Witnessed, HistoryOK
<1>5. 0 \notin DOMAIN d.snapshots
  <2>1. First(SnapsIn(d.snapshots), f.snapshots) /\ Indexed(f.snapshots)
    BY DEF Remembers
  <2> QED BY <2>1 DEF First, SnapsIn, Indexed
<1> QED BY <1>3, <1>4, <1>5 DEF Later

\* A history after more leaders is a later one for every node.
LEMMA LeadersLater ==
  ASSUME NEW c, NEW d, NEW f, Remembers(d, f), LaterLeaders(c, d), NEW k
  PROVE  Later(c, d, k)
<1>1. 0 \notin DOMAIN d.snapshots
  <2>1. First(SnapsIn(d.snapshots), f.snapshots) /\ Indexed(f.snapshots)
    BY DEF Remembers
  <2> QED BY <2>1 DEF First, SnapsIn, Indexed
<1>2. \A p : Preserves(p, p)
  BY DEF Preserves
<1> QED BY <1>1, <1>2 DEF Later, LaterLeaders

\* Identities are ordered.
Identities(n) == Server = 1..n

\* The nodes, one after the other.
LEMMA NodesAgree ==
  ASSUME NEW c, NEW f, Agrees(c, f), NEW at, NEW ns, \A k \in Server : ns[k] \in Observable,
         NEW n \in Nat, Identities(n), NEW h, NodesRun(c, at, ns, n, h)
  PROVE  Agrees(h[n], TakenUpTo(f, ns, n)) /\ \A j \in Server : Settled(h[n], j, ns[j])
<1> DEFINE good(k) == Agrees(h[k], TakenUpTo(f, ns, k)) /\ \A j \in 1..k : Settled(h[k], j, ns[j])
           T == {k \in 0..n : ~good(k)}
<1>1. n \in Nat /\ Server = 1..n
  BY DEF Identities
<1>2. \A k \in 0..n : h[k] = IF k = 0 THEN c ELSE checkNode(h[k - 1], at, k, ns[k])
  BY DEF NodesRun
<1>3. T = {}
  <2> SUFFICES ASSUME T # {} PROVE FALSE
    OBVIOUS
  <2>1. T \subseteq Nat
    BY <1>1
  <2> HIDE DEF T
  <2>2. PICK k \in T : \A y \in T : k <= y
    BY <2>1, LeastElement
  <2>3. k \in 0..n /\ ~good(k)
    BY <2>2 DEF T
  <2>4. CASE k = 0
    <3>1. h[0] = c
      BY <1>1, <1>2
    <3>2. Agrees(c, TakenUpTo(f, ns, 0))
      BY TakesNone, SameAgrees
    <3> QED BY <2>3, <2>4, <3>1, <3>2
  <2>5. CASE k # 0
    <3>1. n \in Nat /\ k \in 0..n /\ k # 0
      BY <1>1, <2>3, <2>5
    <3>2. k \in Nat /\ k - 1 \in 0..n /\ k \in 1..n /\ k \in Server
      <4>1. k \in Nat /\ k - 1 \in 0..n /\ k \in 1..n
        BY <3>1
      <4> QED BY <1>1, <4>1
    <3>3. good(k - 1)
      BY <1>1, <2>2, <3>2 DEF T
    <3> DEFINE b == h[k - 1]
               d == h[k]
               e == TakenUpTo(f, ns, k - 1)
               g == TakenUpTo(f, ns, k)
               o == ns[k]
    <3>4. d = checkNode(b, at, k, o) /\ o \in Observable
      BY <1>2, <2>3, <2>5, <3>2
    <3>5. Agrees(b, e) /\ \A j \in 1..(k - 1) : Settled(b, j, ns[j])
      BY <3>3
    <3>6. Takes(e, g, k, o)
      BY <2>5, <3>2, TakesNext
    <3> HIDE DEF b, d, e, g, o
    <3>7. Agrees(d, g) /\ Witnessed(b, d, k, o) /\ Found(d) = Found(b) \cup NodeFindings(b, k, o)
      <4>1. k \in Server /\ o \in Observable /\ Agrees(b, e)
        BY <3>2, <3>4, <3>5
      <4>2. /\ Agrees(checkNode(b, at, k, o), g) /\ Witnessed(b, checkNode(b, at, k, o), k, o)
            /\ Found(checkNode(b, at, k, o)) = Found(b) \cup NodeFindings(b, k, o)
        BY <3>6, <4>1, NodeAgrees
      <4> QED BY <3>4, <4>2
    <3>8. HistoryOK(b) /\ Remembers(d, g)
      BY <3>5, <3>7 DEF Agrees
    <3>9. 0 \notin DOMAIN d.snapshots
      <4>1. First(SnapsIn(d.snapshots), g.snapshots) /\ Indexed(g.snapshots)
        BY <3>8 DEF Remembers
      <4> QED BY <4>1 DEF First, SnapsIn, Indexed
    <3>10. Settled(d, k, o)
      BY <3>2, <3>4, <3>7, <3>8, <3>9, NodeSettles
    <3>11. ASSUME NEW j \in 1..(k - 1) PROVE Settled(d, j, ns[j])
      <4>1. j \in 1..n /\ j # k
        BY <3>1
      <4>2. j \in Server
        BY <1>1, <4>1
      <4>3. Found(b) \subseteq Found(d)
        BY <3>7
      <4>4. Later(b, d, j)
        BY <3>2, <3>7, <3>8, <4>1, <4>2, <4>3, OthersLater
      <4>5. Settled(b, j, ns[j])
        BY <3>5
      <4> QED BY <4>4, <4>5, SettledStays
    <3>12. \A j \in 1..k : Settled(d, j, ns[j])
      BY <3>2, <3>10, <3>11 DEF o
    <3> QED BY <2>3, <3>7, <3>12 DEF d, g
  <2> QED BY <2>4, <2>5
<1>4. good(n)
  BY <1>1, <1>3
<1> QED BY <1>1, <1>4

\* The facts with what the logs say against each other, and then after the
\* leaders among nodes 1 to k.
Compared(f, ns) ==
  [led |-> f.led, voted |-> f.voted, committed |-> f.committed, applied |-> f.applied, snapshots |-> f.snapshots,
   terms |-> f.terms, commits |-> f.commits, appliedTo |-> f.appliedTo,
   broken |-> f.broken \cup {s \in {"log-matching"} : SomeLogsDisagree(ns)},
   missing |-> f.missing, uncertified |-> f.uncertified]
LedUpTo(f, ns, k) ==
  [led |-> f.led \cup UNION {LedBy(n, ns[n]) : n \in 1..k},
   voted |-> f.voted, committed |-> f.committed, applied |-> f.applied, snapshots |-> f.snapshots,
   terms |-> f.terms, commits |-> f.commits, appliedTo |-> f.appliedTo, broken |-> f.broken,
   missing |-> f.missing \cup UNION {MissingOf(f, n, ns[n]) : n \in 1..k},
   uncertified |-> f.uncertified \cup UNION {UncertifiedOf(f, n, ns[n]) : n \in 1..k}]

\* Comparing the logs adds what they say against each other.
LEMMA ComparesLogs ==
  ASSUME NEW f, NEW ns
  PROVE  Compares(f, Compared(f, ns), ns)
BY DEF Compares, Compared

\* No leader taken up.
LEMMA LeadsNone ==
  ASSUME NEW f, NEW ns
  PROVE  SameFacts(f, LedUpTo(f, ns, 0))
<1>1. 1..0 = {}
  OBVIOUS
<1> QED BY <1>1 DEF LedUpTo, SameFacts

\* Leader k taken up after those before it.
LEMMA LeadsNext ==
  ASSUME NEW f, NEW ns, NEW k \in Nat, k # 0
  PROVE  Leads(LedUpTo(f, ns, k - 1), LedUpTo(f, ns, k), k, ns[k])
<1> DEFINE g == LedUpTo(f, ns, k - 1)
           h == LedUpTo(f, ns, k)
<1>1. k - 1 \in Nat /\ 1..k = 1..(k - 1) \cup {k} /\ k \notin 1..(k - 1)
  BY OneMore
<1>2. MissingOf(g, k, ns[k]) = MissingOf(f, k, ns[k]) /\ UncertifiedOf(g, k, ns[k]) = UncertifiedOf(f, k, ns[k])
  <2>1. g.committed = f.committed /\ g.voted = f.voted
    BY DEF LedUpTo
  <2> HIDE DEF g
  <2>2. Voters(g, k, ns[k]) = Voters(f, k, ns[k])
    BY <2>1 DEF Voters
  <2> QED BY <2>1, <2>2 DEF MissingOf, UncertifiedOf
<1>3. /\ h.led = g.led \cup LedBy(k, ns[k])
      /\ h.missing = g.missing \cup MissingOf(f, k, ns[k])
      /\ h.uncertified = g.uncertified \cup UncertifiedOf(f, k, ns[k])
  BY <1>1 DEF LedUpTo
<1>4. /\ h.voted = g.voted /\ h.committed = g.committed /\ h.applied = g.applied /\ h.snapshots = g.snapshots
      /\ h.terms = g.terms /\ h.commits = g.commits /\ h.appliedTo = g.appliedTo /\ h.broken = g.broken
  BY DEF LedUpTo
<1> HIDE DEF g, h
<1>5. Leads(g, h, k, ns[k])
  BY <1>2, <1>3, <1>4 DEF Leads
<1> QED BY <1>5 DEF g, h

\* Node k and what was observed of it are taken up as a leader.
LeaderTaken(b, e, g, d, at, k, o) ==
  k \in Server /\ o \in Observable /\ Agrees(b, e) /\ Leads(e, g, k, o) /\ d = checkLeaderNode(b, at, k, o)
LeaderDone(b, g, d, k, o) ==
  Agrees(d, g) /\ Enrolled(b, d, k, o) /\ Found(d) = Found(b) \cup LeaderFindings(b, k, o)

\* Its history agrees with the facts when it is done.
LEMMA LeaderStep ==
  ASSUME NEW b, NEW e, NEW g, NEW d, NEW at, NEW k, NEW o, LeaderTaken(b, e, g, d, at, k, o)
  PROVE  LeaderDone(b, g, d, k, o)
<1>1. /\ k \in Server /\ o \in Observable /\ Agrees(b, e) /\ Leads(e, g, k, o)
      /\ d = checkLeaderNode(b, at, k, o)
  BY DEF LeaderTaken
<1>2. /\ Agrees(checkLeaderNode(b, at, k, o), g) /\ Enrolled(b, checkLeaderNode(b, at, k, o), k, o)
      /\ Found(checkLeaderNode(b, at, k, o)) = Found(b) \cup LeaderFindings(b, k, o)
  BY <1>1, LeaderAgrees
<1> QED BY <1>1, <1>2 DEF LeaderDone

\* The leaders, one after the other.
LEMMA LeadersAgree ==
  ASSUME NEW c, NEW f, Agrees(c, f), NEW at, NEW ns, \A k \in Server : ns[k] \in Observable,
         \A k \in Server : Settled(c, k, ns[k]),
         NEW n \in Nat, Identities(n), NEW h, LeadersRun(c, at, ns, n, h)
  PROVE  /\ Agrees(h[n], LedUpTo(f, ns, n)) /\ LaterLeaders(c, h[n])
         /\ \A j \in Server : Settled(h[n], j, ns[j]) /\ SettledLeader(h[n], j, ns[j])
<1> DEFINE good(k) == /\ Agrees(h[k], LedUpTo(f, ns, k)) /\ LaterLeaders(c, h[k])
                      /\ \A j \in Server : Settled(h[k], j, ns[j])
                      /\ \A j \in 1..k : SettledLeader(h[k], j, ns[j])
           T == {k \in 0..n : ~good(k)}
<1>1. n \in Nat /\ Server = 1..n
  BY DEF Identities
<1>2. \A k \in 0..n : h[k] = IF k = 0 THEN c ELSE checkLeaderNode(h[k - 1], at, k, ns[k])
  BY DEF LeadersRun
<1>3. T = {}
  <2> SUFFICES ASSUME T # {} PROVE FALSE
    OBVIOUS
  <2>1. T \subseteq Nat
    BY <1>1
  <2> HIDE DEF T
  <2>2. PICK k \in T : \A y \in T : k <= y
    BY <2>1, LeastElement
  <2>3. k \in 0..n /\ ~good(k)
    BY <2>2 DEF T
  <2>4. CASE k = 0
    <3>1. h[0] = c
      BY <1>1, <1>2
    <3>2. Agrees(c, LedUpTo(f, ns, 0))
      BY LeadsNone, SameAgrees
    <3>3. LaterLeaders(c, c)
      BY DEF LaterLeaders, Preserves
    <3>4. \A j \in 1..0 : SettledLeader(c, j, ns[j])
      OBVIOUS
    <3> QED BY <2>3, <2>4, <3>1, <3>2, <3>3, <3>4
  <2>5. CASE k # 0
    <3>1. n \in Nat /\ k \in 0..n /\ k # 0
      BY <1>1, <2>3, <2>5
    <3>2. k \in Nat /\ k - 1 \in 0..n /\ k \in 1..n /\ k \in Server
      <4>1. k \in Nat /\ k - 1 \in 0..n /\ k \in 1..n
        BY <3>1
      <4> QED BY <1>1, <4>1
    <3>3. good(k - 1)
      BY <1>1, <2>2, <3>2 DEF T
    <3> DEFINE b == h[k - 1]
               d == h[k]
               e == LedUpTo(f, ns, k - 1)
               g == LedUpTo(f, ns, k)
               o == ns[k]
    <3>4. d = checkLeaderNode(b, at, k, o) /\ o \in Observable
      BY <1>2, <2>3, <2>5, <3>2
    <3>5. /\ Agrees(b, e) /\ LaterLeaders(c, b)
          /\ \A j \in Server : Settled(b, j, ns[j])
          /\ \A j \in 1..(k - 1) : SettledLeader(b, j, ns[j])
      BY <3>3
    <3>6. Leads(e, g, k, o)
      BY <2>5, <3>2, LeadsNext
    <3> HIDE DEF b, d, e, g, o
    <3>7. Agrees(d, g) /\ Enrolled(b, d, k, o) /\ Found(d) = Found(b) \cup LeaderFindings(b, k, o)
      <4>1. k \in Server /\ o \in Observable /\ Agrees(b, e)
        BY <3>2, <3>4, <3>5
      <4>2. LeaderTaken(b, e, g, d, at, k, o)
        BY <3>4, <3>6, <4>1 DEF LeaderTaken
      <4>3. LeaderDone(b, g, d, k, o)
        BY <4>2, LeaderStep
      <4> QED BY <4>3 DEF LeaderDone
    <3>8. Remembers(d, g) /\ Found(b) \subseteq Found(d)
      BY <3>7 DEF Agrees
    <3>9. LaterLeaders(b, d)
      BY <3>7, <3>8, EnrolledLater
    <3>10. LaterLeaders(c, d)
      BY <3>5, <3>9 DEF LaterLeaders, Preserves
    <3>11. ASSUME NEW j \in Server PROVE Settled(d, j, ns[j])
      <4>1. Later(b, d, j)
        BY <3>8, <3>9, LeadersLater
      <4>2. Settled(b, j, ns[j])
        BY <3>5
      <4> QED BY <4>1, <4>2, SettledStays
    <3>12. SettledLeader(d, k, o)
      BY <3>4, <3>7, LeaderSettles
    <3>13. ASSUME NEW j \in 1..(k - 1) PROVE SettledLeader(d, j, ns[j])
      <4>1. j \in 1..n
        BY <3>1
      <4>2. ns[j] \in Observable
        BY <1>1, <4>1
      <4>3. SettledLeader(b, j, ns[j])
        BY <3>5
      <4> QED BY <3>9, <4>2, <4>3, LeaderStays
    <3>14. \A j \in 1..k : SettledLeader(d, j, ns[j])
      BY <3>2, <3>12, <3>13 DEF o
    <3> QED BY <2>3, <3>7, <3>10, <3>11, <3>14 DEF d, g
  <2> QED BY <2>4, <2>5
<1>4. good(n)
  BY <1>1, <1>3
<1> QED BY <1>1, <1>4

\* The facts of one observation more, in the order in which Observe takes
\* them up.
Gathered(f, ns, n) == LedUpTo(Compared(TakenUpTo(f, ns, n), ns), ns, n)

\* An observation that has been taken up.
Still(c, ns) ==
  /\ \A j \in Server : Settled(c, j, ns[j]) /\ SettledLeader(c, j, ns[j])
  /\ checkLogs(ns) \subseteq Found(c)

\* An observation keeps the history and the facts in agreement.
LEMMA ObserveAgrees ==
  ASSUME NEW c, NEW f, Agrees(c, f), NEW at, NEW ns, \A k \in Server : ns[k] \in Observable
  PROVE  /\ Agrees(Observe(c, at, ns), Gathered(f, ns, Cardinality(Server)))
         /\ Still(Observe(c, at, ns), ns)
<1>1. PICK n : n = Cardinality(Server)
  OBVIOUS
<1>2. n \in Nat /\ Identities(n)
  BY <1>1, Universe DEF Identities
<1>3. PICK h, l : /\ NodesRun(c, at, ns, n, h)
                  /\ LeadersRun(add(h[n], at, checkLogs(ns)), at, ns, n, l)
                  /\ Observe(c, at, ns) = l[n]
  BY <1>1, ObserveRuns
<1> DEFINE b == h[n]
           a == add(b, at, checkLogs(ns))
           e == TakenUpTo(f, ns, n)
           g == Compared(e, ns)
<1>4. Agrees(b, e) /\ \A j \in Server : Settled(b, j, ns[j])
  BY <1>2, <1>3, NodesAgree
<1>5. Compares(e, g, ns)
  BY ComparesLogs
<1> HIDE DEF b, e, g
<1>6. Agrees(a, g) /\ SameLedgers(b, a) /\ Found(a) = Found(b) \cup checkLogs(ns)
  BY <1>4, <1>5, LogsAgree
<1> HIDE DEF a
<1>7. ASSUME NEW j \in Server PROVE Settled(a, j, ns[j])
  <2>1. Found(b) \subseteq Found(a) /\ Remembers(a, g)
    BY <1>6 DEF Agrees
  <2>2. LaterLeaders(b, a)
    BY <1>6, <2>1 DEF LaterLeaders, SameLedgers, Preserves
  <2>3. Later(b, a, j)
    BY <2>1, <2>2, LeadersLater
  <2> QED BY <1>4, <2>3, SettledStays
<1>8. LeadersRun(a, at, ns, n, l)
  BY <1>3 DEF a, b
<1>9. /\ Agrees(l[n], LedUpTo(g, ns, n)) /\ LaterLeaders(a, l[n])
      /\ \A j \in Server : Settled(l[n], j, ns[j]) /\ SettledLeader(l[n], j, ns[j])
  BY <1>2, <1>6, <1>7, <1>8, LeadersAgree
<1>10. checkLogs(ns) \subseteq Found(l[n])
  BY <1>6, <1>9 DEF LaterLeaders
<1> QED BY <1>1, <1>3, <1>9, <1>10 DEF Still, Gathered, g, e

\* Taking it up again changes nothing.
LEMMA StillStays ==
  ASSUME NEW c, HistoryOK(c), NEW at, NEW ns, \A k \in Server : ns[k] \in Observable, Still(c, ns)
  PROVE  Observe(c, at, ns) = c
<1>1. PICK n : n = Cardinality(Server)
  OBVIOUS
<1>2. n \in Nat /\ Server = 1..n
  BY <1>1, Universe
<1>3. PICK h, l : /\ NodesRun(c, at, ns, n, h)
                  /\ LeadersRun(add(h[n], at, checkLogs(ns)), at, ns, n, l)
                  /\ Observe(c, at, ns) = l[n]
  BY <1>1, ObserveRuns
<1>4. ASSUME NEW k \in 1..n
      PROVE  checkNode(c, at, k, ns[k]) = c /\ checkLeaderNode(c, at, k, ns[k]) = c
  <2>1. k \in Server
    BY <1>2
  <2>2. ns[k] \in Observable /\ Settled(c, k, ns[k]) /\ SettledLeader(c, k, ns[k])
    BY <2>1 DEF Still
  <2>3. checkNode(c, at, k, ns[k]) = c
    BY <2>1, <2>2, SettledIsStill
  <2>4. checkLeaderNode(c, at, k, ns[k]) = c
    BY <2>1, <2>2, LeaderChecked DEF SettledLeader
  <2> QED BY <2>3, <2>4
<1>5. add(c, at, checkLogs(ns)) = c
  BY AddAdds DEF Still
<1>6. ASSUME NEW f, NodesRun(c, at, ns, n, f) \/ LeadersRun(c, at, ns, n, f)
      PROVE  f[n] = c
  <2> DEFINE T == {k \in 0..n : f[k] # c}
  <2>1. \A k \in 0..n : IF k = 0 THEN f[k] = c ELSE f[k - 1] = c => f[k] = c
    <3>1. CASE NodesRun(c, at, ns, n, f)
      <4>1. \A k \in 0..n : f[k] = IF k = 0 THEN c ELSE checkNode(f[k - 1], at, k, ns[k])
        BY <3>1 DEF NodesRun
      <4>2. \A k \in 0..n : k # 0 => k \in 1..n
        BY <1>2
      <4> QED BY <1>4, <4>1, <4>2
    <3>2. CASE LeadersRun(c, at, ns, n, f)
      <4>1. \A k \in 0..n : f[k] = IF k = 0 THEN c ELSE checkLeaderNode(f[k - 1], at, k, ns[k])
        BY <3>2 DEF LeadersRun
      <4>2. \A k \in 0..n : k # 0 => k \in 1..n
        BY <1>2
      <4> QED BY <1>4, <4>1, <4>2
    <3> QED BY <1>6, <3>1, <3>2
  <2>2. T = {}
    <3> SUFFICES ASSUME T # {} PROVE FALSE
      OBVIOUS
    <3>1. T \subseteq Nat
      BY <1>2
    <3> HIDE DEF T
    <3>2. PICK k \in T : \A y \in T : k <= y
      BY <3>1, LeastElement
    <3>3. k \in 0..n /\ f[k] # c
      BY <3>2 DEF T
    <3>4. k # 0
      BY <2>1, <3>3
    <3>5. k - 1 \in 0..n /\ ~(k <= k - 1)
      BY <1>2, <3>3, <3>4
    <3>6. k - 1 \notin T
      BY <3>2, <3>5
    <3>7. f[k - 1] = c
      BY <3>5, <3>6 DEF T
    <3> QED BY <2>1, <3>3, <3>4, <3>7
  <2>3. n \in 0..n
    BY <1>2
  <2> QED BY <2>2, <2>3
<1>7. h[n] = c
  BY <1>3, <1>6
<1>8. l[n] = c
  BY <1>3, <1>5, <1>6, <1>7
<1> QED BY <1>3, <1>8


-----------------------------------------------------------------------------
(* The facts of one observation, taken up node by node or all at once.     *)

FactFields == {"led", "voted", "committed", "applied", "snapshots", "terms", "commits", "appliedTo",
               "broken", "missing", "uncertified"}
IsFacts(f) == IsFunction(f) /\ DOMAIN f = FactFields

\* What Seen adds first, before it asks what is wrong.
Noted(f, ns) ==
  [f EXCEPT
        !.led = @ \cup {<<ns[n].statusTerm, n>> : n \in {m \in Server : isLeader(ns[m])}},
        !.voted = @ \cup {<<<<n, ns[n].term>>, ns[n].votedFor>> : n \in {m \in Server : ns[m].votedFor # Nil}},
        !.committed = @ \cup UNION {{<<i, entryAt(ns[n], i), ns[n].term>> : i \in committedBy(ns[n])} : n \in Server},
        !.applied = @ \cup UNION {{<<i, ns[n].applied[i]>> : i \in DOMAIN ns[n].applied} : n \in Server},
        !.snapshots = @ \cup {<<ns[n].snap.index, ns[n].snap>> : n \in {m \in Server : ns[m].snap.index > 0}},
        !.terms = @ \cup {<<n, ns[n].term>> : n \in Server},
        !.commits = @ \cup {<<n, ns[n].commit>> : n \in Server},
        !.appliedTo = @ \cup {<<n, ns[n].appliedIndex>> : n \in Server}]

\* The facts with what was seen, field by field.
LEMMA NotedFields ==
  ASSUME NEW f, IsFacts(f), NEW ns
  PROVE  LET g == Noted(f, ns)
         IN /\ IsFacts(g) /\ g.broken = f.broken /\ g.missing = f.missing /\ g.uncertified = f.uncertified
            /\ g.led = f.led \cup {<<ns[n].statusTerm, n>> : n \in {m \in Server : isLeader(ns[m])}}
            /\ g.voted = f.voted
                 \cup {<<<<n, ns[n].term>>, ns[n].votedFor>> : n \in {m \in Server : ns[m].votedFor # Nil}}
            /\ g.committed = f.committed
                 \cup UNION {{<<i, entryAt(ns[n], i), ns[n].term>> : i \in committedBy(ns[n])} : n \in Server}
            /\ g.applied = f.applied
                 \cup UNION {{<<i, ns[n].applied[i]>> : i \in DOMAIN ns[n].applied} : n \in Server}
            /\ g.snapshots = f.snapshots
                 \cup {<<ns[n].snap.index, ns[n].snap>> : n \in {m \in Server : ns[m].snap.index > 0}}
            /\ g.terms = f.terms \cup {<<n, ns[n].term>> : n \in Server}
            /\ g.commits = f.commits \cup {<<n, ns[n].commit>> : n \in Server}
            /\ g.appliedTo = f.appliedTo \cup {<<n, ns[n].appliedIndex>> : n \in Server}
<1>1. /\ DOMAIN Noted(f, ns) = DOMAIN f /\ IsFunction(Noted(f, ns))
  BY DEF Noted, IsFacts, IsFunction
<1>2. DOMAIN f = FactFields
  BY DEF IsFacts
<1>3. Noted(f, ns).broken = f.broken /\ Noted(f, ns).missing = f.missing /\ Noted(f, ns).uncertified = f.uncertified
  BY <1>2 DEF Noted, FactFields
<1>4. Noted(f, ns).led = f.led \cup {<<ns[n].statusTerm, n>> : n \in {m \in Server : isLeader(ns[m])}}
  BY <1>2 DEF Noted, FactFields
<1>5. Noted(f, ns).voted = f.voted
        \cup {<<<<n, ns[n].term>>, ns[n].votedFor>> : n \in {m \in Server : ns[m].votedFor # Nil}}
  BY <1>2 DEF Noted, FactFields
<1>6. Noted(f, ns).committed = f.committed
        \cup UNION {{<<i, entryAt(ns[n], i), ns[n].term>> : i \in committedBy(ns[n])} : n \in Server}
  BY <1>2 DEF Noted, FactFields
<1>7. Noted(f, ns).applied = f.applied
        \cup UNION {{<<i, ns[n].applied[i]>> : i \in DOMAIN ns[n].applied} : n \in Server}
  BY <1>2 DEF Noted, FactFields
<1>8. Noted(f, ns).snapshots = f.snapshots
        \cup {<<ns[n].snap.index, ns[n].snap>> : n \in {m \in Server : ns[m].snap.index > 0}}
  BY <1>2 DEF Noted, FactFields
<1>9. Noted(f, ns).terms = f.terms \cup {<<n, ns[n].term>> : n \in Server}
  BY <1>2 DEF Noted, FactFields
<1>10. Noted(f, ns).commits = f.commits \cup {<<n, ns[n].commit>> : n \in Server}
  BY <1>2 DEF Noted, FactFields
<1>11. Noted(f, ns).appliedTo = f.appliedTo \cup {<<n, ns[n].appliedIndex>> : n \in Server}
  BY <1>2 DEF Noted, FactFields
<1>12. IsFacts(Noted(f, ns))
  BY <1>1, <1>2 DEF IsFacts
<1> QED BY <1>3, <1>4, <1>5, <1>6, <1>7, <1>8, <1>9, <1>10, <1>11, <1>12

\* Everything but the verdicts.
SameNotes(g, h) ==
  /\ h.led = g.led /\ h.voted = g.voted /\ h.committed = g.committed /\ h.applied = g.applied
  /\ h.snapshots = g.snapshots /\ h.terms = g.terms /\ h.commits = g.commits /\ h.appliedTo = g.appliedTo

\* Seen adds the verdicts to them.
LEMMA SeenFields ==
  ASSUME NEW f, IsFacts(f), NEW ns
  PROVE  LET g == Noted(f, ns)
             h == Seen(f, ns)
         IN /\ IsFacts(h) /\ SameNotes(g, h)
            /\ h.broken = g.broken \cup Wrong(g, ns) /\ h.missing = g.missing \cup Missing(g, ns)
            /\ h.uncertified = g.uncertified \cup Uncertified(g, ns)
<1> DEFINE g == Noted(f, ns)
           W == Wrong(g, ns)
           M == Missing(g, ns)
           U == Uncertified(g, ns)
           h == [g EXCEPT !.broken = @ \cup W, !.missing = @ \cup M, !.uncertified = @ \cup U]
<1>1. Seen(f, ns) = h
  BY DEF Seen, Noted
<1>2. IsFunction(g) /\ DOMAIN g = FactFields
  BY NotedFields DEF IsFacts
<1> HIDE DEF g, W, M, U
<1>3. /\ IsFacts(h) /\ SameNotes(g, h)
      /\ h.broken = g.broken \cup W /\ h.missing = g.missing \cup M /\ h.uncertified = g.uncertified \cup U
  <2>1. DOMAIN h = FactFields /\ IsFunction(h)
    BY <1>2 DEF IsFunction
  <2>2. h.broken = g.broken \cup W
    BY <1>2 DEF FactFields
  <2>3. h.missing = g.missing \cup M
    BY <1>2 DEF FactFields
  <2>4. h.uncertified = g.uncertified \cup U
    BY <1>2 DEF FactFields
  <2>5. h.led = g.led /\ h.voted = g.voted /\ h.committed = g.committed /\ h.applied = g.applied
    BY <1>2 DEF FactFields
  <2>6. h.snapshots = g.snapshots /\ h.terms = g.terms /\ h.commits = g.commits /\ h.appliedTo = g.appliedTo
    BY <1>2 DEF FactFields
  <2> QED BY <2>1, <2>2, <2>3, <2>4, <2>5, <2>6 DEF IsFacts, SameNotes
<1> HIDE DEF h
<1>4. /\ IsFacts(Seen(f, ns)) /\ SameNotes(g, Seen(f, ns))
      /\ Seen(f, ns).broken = g.broken \cup W /\ Seen(f, ns).missing = g.missing \cup M
      /\ Seen(f, ns).uncertified = g.uncertified \cup U
  BY <1>1, <1>3
<1> QED BY <1>4 DEF g, W, M, U

\* What all nodes show is what the nodes show, one by one.
LEMMA AllShown ==
  ASSUME NEW ns, \A k \in Server : ns[k] \in Observable
  PROVE  /\ {<<ns[n].statusTerm, n>> : n \in {m \in Server : isLeader(ns[m])}} = UNION {LedBy(n, ns[n]) : n \in Server}
         /\ {<<<<n, ns[n].term>>, ns[n].votedFor>> : n \in {m \in Server : ns[m].votedFor # Nil}}
              = UNION {VotedBy(n, ns[n]) : n \in Server}
         /\ UNION {{<<i, entryAt(ns[n], i), ns[n].term>> : i \in committedBy(ns[n])} : n \in Server}
              = UNION {CommitsOf(ns[n]) : n \in Server}
         /\ UNION {{<<i, ns[n].applied[i]>> : i \in DOMAIN ns[n].applied} : n \in Server}
              = UNION {AppliesOf(ns[n]) : n \in Server}
         /\ {<<ns[n].snap.index, ns[n].snap>> : n \in {m \in Server : ns[m].snap.index > 0}}
              = UNION {SnapOf(ns[n]) : n \in Server}
<1>1. {<<ns[n].statusTerm, n>> : n \in {m \in Server : isLeader(ns[m])}} = UNION {LedBy(n, ns[n]) : n \in Server}
  BY DEF LedBy
<1>2. {<<<<n, ns[n].term>>, ns[n].votedFor>> : n \in {m \in Server : ns[m].votedFor # Nil}}
        = UNION {VotedBy(n, ns[n]) : n \in Server}
  BY DEF VotedBy
<1>3. UNION {{<<i, entryAt(ns[n], i), ns[n].term>> : i \in committedBy(ns[n])} : n \in Server}
        = UNION {CommitsOf(ns[n]) : n \in Server}
  BY Zenon DEF CommitsOf
<1>4. UNION {{<<i, ns[n].applied[i]>> : i \in DOMAIN ns[n].applied} : n \in Server}
        = UNION {AppliesOf(ns[n]) : n \in Server}
  BY Zenon DEF AppliesOf
<1>5. {<<ns[n].snap.index, ns[n].snap>> : n \in {m \in Server : ns[m].snap.index > 0}}
        = UNION {SnapOf(ns[n]) : n \in Server}
  <2>1. \A n \in Server : ns[n].snap.index \in Nat
    BY DEF Observable
  <2>2. \A n \in Server : ns[n].snap.index > 0 <=> ns[n].snap.index # 0
    BY <2>1
  <2> QED BY <2>2 DEF SnapOf
<1> QED BY <1>1, <1>2, <1>3, <1>4, <1>5

\* What leaders miss, leader by leader.
LEMMA AllMissing ==
  ASSUME NEW f, NEW g, NEW ns, f.committed = g.committed
  PROVE  Missing(g, ns) = UNION {MissingOf(f, n, ns[n]) : n \in Server}
<1> DEFINE lacks(n) == {<<ns[n].statusTerm, x>> :
                          x \in {y \in g.committed : y[1] > ns[n].snap.index
                                    /\ (y[1] \notin held(ns[n]) \/ entryAt(ns[n], y[1]) # y[2])}}
<1>1. Missing(g, ns) = UNION {lacks(n) : n \in {m \in Server : isLeader(ns[m])}}
  BY DEF Missing
<1>2. \A n : MissingOf(f, n, ns[n]) = IF isLeader(ns[n]) THEN lacks(n) ELSE {}
  BY DEF MissingOf
<1> HIDE DEF lacks
<1> QED BY <1>1, <1>2

\* Who has no certificate, leader by leader.
LEMMA AllUncertified ==
  ASSUME NEW f, NEW g, NEW ns, f.voted = g.voted
  PROVE  Uncertified(g, ns) = UNION {UncertifiedOf(f, n, ns[n]) : n \in Server}
<1> DEFINE lost(n) == ~Elects(electedBy(ns[n]), {v \in Server : <<<<v, ns[n].statusTerm>>, n>> \in g.voted})
<1>1. Uncertified(g, ns) = {<<n, ns[n].statusTerm>> : n \in {m \in Server : isLeader(ns[m]) /\ lost(m)}}
  BY DEF Uncertified, Elects
<1>2. \A n : UncertifiedOf(f, n, ns[n]) = IF isLeader(ns[n]) /\ lost(n) THEN {<<n, ns[n].statusTerm>>} ELSE {}
  BY DEF UncertifiedOf, Voters
<1> HIDE DEF lost
<1> QED BY <1>1, <1>2, ZenonT(40)

\* A node is below what was seen of it before, or not at all.
LEMMA BelowSeen ==
  ASSUME NEW S, NEW v, \A k \in Server : v[k] \in Nat, NEW n \in Server
  PROVE  Below(S \cup {<<k, v[k]>> : k \in Server}, n, v[n]) <=> Below(S, n, v[n])
<1> DEFINE T == {<<k, v[k]>> : k \in Server}
<1>1. \A x \in T : x[1] = n => ~(x[2] > v[n])
  <2> SUFFICES ASSUME NEW k \in Server, k = n PROVE ~(v[k] > v[n])
    OBVIOUS
  <2>1. v[n] \in Nat
    OBVIOUS
  <2> QED BY <2>1
<1> HIDE DEF T
<1> QED BY <1>1 DEF Below

\* What is wrong with an observation, node by node.
LEMMA AllWrong ==
  ASSUME NEW f, IsFacts(f), NEW ns, \A k \in Server : ns[k] \in Observable, NEW s
  PROVE  s \in Wrong(Noted(f, ns), ns) <=>
           \/ s \in Broken /\ \E n \in Server : NodeBroken(f, n, ns[n], s)
           \/ s = "log-matching" /\ SomeLogsDisagree(ns)
<1> DEFINE g == Noted(f, ns)
<1>1. /\ g.terms = f.terms \cup {<<n, ns[n].term>> : n \in Server}
      /\ g.commits = f.commits \cup {<<n, ns[n].commit>> : n \in Server}
      /\ g.appliedTo = f.appliedTo \cup {<<n, ns[n].appliedIndex>> : n \in Server}
  BY NotedFields
<1> HIDE DEF g
<1>2. \A k \in Server : ns[k].term \in Nat /\ ns[k].commit \in Nat /\ ns[k].appliedIndex \in Nat
  BY BoundsAssumption DEF Observable
<1>3. ASSUME NEW n \in Server PROVE Below(g.terms, n, ns[n].term) <=> Below(f.terms, n, ns[n].term)
  <2> DEFINE v == [k \in Server |-> ns[k].term]
  <2>1. \A k \in Server : v[k] = ns[k].term /\ v[k] \in Nat
    BY <1>2
  <2>2. {<<k, v[k]>> : k \in Server} = {<<k, ns[k].term>> : k \in Server}
    BY <2>1
  <2> HIDE DEF v
  <2>3. Below(f.terms \cup {<<k, v[k]>> : k \in Server}, n, v[n]) <=> Below(f.terms, n, v[n])
    BY <2>1, BelowSeen
  <2> QED BY <1>1, <2>1, <2>2, <2>3
<1>4. ASSUME NEW n \in Server PROVE Below(g.commits, n, ns[n].commit) <=> Below(f.commits, n, ns[n].commit)
  <2> DEFINE v == [k \in Server |-> ns[k].commit]
  <2>1. \A k \in Server : v[k] = ns[k].commit /\ v[k] \in Nat
    BY <1>2
  <2>2. {<<k, v[k]>> : k \in Server} = {<<k, ns[k].commit>> : k \in Server}
    BY <2>1
  <2> HIDE DEF v
  <2>3. Below(f.commits \cup {<<k, v[k]>> : k \in Server}, n, v[n]) <=> Below(f.commits, n, v[n])
    BY <2>1, BelowSeen
  <2> QED BY <1>1, <2>1, <2>2, <2>3
<1>5. ASSUME NEW n \in Server
      PROVE  Below(g.appliedTo, n, ns[n].appliedIndex) <=> Below(f.appliedTo, n, ns[n].appliedIndex)
  <2> DEFINE v == [k \in Server |-> ns[k].appliedIndex]
  <2>1. \A k \in Server : v[k] = ns[k].appliedIndex /\ v[k] \in Nat
    BY <1>2
  <2>2. {<<k, v[k]>> : k \in Server} = {<<k, ns[k].appliedIndex>> : k \in Server}
    BY <2>1
  <2> HIDE DEF v
  <2>3. Below(f.appliedTo \cup {<<k, v[k]>> : k \in Server}, n, v[n]) <=> Below(f.appliedTo, n, v[n])
    BY <2>1, BelowSeen
  <2> QED BY <1>1, <2>1, <2>2, <2>3
<1> DEFINE wrong(x, n) ==
        CASE x = "durable-term-monotonic" -> Below(g.terms, n, ns[n].term)
          [] x = "commit-monotonic" -> Below(g.commits, n, ns[n].commit)
          [] x = "applied-monotonic" -> Below(g.appliedTo, n, ns[n].appliedIndex)
          [] x = "volatile-durable-match" -> ns[n].up /\ ~ns[n].awaiting /\ liveState(ns[n]) # hardState(ns[n])
          [] x = "log-matching" -> \E m \in Server \ {n} : LogsDisagree(ns[n], ns[m])
          [] x = "membership-transition" -> ConfigsBroken(ns[n])
<1>6. Wrong(g, ns) = {x \in Broken : \E n \in Server : wrong(x, n)}
  BY DEF Wrong, Broken
<1>7. ASSUME NEW n \in Server, s \in Broken, s # "log-matching" PROVE wrong(s, n) <=> NodeBroken(f, n, ns[n], s)
  <2>1. CASE s = "durable-term-monotonic"
    <3>1. wrong(s, n) <=> Below(g.terms, n, ns[n].term)
      BY <2>1
    <3> QED BY <1>3, <2>1, <3>1 DEF NodeBroken
  <2>2. CASE s = "commit-monotonic"
    <3>1. wrong(s, n) <=> Below(g.commits, n, ns[n].commit)
      BY <2>2
    <3> QED BY <1>4, <2>2, <3>1 DEF NodeBroken
  <2>3. CASE s = "applied-monotonic"
    <3>1. wrong(s, n) <=> Below(g.appliedTo, n, ns[n].appliedIndex)
      BY <2>3
    <3> QED BY <1>5, <2>3, <3>1 DEF NodeBroken
  <2>4. CASE s = "volatile-durable-match"
    BY <2>4 DEF NodeBroken
  <2>5. CASE s = "membership-transition"
    BY <2>5 DEF NodeBroken
  <2> QED BY <1>7, <2>1, <2>2, <2>3, <2>4, <2>5 DEF Broken
<1>8. (\E n \in Server : wrong("log-matching", n)) <=> SomeLogsDisagree(ns)
  BY DEF SomeLogsDisagree
<1>9. \A n : ~NodeBroken(f, n, ns[n], "log-matching")
  BY DEF NodeBroken
<1> HIDE DEF wrong
<1>10. s \in Wrong(g, ns) <=> s \in Broken /\ \E n \in Server : wrong(s, n)
  BY <1>6
<1>11. CASE s = "log-matching"
  <2>1. s \in Broken
    BY <1>11 DEF Broken
  <2> QED BY <1>8, <1>9, <1>10, <1>11, <2>1 DEF g
<1>12. CASE s # "log-matching"
  BY <1>7, <1>10, <1>12 DEF g
<1> QED BY <1>11, <1>12

\* Node by node or all at once, the facts are the same.
LEMMA SeenIsGathered ==
  ASSUME NEW f, IsFacts(f), NEW ns, \A k \in Server : ns[k] \in Observable
  PROVE  SameFacts(Gathered(f, ns, Cardinality(Server)), Seen(f, ns))
<1>1. PICK n : n = Cardinality(Server)
  OBVIOUS
<1>2. n \in Nat /\ Server = 1..n
  BY <1>1, Universe
<1> DEFINE e == TakenUpTo(f, ns, n)
           d == Compared(e, ns)
           h == LedUpTo(d, ns, n)
           g == Noted(f, ns)
           s == Seen(f, ns)
<1>3. /\ e.led = f.led /\ e.missing = f.missing /\ e.uncertified = f.uncertified
      /\ e.voted = f.voted \cup UNION {VotedBy(k, ns[k]) : k \in Server}
      /\ e.committed = f.committed \cup UNION {CommitsOf(ns[k]) : k \in Server}
      /\ e.applied = f.applied \cup UNION {AppliesOf(ns[k]) : k \in Server}
      /\ e.snapshots = f.snapshots \cup UNION {SnapOf(ns[k]) : k \in Server}
      /\ e.terms = f.terms \cup {<<k, ns[k].term>> : k \in Server}
      /\ e.commits = f.commits \cup {<<k, ns[k].commit>> : k \in Server}
      /\ e.appliedTo = f.appliedTo \cup {<<k, ns[k].appliedIndex>> : k \in Server}
      /\ e.broken = f.broken \cup {x \in Broken : \E k \in Server : NodeBroken(f, k, ns[k], x)}
  BY <1>2 DEF TakenUpTo
<1>4. /\ g.broken = f.broken /\ g.missing = f.missing /\ g.uncertified = f.uncertified
      /\ g.led = f.led \cup UNION {LedBy(k, ns[k]) : k \in Server}
      /\ g.voted = e.voted /\ g.committed = e.committed /\ g.applied = e.applied /\ g.snapshots = e.snapshots
      /\ g.terms = e.terms /\ g.commits = e.commits /\ g.appliedTo = e.appliedTo
  <2> HIDE DEF e
  <2>1. g.broken = f.broken /\ g.missing = f.missing /\ g.uncertified = f.uncertified
    BY NotedFields
  <2>2. g.terms = e.terms /\ g.commits = e.commits /\ g.appliedTo = e.appliedTo
    BY <1>3, NotedFields
  <2>3. g.led = f.led \cup UNION {LedBy(k, ns[k]) : k \in Server}
    <3>1. g.led = f.led \cup {<<ns[k].statusTerm, k>> : k \in {m \in Server : isLeader(ns[m])}}
      BY NotedFields
    <3> QED BY <3>1, AllShown
  <2>4. g.voted = e.voted
    <3>1. g.voted = f.voted
            \cup {<<<<k, ns[k].term>>, ns[k].votedFor>> : k \in {m \in Server : ns[m].votedFor # Nil}}
      BY NotedFields
    <3> QED BY <1>3, <3>1, AllShown
  <2>5. g.committed = e.committed
    <3>1. g.committed = f.committed
            \cup UNION {{<<i, entryAt(ns[k], i), ns[k].term>> : i \in committedBy(ns[k])} : k \in Server}
      BY NotedFields
    <3> QED BY <1>3, <3>1, AllShown
  <2>6. g.applied = e.applied
    <3>1. g.applied = f.applied
            \cup UNION {{<<i, ns[k].applied[i]>> : i \in DOMAIN ns[k].applied} : k \in Server}
      BY NotedFields
    <3> QED BY <1>3, <3>1, AllShown
  <2>7. g.snapshots = e.snapshots
    <3>1. g.snapshots = f.snapshots
            \cup {<<ns[k].snap.index, ns[k].snap>> : k \in {m \in Server : ns[m].snap.index > 0}}
      BY NotedFields
    <3>2. {<<ns[k].snap.index, ns[k].snap>> : k \in {m \in Server : ns[m].snap.index > 0}}
            = UNION {SnapOf(ns[k]) : k \in Server}
      BY AllShown
    <3>3. e.snapshots = f.snapshots \cup UNION {SnapOf(ns[k]) : k \in Server}
      BY <1>3
    <3> QED BY <3>1, <3>2, <3>3
  <2> QED BY <2>1, <2>2, <2>3, <2>4, <2>5, <2>6, <2>7
<1>5. /\ SameNotes(g, s) /\ s.broken = g.broken \cup Wrong(g, ns) /\ s.missing = g.missing \cup Missing(g, ns)
      /\ s.uncertified = g.uncertified \cup Uncertified(g, ns)
  BY SeenFields
<1>6. \A x : x \in Wrong(g, ns) <=> \/ x \in Broken /\ \E k \in Server : NodeBroken(f, k, ns[k], x)
                                    \/ x = "log-matching" /\ SomeLogsDisagree(ns)
  BY AllWrong
<1>7. /\ d.led = e.led /\ d.missing = e.missing /\ d.uncertified = e.uncertified
      /\ d.voted = e.voted /\ d.committed = e.committed /\ d.applied = e.applied /\ d.snapshots = e.snapshots
      /\ d.terms = e.terms /\ d.commits = e.commits /\ d.appliedTo = e.appliedTo
      /\ d.broken = e.broken \cup {x \in {"log-matching"} : SomeLogsDisagree(ns)}
  BY DEF Compared
<1>8. /\ h.led = d.led \cup UNION {LedBy(k, ns[k]) : k \in Server}
      /\ h.voted = d.voted /\ h.committed = d.committed /\ h.applied = d.applied /\ h.snapshots = d.snapshots
      /\ h.terms = d.terms /\ h.commits = d.commits /\ h.appliedTo = d.appliedTo /\ h.broken = d.broken
      /\ h.missing = d.missing \cup UNION {MissingOf(d, k, ns[k]) : k \in Server}
      /\ h.uncertified = d.uncertified \cup UNION {UncertifiedOf(d, k, ns[k]) : k \in Server}
  BY <1>2 DEF LedUpTo
<1> HIDE DEF e, d, h, g, s
<1>9. d.committed = g.committed /\ d.voted = g.voted
  BY <1>4, <1>7
<1>10. /\ Missing(g, ns) = UNION {MissingOf(d, k, ns[k]) : k \in Server}
       /\ Uncertified(g, ns) = UNION {UncertifiedOf(d, k, ns[k]) : k \in Server}
  BY <1>9, AllMissing, AllUncertified
<1>11. s.missing = h.missing /\ s.uncertified = h.uncertified
  BY <1>3, <1>4, <1>5, <1>7, <1>8, <1>10
<1>12. s.broken = h.broken
  BY <1>3, <1>4, <1>5, <1>6, <1>7, <1>8
<1>13. /\ s.led = h.led /\ s.voted = h.voted /\ s.committed = h.committed /\ s.applied = h.applied
       /\ s.snapshots = h.snapshots /\ s.terms = h.terms /\ s.commits = h.commits /\ s.appliedTo = h.appliedTo
  BY <1>3, <1>4, <1>5, <1>7, <1>8 DEF SameNotes
<1>14. SameFacts(h, s)
  BY <1>11, <1>12, <1>13 DEF SameFacts
<1> QED BY <1>1, <1>14 DEF h, d, e, s, Gathered

-----------------------------------------------------------------------------
(* The observed nodes do anything.                                         *)

\* A node that can be observed, with a term that events so far can reach.
Reached(o, k) == o \in Observable /\ o.statusTerm <= MaxTerm + k

\* The terms of entries are terms.
LEMMA LoggedTerm ==
  ASSUME NEW e \in Logged
  PROVE  e.term \in 1..MaxTerm
<1>1. PICK b \in Entries, t \in 1..MaxTerm : e = [b EXCEPT !.term = t]
  BY DEF Logged
<1>2. "term" \in DOMAIN b
  BY EntriesAssumption
<1> QED BY <1>1, <1>2

\* The entries a node holds.
LEMMA HeldIsLogged ==
  ASSUME NEW o \in Observable, NEW i \in held(o)
  PROVE  i \in Nat /\ i - o.snap.index \in 1..Len(o.log) /\ entryAt(o, i) \in Logged
<1>1. o.log \in Seq(Logged) /\ o.snap.index \in Nat
  BY DEF Observable
<1>2. Len(o.log) \in Nat
  BY <1>1
<1>3. i \in o.snap.index + 1 .. o.snap.index + Len(o.log)
  BY DEF held, stateLastIndex
<1>4. i \in Nat /\ i - o.snap.index \in 1..Len(o.log)
  BY <1>1, <1>2, <1>3
<1>5. o.log[i - o.snap.index] \in Logged
  BY <1>1, <1>4
<1> QED BY <1>4, <1>5 DEF entryAt

\* A node that has written everything can be observed.
LEMMA SettledReached ==
  ASSUME NEW o \in Observable, NEW k \in Nat
  PROVE  Reached(settled(o), k)
<1>1. MaxTerm \in Nat /\ o.term \in 1..MaxTerm /\ o.term \in Nat /\ o.votedFor \in Server \cup {Nil} /\ o.commit \in Nat
  BY BoundsAssumption DEF Observable
<1>2. settled(o) \in Observable /\ settled(o).statusTerm = o.term
  <2>1. PICK a : a = [o EXCEPT !.statusTerm = o.term]
    OBVIOUS
  <2>2. a \in Observable /\ a.statusTerm = o.term
    BY <1>1, <2>1 DEF Observable
  <2>3. PICK b : b = [a EXCEPT !.statusVote = o.votedFor]
    OBVIOUS
  <2>4. b \in Observable /\ b.statusTerm = o.term
    BY <1>1, <2>2, <2>3 DEF Observable
  <2>5. [b EXCEPT !.statusCommit = o.commit] \in Observable /\ [b EXCEPT !.statusCommit = o.commit].statusTerm = o.term
    BY <1>1, <2>4 DEF Observable
  <2>6. settled(o) = [b EXCEPT !.statusCommit = o.commit]
    BY <2>1, <2>3 DEF settled, Observable
  <2> QED BY <2>5, <2>6
<1>3. o.term <= MaxTerm + k
  BY <1>1
<1> QED BY <1>2, <1>3 DEF Reached

\* Every action ends in the observation of a node that can be observed.
LEMMA ActionsObserve ==
  ASSUME nodes \in [Server -> Observable], now \in Nat, \A k \in Server : nodes[k].statusTerm <= MaxTerm + now, Next
  PROVE  \E n \in Server : \E o : Reached(o, now + 1) /\ Observed(n, o)
<1>1. MaxTerm \in Nat
  BY BoundsAssumption
<1>2. ASSUME NEW n \in Server, NEW t \in {nodes[n].term - 1, nodes[n].term + 1} \cap 1..MaxTerm
      PROVE  Reached(settled([nodes[n] EXCEPT !.term = t, !.votedFor = Nil, !.leader = FALSE]), now + 1)
  <2>1. nodes[n] \in Observable /\ t \in 1..MaxTerm
    OBVIOUS
  <2>2. [nodes[n] EXCEPT !.term = t, !.votedFor = Nil, !.leader = FALSE] \in Observable
    BY <2>1 DEF Observable
  <2> QED BY <2>2, SettledReached
<1>3. ASSUME NEW n \in Server, NEW v \in Server PROVE Reached(settled([nodes[n] EXCEPT !.votedFor = v]), now + 1)
  <2>1. nodes[n] \in Observable
    OBVIOUS
  <2>2. [nodes[n] EXCEPT !.votedFor = v] \in Observable
    BY <2>1 DEF Observable
  <2> QED BY <2>2, SettledReached
<1>4. ASSUME NEW n \in Server, NEW m \in Membership
      PROVE  Reached([nodes[n] EXCEPT !.leader = ~@, !.elected = m], now + 1)
  <2>1. nodes[n] \in Observable /\ nodes[n].statusTerm <= MaxTerm + now
    OBVIOUS
  <2>2. /\ [nodes[n] EXCEPT !.leader = ~@, !.elected = m] \in Observable
        /\ [nodes[n] EXCEPT !.leader = ~@, !.elected = m].statusTerm = nodes[n].statusTerm
        /\ nodes[n].statusTerm \in Nat
    BY <2>1 DEF Observable
  <2> QED BY <1>1, <2>1, <2>2 DEF Reached
<1>5. ASSUME NEW n \in Server, NEW e \in Entries
      PROVE  Reached([nodes[n] EXCEPT !.log = Append(@, [e EXCEPT !.term = nodes[n].term])], now + 1)
  <2>1. nodes[n] \in Observable /\ nodes[n].statusTerm <= MaxTerm + now
    OBVIOUS
  <2>2. nodes[n].log \in Seq(Logged) /\ nodes[n].term \in 1..MaxTerm
    BY <2>1 DEF Observable
  <2>3. [e EXCEPT !.term = nodes[n].term] \in Logged
    BY <2>2, SMTT(40) DEF Logged
  <2>4. PICK l : l = Append(nodes[n].log, [e EXCEPT !.term = nodes[n].term])
    OBVIOUS
  <2>5. l \in Seq(Logged)
    BY <2>2, <2>3, <2>4
  <2>6. /\ [nodes[n] EXCEPT !.log = l] \in Observable
        /\ [nodes[n] EXCEPT !.log = l].statusTerm = nodes[n].statusTerm /\ nodes[n].statusTerm \in Nat
    BY <2>1, <2>5 DEF Observable
  <2>7. Reached([nodes[n] EXCEPT !.log = l], now + 1)
    BY <1>1, <2>1, <2>6 DEF Reached
  <2> QED BY <2>4, <2>7
<1>6. ASSUME NEW n \in Server, nodes[n].log # <<>>
      PROVE  Reached([nodes[n] EXCEPT !.log = SubSeq(@, 1, Len(@) - 1)], now + 1)
  <2>1. nodes[n] \in Observable /\ nodes[n].statusTerm <= MaxTerm + now
    OBVIOUS
  <2>2. nodes[n].log \in Seq(Logged)
    BY <2>1 DEF Observable
  <2>3. PICK l : l = SubSeq(nodes[n].log, 1, Len(nodes[n].log) - 1)
    OBVIOUS
  <2>4. l \in Seq(Logged)
    BY <1>6, <2>2, <2>3
  <2>5. /\ [nodes[n] EXCEPT !.log = l] \in Observable
        /\ [nodes[n] EXCEPT !.log = l].statusTerm = nodes[n].statusTerm /\ nodes[n].statusTerm \in Nat
    BY <2>1, <2>4 DEF Observable
  <2>6. Reached([nodes[n] EXCEPT !.log = l], now + 1)
    BY <1>1, <2>1, <2>5 DEF Reached
  <2> QED BY <2>3, <2>6
<1>7. ASSUME NEW n \in Server, NEW i \in (nodes[n].snap.index..stateLastIndex(nodes[n])) \ {nodes[n].commit}
      PROVE  Reached(settled([nodes[n] EXCEPT !.commit = i]), now + 1)
  <2>1. nodes[n] \in Observable
    OBVIOUS
  <2>2. nodes[n].snap.index \in Nat
    BY <2>1 DEF Observable
  <2>3. i \in Nat
    BY <2>2
  <2>4. [nodes[n] EXCEPT !.commit = i] \in Observable
    BY <2>1, <2>3 DEF Observable
  <2> QED BY <2>4, SettledReached
<1>8. ASSUME NEW n \in Server, nodes[n].appliedIndex + 1 \in held(nodes[n])
      PROVE  Reached([nodes[n] EXCEPT !.appliedIndex = nodes[n].appliedIndex + 1,
                                      !.applied = Append(@, entryAt(nodes[n], nodes[n].appliedIndex + 1))], now + 1)
  <2>1. nodes[n] \in Observable /\ nodes[n].statusTerm <= MaxTerm + now
    OBVIOUS
  <2>2. entryAt(nodes[n], nodes[n].appliedIndex + 1) \in Logged
    BY <1>8, <2>1, HeldIsLogged
  <2>3. nodes[n].applied \in Seq(Logged) /\ nodes[n].appliedIndex + 1 \in Nat
    BY <2>1, SMTT(40) DEF Observable
  <2>4. PICK l, i : l = Append(nodes[n].applied, entryAt(nodes[n], nodes[n].appliedIndex + 1))
                    /\ i = nodes[n].appliedIndex + 1
    OBVIOUS
  <2>5. l \in Seq(Logged) /\ i \in Nat
    BY <2>2, <2>3, <2>4
  <2>6. /\ [nodes[n] EXCEPT !.appliedIndex = i, !.applied = l] \in Observable
        /\ [nodes[n] EXCEPT !.appliedIndex = i, !.applied = l].statusTerm = nodes[n].statusTerm
        /\ nodes[n].statusTerm \in Nat
    BY <2>1, <2>5 DEF Observable
  <2>7. Reached([nodes[n] EXCEPT !.appliedIndex = i, !.applied = l], now + 1)
    BY <1>1, <2>1, <2>6 DEF Reached
  <2> QED BY <2>4, <2>7
<1>9. ASSUME NEW n \in Server PROVE Reached([nodes[n] EXCEPT !.appliedIndex = 0, !.applied = <<>>], now + 1)
  <2>1. nodes[n] \in Observable /\ nodes[n].statusTerm <= MaxTerm + now
    OBVIOUS
  <2>2. <<>> \in Seq(Logged)
    OBVIOUS
  <2>3. /\ [nodes[n] EXCEPT !.appliedIndex = 0, !.applied = <<>>] \in Observable
        /\ [nodes[n] EXCEPT !.appliedIndex = 0, !.applied = <<>>].statusTerm = nodes[n].statusTerm
        /\ nodes[n].statusTerm \in Nat
    BY <2>1, <2>2 DEF Observable
  <2> QED BY <1>1, <2>1, <2>3 DEF Reached
<1>10. ASSUME NEW n \in Server, nodes[n].commit \in held(nodes[n]), NEW d \in BOOLEAN
      PROVE  Reached([nodes[n] EXCEPT !.snap = [index |-> nodes[n].commit,
                                                term |-> entryAt(nodes[n], nodes[n].commit).term, data |-> d,
                                                membership |-> NoMembership],
                                      !.log = SubSeq(@, nodes[n].commit - nodes[n].snap.index + 1, Len(@))], now + 1)
  <2>1. nodes[n] \in Observable /\ nodes[n].statusTerm <= MaxTerm + now
    OBVIOUS
  <2>2. /\ nodes[n].commit \in Nat /\ nodes[n].commit - nodes[n].snap.index \in 1..Len(nodes[n].log)
        /\ entryAt(nodes[n], nodes[n].commit) \in Logged
    BY <1>10, <2>1, HeldIsLogged
  <2>3. entryAt(nodes[n], nodes[n].commit).term \in Nat
    BY <1>1, <2>2, LoggedTerm
  <2>4. PICK s, l : s = [index |-> nodes[n].commit, term |-> entryAt(nodes[n], nodes[n].commit).term, data |-> d,
                         membership |-> NoMembership]
                    /\ l = SubSeq(nodes[n].log, nodes[n].commit - nodes[n].snap.index + 1, Len(nodes[n].log))
    OBVIOUS
  <2>5. s \in [index : Nat, term : Nat, data : BOOLEAN,
               membership : {NoMembership} \cup {m \in Membership : validateMembership(m)}]
    BY <2>2, <2>3, <2>4
  <2>6. nodes[n].log \in Seq(Logged)
    BY <2>1 DEF Observable
  <2>7. l \in Seq(Logged)
    <3>1. Len(nodes[n].log) \in Nat
      BY <2>6
    <3> QED BY <2>2, <2>4, <2>6, <3>1
  <2>8. /\ [nodes[n] EXCEPT !.snap = s, !.log = l] \in Observable
        /\ [nodes[n] EXCEPT !.snap = s, !.log = l].statusTerm = nodes[n].statusTerm /\ nodes[n].statusTerm \in Nat
    BY <2>1, <2>5, <2>7 DEF Observable
  <2>9. Reached([nodes[n] EXCEPT !.snap = s, !.log = l], now + 1)
    BY <1>1, <2>1, <2>8 DEF Reached
  <2> QED BY <2>4, <2>9
<1>11. ASSUME NEW n \in Server, NEW a \in BOOLEAN
       PROVE  Reached([nodes[n] EXCEPT !.statusTerm = @ + 1, !.awaiting = a], now + 1)
  <2>1. nodes[n] \in Observable /\ nodes[n].statusTerm <= MaxTerm + now
    OBVIOUS
  <2>2. nodes[n].statusTerm \in Nat
    BY <2>1 DEF Observable
  <2>3. PICK t : t = nodes[n].statusTerm + 1
    OBVIOUS
  <2>4. t \in Nat /\ t <= MaxTerm + (now + 1)
    BY <1>1, <2>1, <2>2, <2>3
  <2>5. [nodes[n] EXCEPT !.statusTerm = t, !.awaiting = a] \in Observable
    BY <2>1, <2>4 DEF Observable
  <2>6. [nodes[n] EXCEPT !.statusTerm = t, !.awaiting = a].statusTerm = t
    BY <2>1 DEF Observable
  <2>7. Reached([nodes[n] EXCEPT !.statusTerm = t, !.awaiting = a], now + 1)
    BY <2>4, <2>5, <2>6 DEF Reached
  <2> QED BY <2>3, <2>7
<1>12. ASSUME NEW n \in Server, NEW v \in Server PROVE Reached([nodes[n] EXCEPT !.statusVote = v], now + 1)
  <2>1. nodes[n] \in Observable /\ nodes[n].statusTerm <= MaxTerm + now
    OBVIOUS
  <2>2. /\ [nodes[n] EXCEPT !.statusVote = v] \in Observable
        /\ [nodes[n] EXCEPT !.statusVote = v].statusTerm = nodes[n].statusTerm /\ nodes[n].statusTerm \in Nat
    BY <2>1 DEF Observable
  <2> QED BY <1>1, <2>1, <2>2 DEF Reached
<1>13. ASSUME NEW n \in Server PROVE Reached([nodes[n] EXCEPT !.statusCommit = @ + 1], now + 1)
  <2>1. nodes[n] \in Observable /\ nodes[n].statusTerm <= MaxTerm + now
    OBVIOUS
  <2>2. nodes[n].statusCommit \in Nat
    BY <2>1 DEF Observable
  <2>3. PICK i : i = nodes[n].statusCommit + 1
    OBVIOUS
  <2>4. i \in Nat
    BY <2>2, <2>3
  <2>5. /\ [nodes[n] EXCEPT !.statusCommit = i] \in Observable
        /\ [nodes[n] EXCEPT !.statusCommit = i].statusTerm = nodes[n].statusTerm /\ nodes[n].statusTerm \in Nat
    BY <2>1, <2>4 DEF Observable
  <2>6. Reached([nodes[n] EXCEPT !.statusCommit = i], now + 1)
    BY <1>1, <2>1, <2>5 DEF Reached
  <2> QED BY <2>3, <2>6
<1>14. ASSUME NEW n \in Server
       PROVE  Reached(settled([nodes[n] EXCEPT !.up = ~@, !.awaiting = FALSE, !.leader = FALSE]), now + 1)
  <2>1. nodes[n] \in Observable
    OBVIOUS
  <2>2. [nodes[n] EXCEPT !.up = ~@, !.awaiting = FALSE, !.leader = FALSE] \in Observable
    BY <2>1 DEF Observable
  <2> QED BY <2>2, SettledReached
<1>15. CASE \E n \in Server : ChangeTerm(n)
  BY <1>2, <1>15 DEF ChangeTerm
<1>16. CASE \E n \in Server : Vote(n)
  BY <1>3, <1>16 DEF Vote
<1>17. CASE \E n \in Server : ChangeRole(n)
  BY <1>4, <1>17, ElectingAssumption DEF ChangeRole, Membership, NoMembership
<1>18. CASE \E n \in Server : AppendEntry(n)
  BY <1>5, <1>18 DEF AppendEntry
<1>19. CASE \E n \in Server : Truncate(n)
  BY <1>6, <1>19 DEF Truncate
<1>20. CASE \E n \in Server : ChangeCommit(n)
  BY <1>7, <1>20 DEF ChangeCommit
<1>21. CASE \E n \in Server : Apply(n)
  BY <1>8, <1>21 DEF Apply
<1>22. CASE \E n \in Server : Forget(n)
  BY <1>9, <1>22 DEF Forget
<1>23. CASE \E n \in Server : Compact(n)
  BY <1>10, <1>23 DEF Compact
<1>24. CASE \E n \in Server : RunAhead(n)
  BY <1>11, <1>12, <1>13, <1>24 DEF RunAhead
<1>25. CASE \E n \in Server : Restart(n)
  BY <1>14, <1>25 DEF Restart
<1> QED BY <1>15, <1>16, <1>17, <1>18, <1>19, <1>20, <1>21, <1>22, <1>23, <1>24, <1>25 DEF Next

-----------------------------------------------------------------------------
(* The theorems.                                                           *)

\* Nothing was observed, and nothing is kept.
LEMMA NothingAgrees == Agrees(NoHistory, NoFacts) /\ IsFacts(NoFacts)
<1> DEFINE c == NoHistory
           f == NoFacts
<1>1. /\ c.leaders = <<>> /\ c.votes = <<>> /\ c.committed = <<>> /\ c.applied = <<>> /\ c.snapshots = <<>>
      /\ c.durableTerms = [n \in Server |-> 0] /\ c.commitIndexes = [n \in Server |-> 0]
      /\ c.appliedIndexes = [n \in Server |-> 0] /\ c.seen = {} /\ c.violations = {}
  BY DEF NoHistory
<1>2. IsHistory(c)
  BY DEF NoHistory, IsHistory, Ledgers, IsFunction
<1>3. /\ f.led = {} /\ f.voted = {} /\ f.committed = {} /\ f.applied = {} /\ f.snapshots = {} /\ f.terms = {}
      /\ f.commits = {} /\ f.appliedTo = {} /\ f.broken = {} /\ f.missing = {} /\ f.uncertified = {}
  BY DEF NoFacts
<1>4. IsFacts(f)
  BY DEF NoFacts, IsFacts, FactFields, IsFunction
<1> HIDE DEF c, f
<1>5. IsFunction(<<>>) /\ DOMAIN <<>> = {}
  BY DEF IsFunction
<1>6. Found(c) = {}
  BY <1>1 DEF Found
<1>7. HistoryOK(c)
  BY <1>1, <1>2, <1>5, <1>6 DEF HistoryOK
<1>8. Remembers(c, f)
  BY <1>1, <1>3, <1>5
     DEF Remembers, First, EntriesIn, SnapsIn, Dated, Indexed, Pairs, Timed, Highest
<1>9. Alarmed(c, f)
  BY <1>3, <1>6 DEF Alarmed, Has, Conflict
<1>10. LeadersKnown(c, f)
  BY <1>1, <1>3, <1>5, <1>6 DEF LeadersKnown, First, Has, Conflict
<1>11. LeadersJust(c, f)
  BY <1>3, <1>6 DEF LeadersJust, BlameJust, BlameFull, CertFull, CertJust
<1> QED BY <1>4, <1>7, <1>8, <1>9, <1>10, <1>11 DEF Agrees, c, f

\* Who was seen without a certificate, and in which term.
Bounded(f, k) == f.uncertified \subseteq Server \X (0..MaxTerm + k)

\* The checker has taken up everything that was observed.
CheckerInv ==
  /\ nodes \in [Server -> Observable] /\ now \in 0..Steps
  /\ \A k \in Server : nodes[k].statusTerm <= MaxTerm + now
  /\ IsFacts(facts) /\ Bounded(facts, Steps)
  /\ Agrees(checker, facts) /\ Still(checker, nodes)

\* One observation of nodes that can be observed.
LEMMA SeenAgrees ==
  ASSUME NEW c, NEW f, Agrees(c, f), IsFacts(f), Bounded(f, Steps), NEW at,
         NEW ns, \A k \in Server : ns[k] \in Observable /\ ns[k].statusTerm <= MaxTerm + Steps
  PROVE  /\ Agrees(Observe(c, at, ns), Seen(f, ns)) /\ Still(Observe(c, at, ns), ns)
         /\ IsFacts(Seen(f, ns)) /\ Bounded(Seen(f, ns), Steps)
<1>1. Agrees(Observe(c, at, ns), Gathered(f, ns, Cardinality(Server))) /\ Still(Observe(c, at, ns), ns)
  BY ObserveAgrees
<1>2. SameFacts(Gathered(f, ns, Cardinality(Server)), Seen(f, ns))
  BY SeenIsGathered
<1>3. Agrees(Observe(c, at, ns), Seen(f, ns))
  BY <1>1, <1>2, SameAgrees
<1>4. IsFacts(Seen(f, ns)) /\ Seen(f, ns).uncertified = f.uncertified \cup Uncertified(Noted(f, ns), ns)
  <2>1. Noted(f, ns).uncertified = f.uncertified
    BY NotedFields
  <2> QED BY <2>1, SeenFields
<1>5. Uncertified(Noted(f, ns), ns) \subseteq Server \X (0..MaxTerm + Steps)
  <2>1. \A k \in Server : ns[k].statusTerm \in 0..MaxTerm + Steps
    <3> SUFFICES ASSUME NEW k \in Server PROVE ns[k].statusTerm \in 0..MaxTerm + Steps
      OBVIOUS
    <3>1. ns[k].statusTerm \in Nat
      BY DEF Observable
    <3> QED BY <3>1, BoundsAssumption
  <2>2. \A u \in Uncertified(Noted(f, ns), ns) : \E k \in Server : u = <<k, ns[k].statusTerm>>
    BY DEF Uncertified
  <2> QED BY <2>1, <2>2
<1>6. Bounded(Seen(f, ns), Steps)
  BY <1>4, <1>5 DEF Bounded
<1> QED BY <1>1, <1>3, <1>4, <1>6

\* The inductive invariant.
LEMMA CheckerInvHolds == Spec => []CheckerInv
<1>1. Init => CheckerInv
  <2> SUFFICES ASSUME Init PROVE CheckerInv
    OBVIOUS
  <2>1. PICK s \in Starts : nodes = [n \in Server |-> s]
    BY DEF Init
  <2>2. nodes \in [Server -> Observable] /\ now = 0 /\ \A k \in Server : nodes[k].statusTerm <= MaxTerm
    BY <2>1, StartsAssumption DEF Init
  <2>3. \A k \in Server : nodes[k] \in Observable /\ nodes[k].statusTerm \in Nat
    BY <2>2 DEF Observable
  <2>4. \A k \in Server : nodes[k].statusTerm <= MaxTerm + now /\ nodes[k].statusTerm <= MaxTerm + Steps
    BY <2>2, <2>3, BoundsAssumption
  <2>5. Bounded(NoFacts, Steps)
    BY DEF Bounded, NoFacts
  <2>6. /\ Agrees(Observe(NoHistory, 0, nodes), Seen(NoFacts, nodes)) /\ Still(Observe(NoHistory, 0, nodes), nodes)
        /\ IsFacts(Seen(NoFacts, nodes)) /\ Bounded(Seen(NoFacts, nodes), Steps)
    BY <2>3, <2>4, <2>5, NothingAgrees, SeenAgrees
  <2>7. now \in 0..Steps
    BY <2>2, BoundsAssumption
  <2> QED BY <2>2, <2>4, <2>6, <2>7 DEF CheckerInv, Init
<1>2. CheckerInv /\ [Next]_vars => CheckerInv'
  <2> SUFFICES ASSUME CheckerInv, [Next]_vars PROVE CheckerInv'
    OBVIOUS
  <2>1. CASE Next
    <3>1. now \in Nat /\ Steps \in Nat /\ MaxTerm \in Nat
      BY BoundsAssumption DEF CheckerInv
    <3>a. PICK n \in Server : \E o : Reached(o, now + 1) /\ Observed(n, o)
      BY <2>1, <3>1, ActionsObserve DEF CheckerInv
    <3>3. PICK o : Reached(o, now + 1) /\ Observed(n, o)
      BY <3>a
    <3>4. /\ now < Steps /\ now' = now + 1 /\ nodes' = [nodes EXCEPT ![n] = o]
          /\ checker' = Observe(checker, now', nodes') /\ facts' = Seen(facts, nodes')
      BY <3>3 DEF Observed
    <3>5. now' \in 0..Steps
      BY <3>1, <3>4
    <3>6. nodes' \in [Server -> Observable]
      BY <3>3, <3>4 DEF CheckerInv, Reached
    <3>7. ASSUME NEW k \in Server
          PROVE  nodes'[k] \in Observable /\ nodes'[k].statusTerm <= MaxTerm + now'
      <4>1. nodes'[k] \in Observable /\ nodes'[k].statusTerm \in Nat
        BY <3>6 DEF Observable
      <4>2. CASE k = n
        BY <3>3, <3>4, <4>1, <4>2 DEF Reached, CheckerInv
      <4>3. CASE k # n
        <5>1. nodes'[k] = nodes[k] /\ nodes[k].statusTerm <= MaxTerm + now
          BY <3>4, <4>3 DEF CheckerInv
        <5> QED BY <3>1, <3>4, <4>1, <5>1
      <4> QED BY <4>2, <4>3
    <3>8. \A k \in Server : nodes'[k] \in Observable /\ nodes'[k].statusTerm <= MaxTerm + Steps
      <4> SUFFICES ASSUME NEW k \in Server PROVE nodes'[k] \in Observable /\ nodes'[k].statusTerm <= MaxTerm + Steps
        OBVIOUS
      <4>1. nodes'[k] \in Observable /\ nodes'[k].statusTerm \in Nat
        BY <3>6 DEF Observable
      <4> QED BY <3>1, <3>5, <3>7, <4>1
    <3>9. Agrees(checker, facts) /\ IsFacts(facts) /\ Bounded(facts, Steps)
      BY DEF CheckerInv
    <3>10. PICK ns, at : ns = nodes' /\ at = now'
      OBVIOUS
    <3>11. \A k \in Server : ns[k] \in Observable /\ ns[k].statusTerm <= MaxTerm + Steps
      BY <3>8, <3>10
    <3>12. /\ Agrees(Observe(checker, at, ns), Seen(facts, ns)) /\ Still(Observe(checker, at, ns), ns)
           /\ IsFacts(Seen(facts, ns)) /\ Bounded(Seen(facts, ns), Steps)
      BY <3>9, <3>11, SeenAgrees
    <3>13. checker' = Observe(checker, at, ns) /\ facts' = Seen(facts, ns)
      BY <3>4, <3>10
    <3>14. Agrees(checker', facts') /\ IsFacts(facts') /\ Bounded(facts', Steps) /\ Still(checker', nodes')
      BY <3>10, <3>12, <3>13
    <3> QED BY <3>5, <3>6, <3>7, <3>14 DEF CheckerInv
  <2>2. CASE UNCHANGED vars
    BY <2>2 DEF vars, CheckerInv
  <2> QED BY <2>1, <2>2
<1> QED BY <1>1, <1>2, PTL DEF Spec

(* First witnesses are enough: for any number of nodes, any entries and    *)
(* any number of observations, each history invariant is reported exactly  *)
(* when two observations contradict it (check.go, Observe).                *)
THEOREM AlarmsExact == Spec => []AlarmsAreExact
<1>1. CheckerInv => AlarmsAreExact
  <2> SUFFICES ASSUME CheckerInv PROVE AlarmsAreExact
    OBVIOUS
  <2>1. Alarmed(checker, facts) /\ LeadersKnown(checker, facts)
    BY DEF CheckerInv, Agrees
  <2>2. \A s : s \in Reported <=> Has(Found(checker), s)
    BY DEF Reported, Has, Found
  <2>3. /\ Has(Found(checker), "durable-double-vote") <=> Conflict(facts.voted)
        /\ Has(Found(checker), "committed-conflict") <=> Conflict(facts.committed)
        /\ Has(Found(checker), "applied-conflict") <=> Conflict(facts.applied)
        /\ Has(Found(checker), "snapshot-conflict") <=> Conflict(facts.snapshots)
        /\ Has(Found(checker), "election-safety") <=> Conflict(facts.led)
    BY <2>1 DEF Alarmed, LeadersKnown
  <2>4. Reported \ OtherAlarms = facts.broken
    <3>1. \A s \in Broken : s \in Reported <=> s \in facts.broken
      BY <2>1, <2>2 DEF Alarmed
    <3>2. facts.broken \subseteq Broken
      BY <2>1 DEF Alarmed
    <3>3. \A s \in Reported : s \in Broken \cup OtherAlarms
      <4> SUFFICES ASSUME NEW s \in Reported PROVE s \in Broken \cup OtherAlarms
        OBVIOUS
      <4>1. PICK x \in Found(checker) : x[1] = s
        BY <2>2 DEF Has
      <4> QED BY <2>1, <4>1 DEF Alarmed
    <3>4. Broken \cap OtherAlarms = {}
      BY DEF Broken, OtherAlarms
    <3> QED BY <3>1, <3>2, <3>3, <3>4
  <2> QED BY <2>2, <2>3, <2>4 DEF AlarmsAreExact, OtherAlarms
<1> QED BY <1>1, CheckerInvHolds, PTL

(* A leader is blamed only for what it lacked, for everything it must not  *)
(* lack, and exactly the leaders that no valid configuration elected, or   *)
(* of which no quorum was seen to vote for them, lack a certificate,       *)
(* unless a voter voted twice (check.go, checkLeader).                     *)
THEOREM LeaderAlarmsJust == Spec => []LeaderAlarmsAreJust
<1>1. CheckerInv => LeaderAlarmsAreJust
  <2> SUFFICES ASSUME CheckerInv PROVE LeaderAlarmsAreJust
    OBVIOUS
  <2> DEFINE F == Found(checker)
             blamed == {<<v[1][3], v[1][4]>> : v \in {w \in checker.violations : w[1][1] = "leader-completeness"}}
             uncertified == {x \in Server \X (0..MaxTerm + Steps) :
                               \E v \in checker.violations :
                                  v[1][1] = "election-certificate" /\ x[1] \in DOMAIN v[1][2] /\ x[2] = v[1][3]}
  <2>1. /\ BlameJust(F, facts.missing) /\ BlameFull(F, facts.missing, facts.committed)
        /\ CertFull(F, facts.uncertified) /\ (Conflict(facts.voted) \/ CertJust(F, facts.uncertified))
    BY DEF CheckerInv, Agrees, LeadersJust
  <2>2. \A b \in blamed : \E m \in facts.missing : m[1] = b[1] /\ m[2][1] = b[2] /\ m[2][3] <= b[1]
    <3> SUFFICES ASSUME NEW v \in checker.violations, v[1][1] = "leader-completeness"
                 PROVE  \E m \in facts.missing : m[1] = v[1][3] /\ m[2][1] = v[1][4] /\ m[2][3] <= v[1][3]
      OBVIOUS
    <3>1. v[1] \in F
      BY DEF Found
    <3> HIDE DEF F
    <3> QED BY <2>1, <3>1 DEF BlameJust
  <2>3. ASSUME NEW m \in facts.missing,
               \A x \in facts.committed : x[1] = m[2][1] => x[2] = m[2][2] /\ x[3] <= m[1]
        PROVE  <<m[1], m[2][1]>> \in blamed
    <3>1. InTime(facts.committed, m)
      BY <2>3 DEF InTime
    <3>2. Blamed(F, m[1], m[2][1])
      BY <2>1, <3>1 DEF BlameFull
    <3>3. PICK x \in F : x[1] = "leader-completeness" /\ x[3] = m[1] /\ x[4] = m[2][1]
      BY <3>2 DEF Blamed
    <3>4. PICK v \in checker.violations : v[1] = x
      BY <3>3 DEF Found
    <3> QED BY <3>3, <3>4
  <2>4. facts.uncertified \subseteq uncertified
    <3> SUFFICES ASSUME NEW u \in facts.uncertified PROVE u \in uncertified
      OBVIOUS
    <3>1. u \in Server \X (0..MaxTerm + Steps)
      BY DEF CheckerInv, Bounded
    <3>2. PICK x \in F : x[1] = "election-certificate" /\ u[1] \in DOMAIN x[2] /\ u[2] = x[3]
      BY <2>1 DEF CertFull
    <3>3. PICK v \in checker.violations : v[1] = x
      BY <3>2 DEF Found
    <3> QED BY <3>1, <3>2, <3>3
  <2>5. ASSUME ~Conflict(facts.voted) PROVE uncertified \subseteq facts.uncertified
    <3> SUFFICES ASSUME NEW u \in uncertified PROVE u \in facts.uncertified
      OBVIOUS
    <3>1. u \in Server \X (0..MaxTerm + Steps)
      OBVIOUS
    <3>2. PICK v \in checker.violations : v[1][1] = "election-certificate" /\ u[1] \in DOMAIN v[1][2] /\ u[2] = v[1][3]
      OBVIOUS
    <3>3. v[1] \in F
      BY DEF Found
    <3> HIDE DEF F
    <3>4. <<u[1], v[1][3]>> \in facts.uncertified
      BY <2>1, <2>5, <3>2, <3>3 DEF CertJust
    <3>5. u = <<u[1], u[2]>>
      BY <3>1
    <3> QED BY <3>2, <3>4, <3>5
  <2>6. Conflict(facts.voted) \/ uncertified \subseteq facts.uncertified
    BY <2>5
  <2> HIDE DEF F
  <2> QED BY <2>2, <2>3, <2>4, <2>6 DEF LeaderAlarmsAreJust
<1> QED BY <1>1, CheckerInvHolds, PTL

(* Evidence is reported once, and what was observed already adds nothing   *)
(* when it is observed again (check.go, add and Fingerprint).              *)
THEOREM EvidenceReportedOnce == Spec => []ReportedOnce
<1>1. CheckerInv => ReportedOnce
  <2> SUFFICES ASSUME CheckerInv PROVE ReportedOnce
    OBVIOUS
  <2>1. HistoryOK(checker) /\ Still(checker, nodes) /\ \A k \in Server : nodes[k] \in Observable
    BY DEF CheckerInv, Agrees
  <2>2. Observe(checker, now + 1, nodes) = checker
    BY <2>1, StillStays
  <2>3. \A v, w \in checker.violations : v[1] = w[1] => v = w
    BY <2>1 DEF HistoryOK
  <2> QED BY <2>2, <2>3 DEF ReportedOnce
<1> QED BY <1>1, CheckerInvHolds, PTL


=============================================================================
