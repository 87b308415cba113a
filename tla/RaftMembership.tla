--------------------------- MODULE RaftMembership ---------------------------
(***************************************************************************)
(* Voting configurations of the reference Raft node (raft/membership.go).  *)
(*                                                                         *)
(* The code keeps every role set as a sorted slice without duplicates,     *)
(* drawn from the pre-provisioned universe of nodes; here they are sets,   *)
(* so sorting and canonicalNodeSet's order and duplicate tests vanish.     *)
(***************************************************************************)
EXTENDS Naturals, FiniteSets

CONSTANT
    Server          \* the universe: Config.Members of every node

ASSUME ServerAssumption == IsFiniteSet(Server) /\ Server # {}

\* The Go zero value Membership{}.
NoMembership ==
    [voters |-> {}, outgoing |-> {}, learners |-> {}, learnersNext |-> {}]

Membership ==
    [voters : SUBSET Server, outgoing : SUBSET Server,
     learners : SUBSET Server, learnersNext : SUBSET Server]

stableMembership(voters, learners) ==
    [voters |-> voters, outgoing |-> {},
     learners |-> learners, learnersNext |-> {}]

Joint(m) == m.outgoing # {}

isVoter(m, id) == id \in m.voters \/ id \in m.outgoing

voterUnion(m) == m.voters \cup m.outgoing

majorityMatches(voters, matching) ==
    Cardinality(voters \cap matching) >= Cardinality(voters) \div 2 + 1

\* Mutant: the outgoing voters have no say in a joint configuration.
quorum_IncomingOnly(m, matching) == majorityMatches(m.voters, matching)

\* matching is the set of nodes for which the code's predicate holds.
quorum(m, matching) ==
    /\ majorityMatches(m.voters, matching)
    /\ Joint(m) => majorityMatches(m.outgoing, matching)

validateMembership(m) ==
    /\ m.voters # {}
    /\ ~Joint(m) => m.learnersNext = {}
    /\ m.voters \cap (m.learners \cup m.learnersNext) = {}
    /\ m.outgoing \cap m.learners = {}

\* The first case of transitionMembership: entering joint consensus.
jointTransitionOK(current, next) ==
    /\ ~Joint(current)
    /\ Joint(next)
    /\ validateMembership(next)
    /\ next.outgoing = current.voters
    /\ next.learners = next.learnersNext \ next.outgoing

\* Its second case: leaving joint consensus.
finalTransitionOK(current, next) ==
    /\ Joint(current)
    /\ ~Joint(next)
    /\ validateMembership(next)
    /\ next.voters = current.voters
    /\ next.learners = current.learnersNext
=============================================================================
