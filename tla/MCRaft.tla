------------------------------- MODULE MCRaft -------------------------------
(***************************************************************************)
(* Instances of Raft for TLC: three processes s1, s2, s3 (or two), and     *)
(* commands c1 and c2.                                                     *)
(***************************************************************************)
EXTENDS RaftInvariant

CONSTANTS s1, s2, s3, c1, c2

\* The default: every member votes.
AllVoters == stableMembership(Server, {})

\* One voter and learners: elections are immediate, followers may lag.
SoleVoter == stableMembership({s1}, Server \ {s1})

\* Demote all voters but one.
Shrink == {<<{s1}, Server \ {s1}>>}

\* Sound everywhere: no definition singles out a command.
CommandSymmetry == Permutations(Command)

\* Sound where no constant singles out a process.
Symmetry == Permutations(Server)

\* Sound where only s1 is singled out.
SymmetryButFirst == Permutations(Server \ {s1})
=============================================================================
