----------------------------- MODULE MCChecker -----------------------------
(***************************************************************************)
(* Two nodes that start with one entry each, committed or not.             *)
(***************************************************************************)
EXTENDS CheckedHistory

MCServer == 1..2
MCInitial == stableMembership(MCServer, {})
entry(type, data, membership) == [term |-> 1, type |-> type, data |-> data, membership |-> membership]
shrink == [voters |-> {1}, outgoing |-> {1, 2}, learners |-> {}, learnersNext |-> {}]
MCEntries ==
  {entry("command", "a", NoMembership), entry("joint", "none", shrink), entry("joint", "b", shrink),
   entry("final", "none", stableMembership({1}, {}))}
MCElecting == {NoMembership, stableMembership({1}, {})}
MCStarts ==
  {[up |-> TRUE, term |-> 1, votedFor |-> v, commit |-> c, log |-> <<entry("command", "a", NoMembership)>>,
    snap |-> [index |-> 0, term |-> 0, data |-> FALSE, membership |-> NoMembership],
    appliedIndex |-> 0, applied |-> <<>>, leader |-> FALSE, awaiting |-> FALSE, statusTerm |-> 1,
    statusVote |-> v, statusCommit |-> c, elected |-> NoMembership] : v \in {1}, c \in {1}}
=============================================================================
