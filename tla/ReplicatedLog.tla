---------------------------- MODULE ReplicatedLog ----------------------------
(***************************************************************************)
(* What a replicated log promises to its applications: commands are chosen *)
(* once and for all in one order, and every replica is handed a growing    *)
(* prefix of that order.  Noops, configurations, terms, crashes, snapshots *)
(* and messages are invisible at this level.                               *)
(***************************************************************************)
EXTENDS SequencesExt

CONSTANTS Server, Command

VARIABLES
    chosen,     \* the commands chosen so far
    delivered   \* for each replica, the commands its application has executed

vars == <<chosen, delivered>>

Init ==
    /\ chosen = <<>>
    /\ delivered = [s \in Server |-> <<>>]

Choose ==
    /\ chosen' \in Seq(Command)
    /\ IsStrictPrefix(chosen, chosen')
    /\ UNCHANGED delivered

Deliver(s) ==
    /\ \E longer \in Prefixes(chosen) :
        /\ IsStrictPrefix(delivered[s], longer)
        /\ delivered' = [delivered EXCEPT ![s] = longer]
    /\ UNCHANGED chosen

Next == Choose \/ \E s \in Server : Deliver(s)

Spec == Init /\ [][Next]_vars
=============================================================================
