------------------------------ MODULE MCSimNet ------------------------------
(* Instances of the substrate. *)
EXTENDS SimNet

CONSTANTS n1, n2

Steady == [min |-> 0, max |-> 1, loss |-> "never"]
Lossy == [min |-> 1, max |-> 1, loss |-> "maybe"]
Dead == [min |-> 0, max |-> 0, loss |-> "always"]
OtherLinks == {Lossy, Dead}
Split == NewPartitions({{n1}, {n2}})
OneWay == NewPartitionMatrix({n1, n2}, {r \in Routes : r.from = n1})
Cuts == {Split, OneWay}

\* The drivers: timers alone fill the heap and use up the identifiers; packets
\* use up theirs; topology changes meet packets in flight; and each kind of
\* call is traced.
Driver(timers, sends, changes, runs, traced) ==
  [timers |-> timers, sends |-> sends, changes |-> changes, runs |-> runs, traced |-> traced]
Drivers ==
  {Driver(8, 0, 0, 0, FALSE), Driver(4, 0, 0, 1, FALSE), Driver(0, 3, 0, 0, FALSE),
   Driver(1, 1, 2, 1, FALSE), Driver(0, 2, 1, 1, FALSE), Driver(2, 0, 0, 1, TRUE),
   Driver(0, 1, 1, 0, TRUE)}
=============================================================================
