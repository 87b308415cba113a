------------------------------ MODULE MCSearch ------------------------------
(***************************************************************************)
(* Programs of four values moved by a bootstrap event and four actions,    *)
(* with one or two bad values; wide and narrow bounds.                     *)
(***************************************************************************)
EXTENDS Search

MCScenario == <<1, 2, 3, 4>>
MCPrograms ==
  {[push |-> p, scale |-> [a \in 0..4 |-> s], bad |-> b, stops |-> t, maxSteps |-> m] :
     p \in [0..4 -> 0..1], s \in {1, 2}, b \in {{3}, {1, 3}}, t \in BOOLEAN, m \in {3, 5}}
MCStreams == {<<1, 1, 1, 1, 1, 1, 1, 1, 1, 1>>, <<2, 2, 1, 0, 3, 2, 0, 1, 2, 0>>}
MCBounds ==
  {[runs |-> 90, depth |-> 5, branches |-> 3, samples |-> 3, stop |-> FALSE, entries |-> 99, minimize |-> 60],
   [runs |-> 40, depth |-> 4, branches |-> 2, samples |-> 2, stop |-> TRUE, entries |-> 4, minimize |-> 5],
   [runs |-> 7, depth |-> 2, branches |-> 3, samples |-> 1, stop |-> FALSE, entries |-> 1, minimize |-> 1]}
=============================================================================
