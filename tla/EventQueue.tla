----------------------------- MODULE EventQueue -----------------------------
(***************************************************************************)
(* What the simulator promises: a set of pending events and a clock.  An   *)
(* event runs when no other comes before it in time, or in the order of    *)
(* scheduling at the same time; the clock stands at the time of the event  *)
(* that ran, only moves forwards, and never passes a pending event; an     *)
(* identifier is issued once.                                              *)
(***************************************************************************)
EXTENDS Naturals

CONSTANTS Times, EventIDs      \* the durations and the identifiers, from 0 and 1
VARIABLES clock, pending, issued

vars == <<clock, pending, issued>>

Events == [id : EventIDs, when : Times]

Before(a, b) == a.when < b.when \/ (a.when = b.when /\ a.id < b.id)

Init == clock = 0 /\ pending = {} /\ issued = 0

Schedule(e) ==
  /\ e.when >= clock
  /\ e.id > issued
  /\ issued' = e.id
  /\ pending' = pending \cup {e}
  /\ UNCHANGED clock

Cancel(e) ==
  /\ e \in pending
  /\ pending' = pending \ {e}
  /\ UNCHANGED <<clock, issued>>

Execute(e) ==
  /\ e \in pending
  /\ \A f \in pending \ {e} : Before(e, f)
  /\ pending' = pending \ {e}
  /\ clock' = e.when
  /\ UNCHANGED issued

\* The clock moves on its own only over a stretch without events.
Advance(t) ==
  /\ t > clock
  /\ \A e \in pending : e.when > t
  /\ clock' = t
  /\ UNCHANGED <<pending, issued>>

Next ==
  \/ \E e \in Events : Schedule(e)
  \/ \E e \in pending : Cancel(e) \/ Execute(e)
  \/ \E t \in Times : Advance(t)

Spec == Init /\ [][Next]_vars
=============================================================================
