----------------------------- MODULE Simulator -----------------------------
(***************************************************************************)
(* simulator.go and the parts of trace.go it writes to: the single         *)
(* threaded discrete-event scheduler.  Callbacks are opaque to it: an      *)
(* event carries a tag, and whatever a callback calls (Schedule, Cancel,   *)
(* Router.Send) is an action of its own between two steps.  A call that    *)
(* returns an error and changes nothing is a stuttering step.              *)
(***************************************************************************)
EXTENDS EventHeap, Integers

CONSTANTS
  MaxTime,      \* math.MaxInt64, the largest duration
  MaxID,        \* math.MaxUint64, the last event identifier
  NoTime        \* no RunUntil in progress

ASSUME BoundsAssumption == MaxTime \in Nat /\ MaxID \in Nat \ {0} /\ NoTime \notin Nat

VARIABLES
  now,          \* Simulator.clock
  heap,         \* Simulator.queue and Simulator.pending
  nextID,
  exhausted,
  until         \* the end of the RunUntil in progress, or NoTime

simVars == <<now, heap, nextID, exhausted, until>>

Times == 0..MaxTime

\* int64 addition of durations.
Plus(a, b) == IF a + b > MaxTime THEN a + b - 2 * (MaxTime + 1) ELSE a + b

SimInit ==
  /\ now = 0
  /\ heap = EmptyHeap
  /\ nextID = 1
  /\ exhausted = FALSE
  /\ until = NoTime

\* The conditions under which scheduleAt accepts a deadline.
Accepts(when) == when >= 0 /\ when >= now /\ ~exhausted

\* The identifier that wraps around because the last one is not noticed.
scheduleAtWrapping(when, tag) ==
  /\ Accepts(when)
  /\ exhausted' = FALSE
  /\ nextID' = (nextID + 1) % (MaxID + 1)
  /\ heap' = push(heap, [id |-> nextID, when |-> when, tag |-> tag])
  /\ UNCHANGED <<now, until>>

scheduleAt(when, tag) ==
  /\ Accepts(when)
  /\ exhausted' = (nextID = MaxID)
  /\ nextID' = IF nextID = MaxID THEN nextID ELSE nextID + 1
  /\ heap' = push(heap, [id |-> nextID, when |-> when, tag |-> tag])
  /\ UNCHANGED <<now, until>>

\* Relative scheduling refuses a delay whose sum would overflow.
AcceptsDelay(delay) ==
  delay >= 0 /\ now <= MaxTime - delay /\ Accepts(Plus(now, delay))

Schedule(delay, tag) == AcceptsDelay(delay) /\ scheduleAt(Plus(now, delay), tag)

\* An unknown, executed or cancelled identifier changes nothing.  The event is
\* found by the position it believes it has.
Cancel(id) ==
  /\ id \in DOMAIN heap.index
  /\ heap' = remove(heap, heap.index[id], id)
  /\ UNCHANGED <<now, nextID, exhausted, until>>

NextEvent == heap.events[1]

\* Step without the call of the callback; Run and RunSteps repeat it.
pop ==
  /\ heap.events # <<>>
  /\ heap' = remove(heap, 1, NextEvent.id)
  /\ now' = NextEvent.when
  /\ UNCHANGED <<nextID, exhausted>>

\* A call with nothing to run and the clock already there changes nothing.
RunUntil(end) ==
  /\ until = NoTime
  /\ end >= now
  /\ end > now \/ (heap.events # <<>> /\ NextEvent.when <= end)
  /\ until' = end
  /\ UNCHANGED <<now, heap, nextID, exhausted>>

\* The condition of RunUntil's loop.
DueWithin(end) == heap.events # <<>> /\ NextEvent.when <= end

\* A loop that waits for an empty queue instead of the end.
RunUntilWaits ==
  /\ until # NoTime
  /\ heap.events = <<>>
  /\ now' = until
  /\ until' = NoTime
  /\ UNCHANGED <<heap, nextID, exhausted>>

RunUntilReturns ==
  /\ until # NoTime
  /\ ~DueWithin(until)
  /\ now' = until
  /\ until' = NoTime
  /\ UNCHANGED <<heap, nextID, exhausted>>
=============================================================================
