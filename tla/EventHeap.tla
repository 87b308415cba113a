----------------------------- MODULE EventHeap -----------------------------
(***************************************************************************)
(* queue.go: the binary min-heap under the simulator.  Every event carries *)
(* its own position (scheduledEvent.index), which Cancel uses to remove an *)
(* event from the middle.  A heap is a record: events is the array (from   *)
(* 1), index gives the position each pending identifier believes it has;   *)
(* the domain of index is the simulator's map of pending events.           *)
(***************************************************************************)
EXTENDS Naturals, Sequences, SequencesExt

EmptyHeap == [events |-> <<>>, index |-> <<>>]

\* Virtual time first, insertion order among equal times.
less(a, b) == a.when < b.when \/ (a.when = b.when /\ a.id < b.id)

\* Swaps that leave the event at the head of the path where it believes it was.
ShiftStale(h, path) ==
  LET source == [k \in DOMAIN h.events |->
                   IF k = Last(path) THEN Head(path)
                   ELSE IF \E j \in 1..(Len(path) - 1) : path[j] = k
                        THEN path[(CHOOSE j \in 1..(Len(path) - 1) : path[j] = k) + 1]
                        ELSE k]
      told == ToSet(path) \ {Last(path)}
  IN [events |-> [k \in DOMAIN h.events |-> h.events[source[k]]],
      index |-> [i \in DOMAIN h.index |->
                   IF \E k \in told : h.events[source[k]].id = i
                   THEN CHOOSE k \in told : h.events[source[k]].id = i
                   ELSE h.index[i]]]

\* The repeated swaps along a path of positions: the event at its head sinks
\* to its end, the others move one place towards the head.  Only the events
\* that move learn a new index.
Shift(h, path) ==
  LET source == [k \in DOMAIN h.events |->       \* where the event now at k came from
                   IF k = Last(path) THEN Head(path)
                   ELSE IF \E j \in 1..(Len(path) - 1) : path[j] = k
                        THEN path[(CHOOSE j \in 1..(Len(path) - 1) : path[j] = k) + 1]
                        ELSE k]
  IN [events |-> [k \in DOMAIN h.events |-> h.events[source[k]]],
      index |-> [i \in DOMAIN h.index |->
                   IF \E k \in ToSet(path) : h.events[source[k]].id = i
                   THEN CHOOSE k \in ToSet(path) : h.events[source[k]].id = i
                   ELSE h.index[i]]]

up(h, i) ==
  LET path[k \in DOMAIN h.events] ==
        IF k > 1 /\ less(h.events[i], h.events[k \div 2])
        THEN <<k>> \o path[k \div 2] ELSE <<k>>
  IN Shift(h, path[i])

\* The path that index i sinks along: towards the smaller child, as long as
\* that child is smaller than the sinking event.
DownPath(h, i) ==
  LET n == Len(h.events)
      smallest(k) == IF 2 * k + 1 <= n /\ less(h.events[2 * k + 1], h.events[2 * k])
                     THEN 2 * k + 1 ELSE 2 * k
      path[k \in 1..n] ==
        IF 2 * k <= n /\ less(h.events[smallest(k)], h.events[i])
        THEN <<k>> \o path[smallest(k)] ELSE <<k>>
  IN path[i]

push(h, e) ==
  LET n == Len(h.events) + 1
  IN up([events |-> Append(h.events, e),
         index |-> [i \in DOMAIN h.index \cup {e.id} |-> IF i = e.id THEN n ELSE h.index[i]]], n)

\* A removal that only restores the order downwards.
removeDownOnly(h, k, id) ==
  LET n == Len(h.events)
      cut == [events |-> SubSeq([h.events EXCEPT ![k] = h.events[n]], 1, n - 1),
              index |-> [i \in DOMAIN h.index \ {id} |-> IF i = h.events[n].id THEN k ELSE h.index[i]]]
  IN IF k = n THEN cut ELSE Shift(cut, DownPath(cut, k))

\* The event at position k leaves the array and the identifier id stops being
\* pending: swap with the last element, cut the array, restore the order
\* downwards and, when nothing moved down, upwards.
remove(h, k, id) ==
  LET n == Len(h.events)
      cut == [events |-> SubSeq([h.events EXCEPT ![k] = h.events[n]], 1, n - 1),
              index |-> [i \in DOMAIN h.index \ {id} |-> IF i = h.events[n].id THEN k ELSE h.index[i]]]
      path == DownPath(cut, k)
  IN IF k = n THEN cut
     ELSE IF Len(path) > 1 THEN Shift(cut, path) ELSE up(cut, k)

=============================================================================
