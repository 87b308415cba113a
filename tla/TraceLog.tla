------------------------------ MODULE TraceLog ------------------------------
(***************************************************************************)
(* trace.go and trace/decoder.go: the recorder that numbers the events of  *)
(* simulator, router and random source and writes one line for each, and   *)
(* the decoder that reads the lines back.  The writer may fail, or write a *)
(* part of the line.  An event is its place in the order of emission, its  *)
(* kind and the fields it sets; a line keeps them with the sequence number *)
(* and how much of it reached the file.                                    *)
(***************************************************************************)
EXTENDS Naturals, Sequences

CONSTANTS
  MaxSequence   \* math.MaxUint64, the last sequence number

ASSUME SequenceAssumption == MaxSequence \in Nat \ {0}

VARIABLES
  emitted,      \* events handed to RecordTrace so far
  next, failed, \* JSONLRecorder: next sequence number, err # nil
  file,         \* the lines not yet read
  decoded,      \* Decoder.next - 1: records returned
  rejected,     \* Decoder.err # nil
  order         \* the place in the order of emission of the last record returned

traceVars == <<emitted, next, failed, file, decoded, rejected, order>>

TraceInit ==
  /\ emitted = 0 /\ next = 1 /\ failed = FALSE /\ file = <<>>
  /\ decoded = 0 /\ rejected = FALSE /\ order = 0

\* How much of a line a write leaves behind: all of it, all but the newline,
\* a part of the object, or nothing.
Writes == {"whole", "unterminated", "torn", "none"}

line(event, place, sequence, w) ==
  [kind |-> event.kind, fields |-> event.fields, place |-> place,
   sequence |-> sequence, form |-> w]

\* A recorder that goes on after a write that failed.
recordAnyway(events) ==
  /\ emitted' = emitted + Len(events)
  /\ \E lost \in SUBSET (1..Len(events)) :
       LET kept == SelectSeq([j \in 1..Len(events) |-> j], LAMBDA j : j \notin lost)
       IN /\ next + Len(kept) <= MaxSequence
          /\ next' = next + Len(kept)
          /\ file' = file \o [j \in 1..Len(kept) |->
                                line(events[kept[j]], emitted + kept[j], next + j - 1, "whole")]
  /\ UNCHANGED <<failed, decoded, rejected, order>>

\* RecordTrace for events emitted one after the other: the first write that
\* does not complete, or the exhausted sequence, ends the recording for good.
\* k lines are written whole; what then happens to the next one is w.
recordTrace(events) ==
  /\ emitted' = emitted + Len(events)
  /\ IF failed THEN UNCHANGED <<next, failed, file>>
     ELSE \E k \in 0..Len(events), w \in Writes :
            LET whole == [j \in 1..k |-> line(events[j], emitted + j, next + j - 1, "whole")]
                room == IF next = 0 THEN 0 ELSE MaxSequence - next + 1
                stopped == k < Len(events)
            IN /\ k <= room
               /\ w = "whole" <=> ~stopped
               /\ stopped /\ k = room => w = "none"   \* next has wrapped to zero
               /\ next' = (next + k) % (MaxSequence + 1)
               /\ failed' = stopped
               /\ file' = file \o whole \o
                    (IF stopped /\ w # "none"
                     THEN <<line(events[k + 1], emitted + k + 1, next + k, w)>> ELSE <<>>)
  /\ UNCHANGED <<decoded, rejected, order>>

\* The fields validate asks of each kind it knows.
Required(kind) ==
  CASE kind = "event_scheduled" -> {"at", "scheduled_for", "event_id"}
    [] kind \in {"event_canceled", "event_executed"} -> {"at", "event_id"}
    [] kind = "clock_advanced" -> {"at"}
    [] kind = "random_draw" -> {"random"}
    [] kind \in {"node_registered", "node_unregistered"} -> {"at", "node"}
    [] kind = "link_set" -> {"at", "route", "link"}
    [] kind = "link_reset" -> {"at", "route"}
    [] kind = "partition_changed" -> {"at", "partition_active"}
    [] kind \in {"packet_scheduled", "packet_delivered"} -> {"at", "packet_id", "route", "delivery_at"}
    [] kind = "packet_dropped" -> {"at", "packet_id", "route", "drop_reason"}

\* A line without its newline at the end of the file is still a record.
Decodes(l) ==
  /\ l.form \in {"whole", "unterminated"}
  /\ l.sequence = decoded + 1
  /\ Required(l.kind) \subseteq l.fields

\* Decoder.Next; at the end of the file it returns io.EOF and changes nothing.
decodeNext ==
  /\ ~rejected
  /\ file # <<>>
  /\ file' = Tail(file)
  /\ IF Decodes(Head(file))
     THEN /\ decoded' = decoded + 1
          /\ order' = Head(file).place
          /\ UNCHANGED rejected
     ELSE rejected' = TRUE /\ UNCHANGED <<decoded, order>>
  /\ UNCHANGED <<emitted, next, failed>>
=============================================================================
