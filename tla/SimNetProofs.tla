---------------------------- MODULE SimNetProofs ----------------------------
(***************************************************************************)
(* Theorems about the substrate, for every set of nodes, every program of  *)
(* calls and every bound: the trace is read back as it was emitted; the    *)
(* array heap with its stored positions keeps the order of its events, and *)
(* the simulator on top of it is the ordered event queue; every packet has *)
(* one fate, and a closed route lets nothing through.  The order of the    *)
(* heap is argued along the paths that an event rises and sinks; where the *)
(* code recurses, the proof takes the least counterexample.                *)
(***************************************************************************)
EXTENDS SimNet, SequenceTheorems, TLAPS, WellFoundedInduction

-----------------------------------------------------------------------------
(* The trace.                                                              *)

\* What validate of the decoder knows.
Kinds == {"event_scheduled", "event_executed", "event_canceled", "clock_advanced",
          "random_draw", "node_registered", "node_unregistered", "link_set", "link_reset",
          "partition_changed", "packet_scheduled", "packet_delivered", "packet_dropped"}
Fields == {"at", "event_id", "scheduled_for", "random", "node", "route", "link",
           "partition_active", "packet_id", "drop_reason", "delivery_at"}

\* Events with the fields that their kind requires.
TraceEvents ==
  {e \in [kind : Kinds, fields : SUBSET Fields] : Required(e.kind) \subseteq e.fields}

\* What the file holds of them.
Lines == [kind : Kinds, fields : SUBSET Fields, place : Nat, sequence : Nat, form : Writes]

\* The file continues where the decoder stands: numbered without a gap, in the
\* order of emission, complete up to a last line that a failed write may have
\* torn.
FileOK ==
  \A k \in 1..Len(file) :
    /\ file[k].sequence = decoded + k
    /\ file[k].place = decoded + k
    /\ Required(file[k].kind) \subseteq file[k].fields
    /\ file[k].form = "whole" \/ (failed /\ k = Len(file))

\* As long as no write failed, whatever was emitted is in the file or decoded.
RecorderOK ==
  ~failed => /\ ~rejected
             /\ emitted = decoded + Len(file)
             /\ emitted <= MaxSequence
             /\ next = IF emitted = MaxSequence THEN 0 ELSE emitted + 1

\* Nothing is read or left to read that was not emitted.
TailOK == decoded + Len(file) <= emitted

\* What recorder and decoder keep true of the file between them.
TraceInv ==
  /\ emitted \in Nat /\ decoded \in Nat /\ order \in Nat /\ next \in 0..MaxSequence
  /\ failed \in BOOLEAN /\ rejected \in BOOLEAN /\ file \in Seq(Lines)
  /\ TraceIsFaithful
  /\ ~rejected => FileOK
  /\ RecorderOK
  /\ TailOK

\* Every trace event of the substrate carries what its kind requires.
LEMMA EventsAreTraced ==
  /\ {Scheduled, Executed, Canceled, Advanced, Draw} \subseteq TraceEvents
  /\ Topology("node_registered", {"node"}) \in TraceEvents
  /\ Topology("node_unregistered", {"node"}) \in TraceEvents
  /\ Topology("partition_changed", {"partition_active"}) \in TraceEvents
  /\ Topology("link_set", {"route", "link"}) \in TraceEvents
  /\ Topology("link_reset", {"route"}) \in TraceEvents
BY DEF Scheduled, Executed, Canceled, Advanced, Draw, Topology, Emits, TraceEvents, Kinds,
       Fields, Required

\* So does what the observer is told of a packet.
LEMMA PacketsAreTraced ==
  ASSUME NEW e, e.kind \in {"scheduled", "delivered", "dropped"}
  PROVE  PacketTrace(e) \in TraceEvents
<1>1. CASE e.kind = "scheduled"
  BY <1>1 DEF PacketTrace, Emits, TraceEvents, Kinds, Fields, Required
<1>2. CASE e.kind = "delivered"
  BY <1>2 DEF PacketTrace, Emits, TraceEvents, Kinds, Fields, Required
<1>3. CASE e.kind = "dropped"
  BY <1>3 DEF PacketTrace, Emits, TraceEvents, Kinds, Fields, Required
<1> QED BY <1>1, <1>2, <1>3

\* Draws are events.
LEMMA DrawsAreTraced ==
  ASSUME NEW n \in Nat, NEW d \in Draws(n)
  PROVE  d \in Seq(TraceEvents)
<1>1. Draw \in TraceEvents
  BY EventsAreTraced
<1>2. CASE d = <<>>
  BY <1>2
<1>3. CASE d = [k \in 1..n |-> Draw]
  BY <1>1, <1>3
<1> QED BY <1>2, <1>3 DEF Draws

\* What a counter does that wraps around after its last value.
LEMMA Wraps ==
  ASSUME NEW m \in Nat, NEW x \in 0..(m + 1)
  PROVE  x % (m + 1) = IF x = m + 1 THEN 0 ELSE x
<1>1. CASE x = m + 1
  BY <1>1
<1>2. CASE x < m + 1
  BY <1>2
<1> QED BY <1>1, <1>2

\* Lines that the recorder writes extend the file in order; a line that is not
\* whole is the last one and makes the recorder stop.
LEMMA RecordingIsFaithful ==
  ASSUME TraceInv, NEW events \in Seq(TraceEvents), recordTrace(events)
  PROVE  TraceInv'
<1>1. PICK L \in Nat : L = Len(events)
  OBVIOUS
<1>2. PICK F \in Nat : F = Len(file) /\ file \in Seq(Lines)
  BY DEF TraceInv
<1>3. MaxSequence \in Nat /\ MaxSequence > 0
  BY SequenceAssumption
<1>4. /\ emitted \in Nat /\ decoded \in Nat /\ order \in Nat /\ next \in 0..MaxSequence
      /\ failed \in BOOLEAN /\ rejected \in BOOLEAN
      /\ order = decoded /\ (rejected => failed) /\ (~rejected => FileOK) /\ RecorderOK
      /\ decoded + F <= emitted
  BY <1>2 DEF TraceInv, TraceIsFaithful, TailOK
<1>5. /\ emitted' = emitted + L /\ decoded' = decoded /\ rejected' = rejected /\ order' = order
  BY <1>1 DEF recordTrace
<1>6. CASE failed
  <2>1. next' = next /\ failed' = failed /\ file' = file
    BY <1>6 DEF recordTrace
  <2>2. FileOK => FileOK'
    BY <1>5, <2>1 DEF FileOK
  <2>3. RecorderOK'
    BY <1>6, <2>1 DEF RecorderOK
  <2>4. TailOK'
    BY <1>2, <1>4, <1>5, <2>1 DEF TailOK
  <2> QED BY <1>1, <1>4, <1>5, <2>1, <2>2, <2>3, <2>4 DEF TraceInv, TraceIsFaithful
<1>7. CASE ~failed
  <2> DEFINE whole(k) == [j \in 1..k |-> line(events[j], emitted + j, next + j - 1, "whole")]
             room == IF next = 0 THEN 0 ELSE MaxSequence - next + 1
             rest(k, w) == IF k < L /\ w # "none"
                           THEN <<line(events[k + 1], emitted + k + 1, next + k, w)>> ELSE <<>>
  <2>1. PICK k \in 0..L, w \in Writes :
          /\ k <= room /\ (w = "whole" <=> ~(k < L))
          /\ (k < L /\ k = room => w = "none")
          /\ next' = (next + k) % (MaxSequence + 1)
          /\ failed' = (k < L)
          /\ file' = file \o whole(k) \o rest(k, w)
    BY <1>1, <1>7 DEF recordTrace
  <2>2. /\ ~rejected /\ emitted = decoded + F /\ emitted <= MaxSequence
        /\ next = IF emitted = MaxSequence THEN 0 ELSE emitted + 1
    BY <1>2, <1>4, <1>7 DEF RecorderOK
  <2>3. k \in Nat /\ k <= L /\ emitted + k <= MaxSequence /\ (k > 0 => next = emitted + 1)
    BY <1>3, <1>4, <2>1, <2>2
  <2>4. next' = IF emitted + k = MaxSequence THEN 0 ELSE emitted + k + 1
    <3>1. CASE next = 0
      <4>1. k = 0 /\ emitted = MaxSequence
        BY <3>1, <1>4, <2>1, <2>2, <2>3
      <4>2. next' = 0
        BY <1>3, <2>1, <3>1, <4>1
      <4> QED BY <4>1, <4>2, <1>3
    <3>2. CASE next # 0
      <4>1. next = emitted + 1 /\ next + k \in 0..(MaxSequence + 1)
        BY <3>2, <1>3, <1>4, <2>2, <2>3
      <4>2. next' = IF next + k = MaxSequence + 1 THEN 0 ELSE next + k
        BY <4>1, <1>3, <2>1, Wraps
      <4> QED BY <4>1, <4>2, <1>3, <1>4, <2>3
    <3> QED BY <3>1, <3>2
  <2>5. \A j \in 1..L : events[j] \in TraceEvents
    BY <1>1
  <2>6. /\ whole(k) \in Seq(Lines) /\ Len(whole(k)) = k
        /\ \A j \in 1..k : whole(k)[j] = line(events[j], emitted + j, next + j - 1, "whole")
    <3>1. ASSUME NEW j \in 1..k
          PROVE  line(events[j], emitted + j, next + j - 1, "whole") \in Lines
      <4>1. events[j] \in TraceEvents /\ emitted + j \in Nat /\ next + j - 1 \in Nat
        BY <1>3, <1>4, <2>3, <2>5
      <4> QED BY <4>1 DEF TraceEvents, line, Lines, Writes
    <3> QED BY <3>1, <2>3
  <2>7. PICK r : r = rest(k, w)
    OBVIOUS
  <2>8. /\ r \in Seq(Lines) /\ Len(r) \in {0, 1}
        /\ Len(r) = 1 => k < L /\ r[1] = line(events[k + 1], emitted + k + 1, next + k, w)
    <3>1. CASE k < L /\ w # "none"
      <4>1. r = <<line(events[k + 1], emitted + k + 1, next + k, w)>>
        BY <3>1, <2>7
      <4>2. events[k + 1] \in TraceEvents /\ emitted + k + 1 \in Nat /\ next + k \in Nat
        BY <3>1, <1>3, <1>4, <2>3, <2>5
      <4>3. line(events[k + 1], emitted + k + 1, next + k, w) \in Lines
        BY <4>2, <2>1 DEF TraceEvents, line, Lines
      <4> QED BY <3>1, <4>1, <4>3
    <3>2. CASE ~(k < L /\ w # "none")
      BY <3>2, <2>7
    <3> QED BY <3>1, <3>2
  <2>9. PICK v : v = whole(k)
    OBVIOUS
  <2>10. v \in Seq(Lines) /\ Len(v) = k
         /\ \A j \in 1..k : v[j] = line(events[j], emitted + j, next + j - 1, "whole")
    BY <2>6, <2>9
  <2>11. file' = file \o v \o r
    BY <2>1, <2>7, <2>9
  <2> HIDE DEF whole, rest
  <2>12. /\ file' \in Seq(Lines) /\ Len(file') = F + k + Len(r)
         /\ \A i \in 1..Len(file') : file'[i] = IF i <= F THEN file[i]
                                               ELSE IF i <= F + k THEN v[i - F] ELSE r[i - F - k]
    <3>1. PICK u : u = file \o v
      OBVIOUS
    <3>2. /\ u \in Seq(Lines) /\ Len(u) = F + k
          /\ \A i \in 1..(F + k) : u[i] = IF i <= F THEN file[i] ELSE v[i - F]
      BY <1>2, <2>3, <2>10, <3>1, ConcatProperties
    <3>3. PICK R \in Nat : R = Len(r)
      BY <2>8
    <3>4. PICK l \in Nat : l = F + k
      BY <2>3
    <3>5. /\ u \o r \in Seq(Lines) /\ Len(u \o r) = l + R
          /\ \A i \in 1..(l + R) : (u \o r)[i] = IF i <= l THEN u[i] ELSE r[i - l]
      <4>1. Len(u) = l
        BY <3>2, <3>4
      <4> QED BY <2>8, <3>2, <3>3, <4>1, ConcatProperties
    <3>6. file' = u \o r
      BY <2>11, <3>1
    <3>7. \A i \in 1..(l + R) : i \in Int /\ i >= 1 /\ (i <= l => i \in 1..(F + k))
      BY <3>4
    <3>8. Len(file') = l + R /\ file' \in Seq(Lines) /\ l + R = F + k + Len(r)
      BY <3>3, <3>4, <3>5, <3>6
    <3>9. ASSUME NEW i \in 1..(l + R)
          PROVE  file'[i] = IF i <= F THEN file[i]
                            ELSE IF i <= F + k THEN v[i - F] ELSE r[i - F - k]
      <4>1. CASE i <= l
        <5>1. file'[i] = u[i] /\ i \in 1..(F + k)
          BY <3>5, <3>6, <3>7, <4>1
        <5> QED BY <3>2, <3>4, <4>1, <5>1
      <4>2. CASE ~(i <= l)
        <5>1. file'[i] = r[i - l]
          BY <3>5, <3>6, <4>2
        <5>2. i - l = i - F - k /\ ~(i <= F) /\ ~(i <= F + k)
          BY <1>2, <2>3, <3>4, <4>2
        <5> QED BY <5>1, <5>2
      <4> QED BY <4>1, <4>2
    <3> QED BY <3>8, <3>9
  <2>13. FileOK'
    <3> SUFFICES ASSUME NEW i \in 1..Len(file')
                 PROVE  /\ file'[i].sequence = decoded + i
                        /\ file'[i].place = decoded + i
                        /\ Required(file'[i].kind) \subseteq file'[i].fields
                        /\ file'[i].form = "whole" \/ (failed' /\ i = Len(file'))
      BY <1>5 DEF FileOK
    <3>1. CASE i <= F
      <4>1. i \in 1..Len(file) /\ file'[i] = file[i]
        BY <3>1, <1>2, <2>12
      <4> QED BY <4>1, <1>4, <1>7, <2>2 DEF FileOK
    <3>2. CASE i > F /\ i <= F + k
      <4>1. PICK j \in 1..k : j = i - F
        BY <3>2, <1>2, <2>3
      <4>2. file'[i] = line(events[j], emitted + j, next + j - 1, "whole") /\ j \in 1..L
        <5>1. file'[i] = v[j] /\ j \in 1..k /\ j \in 1..L
          BY <3>2, <4>1, <1>2, <2>3, <2>12
        <5> QED BY <5>1, <2>10
      <4>3. emitted + j = decoded + i /\ next + j - 1 = decoded + i
        BY <1>2, <1>4, <2>2, <2>3, <3>2, <4>1
      <4> QED BY <4>2, <4>3, <2>5 DEF line, TraceEvents
    <3>3. CASE i > F + k
      <4>1. Len(r) = 1 /\ i = F + k + 1 /\ i = Len(file')
        <5>1. PICK R \in {0, 1} : R = Len(r)
          BY <2>8
        <5>2. Len(file') = F + k + R /\ F + k < i /\ i \in 1..(F + k + R)
          BY <3>3, <5>1, <1>2, <2>3, <2>12
        <5>3. R = 1
          BY <5>1, <5>2, <1>2, <2>3
        <5> QED BY <5>1, <5>2, <5>3, <1>2, <2>3
      <4>2. file'[i] = line(events[k + 1], emitted + k + 1, next + k, w) /\ k < L /\ k + 1 \in 1..L
        <5>1. file'[i] = r[1]
          BY <4>1, <3>3, <1>2, <2>3, <2>12
        <5> QED BY <4>1, <5>1, <2>3, <2>8
      <4>3. emitted + k + 1 = decoded + i
        BY <4>1, <1>2, <1>4, <2>2, <2>3
      <4>4. failed' /\ file'[i].form = w
        <5>1. failed'
          BY <4>2, <2>1
        <5> QED BY <5>1, <4>2 DEF line
      <4>5. next + k = decoded + i
        <5>1. w # "none"
          BY <4>1, <2>7, <2>8 DEF rest
        <5>2. next # 0
          BY <5>1, <4>2, <1>3, <1>4, <2>1, <2>3
        <5> QED BY <5>2, <4>3, <2>2
      <4> QED BY <4>1, <4>2, <4>3, <4>4, <4>5, <2>5 DEF line, TraceEvents
    <3> QED BY <3>1, <3>2, <3>3, <1>2, <2>3
  <2>14. RecorderOK'
    <3> SUFFICES ASSUME ~failed' PROVE RecorderOK'
      BY DEF RecorderOK
    <3>1. k = L
      <4>1. ~(k < L)
        BY <2>1
      <4> QED BY <4>1, <1>1, <2>3
    <3>2. Len(r) = 0
      BY <3>1, <2>8
    <3>3. emitted' = decoded' + Len(file') /\ emitted' = emitted + k
      BY <3>1, <3>2, <1>2, <1>4, <1>5, <2>2, <2>3, <2>12
    <3> QED BY <3>3, <1>3, <1>4, <1>5, <2>2, <2>3, <2>4 DEF RecorderOK
  <2>15. next' \in 0..MaxSequence
    BY <1>3, <1>4, <2>3, <2>4
  <2>16. TailOK'
    <3>1. PICK R \in {0, 1} : R = Len(r) /\ (R = 1 => k < L)
      BY <2>8
    <3>2. Len(file') = F + k + R
      BY <2>12, <3>1
    <3>3. k + R <= L
      <4>1. CASE R = 0
        BY <2>3, <4>1
      <4>2. CASE R = 1
        BY <1>1, <2>3, <3>1, <4>2
      <4> QED BY <4>1, <4>2
    <3> QED BY <1>4, <1>5, <2>3, <3>1, <3>2, <3>3 DEF TailOK
  <2> QED BY <1>1, <1>4, <1>5, <1>7, <2>1, <2>2, <2>12, <2>13, <2>14, <2>15, <2>16
          DEF TraceInv, TraceIsFaithful
<1> QED BY <1>4, <1>6, <1>7

\* The decoder takes the first line.
LEMMA DecodingIsFaithful ==
  ASSUME TraceInv, decodeNext
  PROVE  TraceInv'
<1>1. /\ emitted \in Nat /\ decoded \in Nat /\ order \in Nat /\ next \in 0..MaxSequence
      /\ failed \in BOOLEAN /\ rejected \in BOOLEAN /\ file \in Seq(Lines)
      /\ order = decoded /\ RecorderOK /\ decoded + Len(file) <= emitted
  BY DEF TraceInv, TraceIsFaithful, TailOK
<1>2. /\ ~rejected /\ FileOK /\ file # <<>> /\ file' = Tail(file)
      /\ emitted' = emitted /\ next' = next /\ failed' = failed
  BY DEF decodeNext, TraceInv
<1>3. PICK F \in Nat : F = Len(file) /\ F > 0
  BY <1>1, <1>2
<1>4. /\ file' \in Seq(Lines) /\ Len(file') = F - 1
      /\ \A k \in 1..(F - 1) : file'[k] = file[k + 1]
  BY <1>1, <1>2, <1>3
<1>5. PICK l \in Lines : l = Head(file) /\ l = file[1]
  BY <1>1, <1>2
<1>6. /\ l.sequence = decoded + 1 /\ l.place = decoded + 1
      /\ Required(l.kind) \subseteq l.fields
      /\ l.form = "whole" \/ (failed /\ F = 1)
  BY <1>2, <1>3, <1>5 DEF FileOK
<1>7. CASE Decodes(l)
  <2>1. decoded' = decoded + 1 /\ order' = decoded + 1 /\ rejected' = rejected
    BY <1>5, <1>6, <1>7 DEF decodeNext
  <2>2. FileOK'
    <3> SUFFICES ASSUME NEW k \in 1..(F - 1)
                 PROVE  /\ file'[k].sequence = decoded' + k
                        /\ file'[k].place = decoded' + k
                        /\ Required(file'[k].kind) \subseteq file'[k].fields
                        /\ file'[k].form = "whole" \/ (failed /\ k = F - 1)
      BY <1>2, <1>4 DEF FileOK
    <3>1. k + 1 \in 1..Len(file) /\ file'[k] = file[k + 1]
      BY <1>3, <1>4
    <3> QED BY <3>1, <2>1, <1>1, <1>2, <1>3 DEF FileOK
  <2>3. RecorderOK'
    BY <2>1, <1>1, <1>2, <1>3, <1>4 DEF RecorderOK
  <2>4. TailOK'
    BY <2>1, <1>1, <1>2, <1>3, <1>4 DEF TailOK
  <2> QED BY <1>1, <1>2, <1>4, <2>1, <2>2, <2>3, <2>4 DEF TraceInv, TraceIsFaithful
<1>8. CASE ~Decodes(l)
  <2>1. decoded' = decoded /\ order' = order /\ rejected' = TRUE
    BY <1>5, <1>8 DEF decodeNext
  <2>2. failed
    BY <1>6, <1>8 DEF Decodes
  <2>3. TailOK'
    BY <2>1, <1>1, <1>2, <1>3, <1>4 DEF TailOK
  <2> QED BY <1>1, <1>2, <1>4, <2>1, <2>2, <2>3 DEF TraceInv, TraceIsFaithful, RecorderOK
<1> QED BY <1>7, <1>8

\* Either kind of driver.
LEMMA RecordsAreFaithful ==
  ASSUME TraceInv, NEW events \in Seq(TraceEvents), record(events)
  PROVE  TraceInv'
<1>1. CASE program.traced
  BY <1>1, RecordingIsFaithful DEF record
<1>2. CASE ~program.traced
  BY <1>2 DEF record, traceVars, TraceInv, TraceIsFaithful, FileOK, RecorderOK, TailOK
<1> QED BY <1>1, <1>2

\* What the observer is told of a packet can be traced.
LEMMA ObservationsAreTraced ==
  ASSUME NEW p, NEW kind \in {"scheduled", "delivered", "dropped"}, NEW reason,
         NEW deliveryAt, NEW wasInFlight,
         observe(p, kind, reason, deliveryAt, wasInFlight)
  PROVE  PacketTrace(observed'[p.id]) \in TraceEvents
<1>1. observed'[p.id] = Event(p, kind, reason, now', deliveryAt, wasInFlight)
  BY DEF observe
<1> QED BY <1>1, PacketsAreTraced DEF Event

\* The draws, the event and the packet of a Send are traced in their order.
LEMMA SendsAreTraced ==
  ASSUME TraceInv, NEW from, NEW to, CallSend(from, to)
  PROVE  TraceInv'
<1>1. {Scheduled, Executed, Canceled, Advanced, Draw} \subseteq TraceEvents
  BY EventsAreTraced
<1>2. Packet(from, to).id = nextPacket
  BY DEF Packet
<1>3. CASE SendCut(from, to) /\ record(<<PacketTrace(observed'[nextPacket])>>)
  <2>1. PacketTrace(observed'[nextPacket]) \in TraceEvents
    BY <1>2, <1>3, ObservationsAreTraced DEF SendCut, drop
  <2>2. <<PacketTrace(observed'[nextPacket])>> \in Seq(TraceEvents)
    BY <2>1
  <2> QED BY <2>2, <1>3, RecordsAreFaithful
<1>4. ASSUME SendLost(from, to, DefaultLink), NEW d \in Draws(1),
             record(d \o <<PacketTrace(observed'[nextPacket])>>)
      PROVE  TraceInv'
  <2>1. PacketTrace(observed'[nextPacket]) \in TraceEvents
    BY <1>2, <1>4, ObservationsAreTraced DEF SendLost, drop
  <2>2. d \in Seq(TraceEvents)
    BY DrawsAreTraced
  <2>3. d \o <<PacketTrace(observed'[nextPacket])>> \in Seq(TraceEvents)
    BY <2>1, <2>2
  <2> QED BY <2>3, <1>4, RecordsAreFaithful
<1>5. ASSUME NEW latency \in Times, SendScheduled(from, to, DefaultLink, latency),
             NEW d \in Draws(2), record(d \o <<Scheduled, PacketTrace(observed'[nextPacket])>>)
      PROVE  TraceInv'
  <2>1. PacketTrace(observed'[nextPacket]) \in TraceEvents
    BY <1>2, <1>5, ObservationsAreTraced DEF SendScheduled
  <2>2. d \in Seq(TraceEvents)
    BY DrawsAreTraced
  <2>3. d \o <<Scheduled, PacketTrace(observed'[nextPacket])>> \in Seq(TraceEvents)
    BY <1>1, <2>1, <2>2
  <2> QED BY <2>3, <1>5, RecordsAreFaithful
<1>6. ASSUME NEW d \in Draws(2), record(d)
      PROVE  TraceInv'
  <2>1. d \in Seq(TraceEvents)
    BY DrawsAreTraced
  <2> QED BY <2>1, <1>6, RecordsAreFaithful
<1> QED BY <1>3, <1>4, <1>5, <1>6 DEF CallSend

\* Every step.
LEMMA StepTraces ==
  ASSUME TraceInv, [Next]_vars
  PROVE  TraceInv'
<1>1. {Scheduled, Executed, Canceled, Advanced, Draw} \subseteq TraceEvents
  BY EventsAreTraced
<1>0. ASSUME NEW e \in TraceEvents, record(<<e>>) PROVE TraceInv'
  <2>1. <<e>> \in Seq(TraceEvents)
    OBVIOUS
  <2> QED BY <1>0, <2>1, RecordsAreFaithful
<1>2. ASSUME UNCHANGED traceVars PROVE TraceInv'
  BY <1>2 DEF traceVars, TraceInv, TraceIsFaithful, FileOK, RecorderOK, TailOK
<1>3. ASSUME NEW delay, CallSchedule(delay) PROVE TraceInv'
  BY <1>0, <1>1, <1>3 DEF CallSchedule
<1>4. ASSUME NEW when, CallScheduleAt(when) PROVE TraceInv'
  BY <1>0, <1>1, <1>4 DEF CallScheduleAt
<1>5. ASSUME NEW id, CallCancel(id) PROVE TraceInv'
  BY <1>0, <1>1, <1>5 DEF CallCancel
<1>6. ASSUME NEW end, CallRunUntil(end) PROVE TraceInv'
  BY <1>2, <1>6 DEF CallRunUntil
<1>7. CASE Step
  <2>1. CASE record(<<Executed>>)
    BY <1>0, <1>1, <2>1
  <2>2. CASE /\ deliver(NextEvent.tag, NextEvent.when)
             /\ record(<<Executed, PacketTrace(observed'[NextEvent.tag.id])>>)
    <3>1. PacketTrace(observed'[NextEvent.tag.id]) \in TraceEvents
      BY <2>2, ObservationsAreTraced DEF deliver, drop
    <3>2. <<Executed, PacketTrace(observed'[NextEvent.tag.id])>> \in Seq(TraceEvents)
      BY <3>1, <1>1
    <3> QED BY <3>2, <2>2, RecordsAreFaithful
  <2> QED BY <1>7, <2>1, <2>2 DEF Step
<1>8. CASE Return
  <2>1. <<>> \in Seq(TraceEvents) /\ <<Advanced>> \in Seq(TraceEvents)
    BY <1>1
  <2> QED BY <1>8, <2>1, RecordsAreFaithful DEF Return
<1>9. ASSUME NEW from, NEW to, CallSend(from, to) PROVE TraceInv'
  BY <1>9, SendsAreTraced
<1>10. CASE CallTopology
  <2>1. PICK e \in TraceEvents : record(<<e>>)
    BY <1>10, EventsAreTraced DEF CallTopology
  <2> QED BY <2>1, <1>0
<1>11. CASE CallDecode
  BY <1>11, DecodingIsFaithful DEF CallDecode
<1>12. CASE UNCHANGED vars
  BY <1>2, <1>12 DEF vars
<1> QED BY <1>3, <1>4, <1>5, <1>6, <1>7, <1>8, <1>9, <1>10, <1>11, <1>12 DEF Next

\* Nothing emitted, nothing written, nothing read.
LEMMA TraceStarts ==
  ASSUME Init
  PROVE  TraceInv
<1>0. TailOK
  BY DEF Init, TraceInit, TailOK
<1>1. file = <<>> /\ Len(file) = 0 /\ file \in Seq(Lines)
  BY DEF Init, TraceInit
<1>2. FileOK
  BY <1>1 DEF FileOK
<1>3. MaxSequence \in Nat /\ MaxSequence > 0
  BY SequenceAssumption
<1>4. /\ emitted = 0 /\ next = 1 /\ failed = FALSE /\ decoded = 0
      /\ rejected = FALSE /\ order = 0
  BY DEF Init, TraceInit
<1>5. RecorderOK
  BY <1>1, <1>3, <1>4 DEF RecorderOK
<1>6. TraceIsFaithful
  BY <1>4 DEF TraceIsFaithful
<1>7. 1 \in 0..MaxSequence
  BY <1>3
<1> QED BY <1>0, <1>1, <1>2, <1>4, <1>5, <1>6, <1>7 DEF TraceInv

\* A trace is read back as it was emitted: each record once and in its order,
\* and nothing the recorder wrote is rejected unless it had reported a failed
\* write, for every program of calls, every failure of the writer and every
\* last sequence number (JSONLRecorder.RecordTrace, Decoder.Next).
THEOREM TracesAreFaithful == Spec => []TraceIsFaithful
<1>1. Init => TraceInv
  BY TraceStarts
<1>2. TraceInv /\ [Next]_vars => TraceInv'
  BY StepTraces
<1>3. TraceInv => TraceIsFaithful
  BY DEF TraceInv
<1> QED BY <1>1, <1>2, <1>3, PTL DEF Spec

-----------------------------------------------------------------------------
(* Paths through the heap.                                                 *)

\* Every nonempty set of naturals has a least element.
LEMMA LeastElement ==
  ASSUME NEW T, T \subseteq Nat, T # {}
  PROVE  \E x \in T : \A y \in T : x <= y
<1>1. PICK x \in T : \A y \in T : ~(<<y, x>> \in OpToRel(<, Nat))
  BY WFMin, NatLessThanWellFounded
<1>2. \A y \in T : ~(y < x)
  BY <1>1 DEF OpToRel
<1> QED BY <1>2

\* p gives the next position on the path from each of n positions, or 0 at its
\* end; the rank r falls along it.
Falls(n, p, r) ==
  /\ p \in [1..n -> 0..n] /\ r \in [1..n -> 0..n]
  /\ \A k \in 1..n : p[k] # 0 => r[p[k]] < r[k]

\* f gives the path from each position.
PathsOf(f, n, p) == f = [k \in 1..n |-> IF p[k] # 0 THEN <<k>> \o f[p[k]] ELSE <<k>>]

\* s is a path of p to its end.
Chain(s, n, p, r) ==
  /\ s \in Seq(1..n) /\ Len(s) >= 1
  /\ \A j \in 1..Len(s) : IF j = Len(s) THEN p[s[j]] = 0 ELSE p[s[j]] # 0 /\ s[j + 1] = p[s[j]]
  /\ \A i, j \in 1..Len(s) : i < j => r[s[j]] < r[s[i]]

\* The recursion along falling ranks has a solution: a least rank up to which
\* it had none would have one.
LEMMA PathsExist ==
  ASSUME NEW n \in Nat, NEW p, NEW r, Falls(n, p, r)
  PROVE  \E f : PathsOf(f, n, p)
<1> DEFINE step(f, k) == IF p[k] # 0 THEN <<k>> \o f[p[k]] ELSE <<k>>
           upTo(d, f) == \A k \in 1..n : r[k] <= d => f[k] = step(f, k)
           T == {d \in Nat : ~\E f : upTo(d, f)}
<1>0. \A k \in 1..n : /\ r[k] \in Nat /\ r[k] <= n
                      /\ p[k] # 0 => p[k] \in 1..n /\ r[p[k]] \in Nat /\ r[p[k]] < r[k]
  BY DEF Falls
<1>1. T = {}
  <2> SUFFICES ASSUME T # {} PROVE FALSE
    OBVIOUS
  <2>1. T \subseteq Nat
    OBVIOUS
  <2> HIDE DEF T
  <2>2. PICK d \in T : \A y \in T : d <= y
    BY <2>1, LeastElement
  <2>3. d \in Nat /\ ~\E f : upTo(d, f)
    BY <2>2 DEF T
  <2>4. CASE d = 0
    <3>1. upTo(0, [k \in 1..n |-> <<k>>])
      BY <1>0
    <3> QED BY <2>3, <2>4, <3>1
  <2>5. CASE d # 0
    <3>1. PICK c \in Nat : d = c + 1
      <4>1. d - 1 \in Nat /\ d = (d - 1) + 1
        BY <2>3, <2>5
      <4> QED BY <4>1
    <3>2. PICK f : upTo(c, f)
      <4>1. c \notin T
        BY <2>2, <2>3, <3>1
      <4> QED BY <4>1 DEF T
    <3> DEFINE g == [k \in 1..n |-> IF r[k] = d THEN step(f, k) ELSE f[k]]
    <3>3. ASSUME NEW k \in 1..n, r[k] <= d PROVE g[k] = step(g, k)
      <4>1. p[k] # 0 => g[p[k]] = f[p[k]]
        BY <1>0, <3>1, <3>3
      <4>2. g[k] = step(f, k)
        BY <1>0, <3>1, <3>2, <3>3
      <4> QED BY <4>1, <4>2
    <3> HIDE DEF g
    <3>4. upTo(d, g)
      BY <3>3
    <3> QED BY <2>3, <3>4
  <2> QED BY <2>4, <2>5
<1>2. PICK f : upTo(n, f)
  BY <1>1
<1> DEFINE g == [k \in 1..n |-> f[k]]
<1>3. ASSUME NEW k \in 1..n PROVE g[k] = step(g, k)
  BY <1>0, <1>2
<1>4. g = [k \in 1..n |-> g[k]]
  OBVIOUS
<1> HIDE DEF g
<1>5. g = [k \in 1..n |-> step(g, k)]
  BY <1>3, <1>4
<1> QED BY <1>5 DEF PathsOf

\* Its values are paths: the least rank of one that is not would be higher.
LEMMA PathsAreChains ==
  ASSUME NEW n \in Nat, NEW p, NEW r, Falls(n, p, r), NEW f, PathsOf(f, n, p)
  PROVE  \A k \in 1..n : Chain(f[k], n, p, r) /\ f[k][1] = k
<1> DEFINE ok(k) == Chain(f[k], n, p, r) /\ f[k][1] = k
           T == {d \in Nat : \E k \in 1..n : r[k] = d /\ ~ok(k)}
<1>0. \A k \in 1..n : /\ r[k] \in Nat
                      /\ p[k] # 0 => p[k] \in 1..n /\ r[p[k]] \in Nat /\ r[p[k]] < r[k]
  BY DEF Falls
<1>1. \A k \in 1..n : f[k] = IF p[k] # 0 THEN <<k>> \o f[p[k]] ELSE <<k>>
  BY DEF PathsOf
<1> SUFFICES ASSUME T # {} PROVE FALSE
  <2>1. \A k \in 1..n : ok(k)
    BY <1>0
  <2> QED BY <2>1
<1>2. T \subseteq Nat
  OBVIOUS
<1> HIDE DEF T
<1>3. PICK d \in T : \A y \in T : d <= y
  BY <1>2, LeastElement
<1>4. PICK k \in 1..n : r[k] = d /\ ~ok(k)
  BY <1>3 DEF T
<1>5. CASE p[k] = 0
  <2>1. f[k] = <<k>>
    BY <1>1, <1>5
  <2>2. <<k>> \in Seq(1..n) /\ Len(<<k>>) = 1 /\ <<k>>[1] = k
    OBVIOUS
  <2> QED BY <1>4, <1>5, <2>1, <2>2 DEF Chain
<1>6. CASE p[k] # 0
  <2>1. PICK c \in 1..n : c = p[k] /\ r[c] < r[k]
    BY <1>0, <1>6
  <2>2. ok(c)
    <3>1. r[c] \in Nat /\ r[c] < d
      BY <1>0, <1>4, <2>1
    <3> QED BY <1>2, <1>3, <3>1 DEF T
  <2>3. PICK t \in Seq(1..n) : t = f[c]
    BY <2>2 DEF Chain
  <2>4. PICK l \in Nat : l = Len(t) /\ l >= 1
    BY <2>2, <2>3 DEF Chain
  <2> DEFINE u == <<k>>
  <2>0. u \in Seq(1..n) /\ Len(u) = 1 /\ u[1] = k
    OBVIOUS
  <2> HIDE DEF u
  <2>5. PICK s \in Seq(1..n) : s = u \o t
    BY <2>0, ConcatProperties
  <2>6. /\ f[k] = s /\ Len(s) = l + 1 /\ s[1] = k
        /\ \A j \in 1..l : s[j + 1] = t[j]
    <3>1. f[k] = s
      BY <1>1, <1>6, <2>1, <2>3, <2>5 DEF u
    <3>2. /\ Len(u \o t) = Len(u) + Len(t)
          /\ \A i \in 1..(Len(u) + Len(t)) :
               (u \o t)[i] = IF i <= Len(u) THEN u[i] ELSE t[i - Len(u)]
      BY <2>0, ConcatProperties
    <3>3. \A j \in 1..l : j + 1 \in 1..(1 + l) /\ ~(j + 1 <= 1) /\ (j + 1) - 1 = j
      BY <2>4
    <3>4. Len(s) = 1 + l /\ \A i \in 1..(1 + l) : s[i] = IF i <= 1 THEN u[i] ELSE t[i - 1]
      BY <2>0, <2>4, <2>5, <3>2
    <3>5. 1 \in 1..(1 + l) /\ 1 + l = l + 1
      BY <2>4
    <3>6. s[1] = k
      BY <2>0, <3>4, <3>5
    <3>7. \A j \in 1..l : s[j + 1] = t[j]
      BY <3>3, <3>4
    <3> QED BY <3>1, <3>4, <3>5, <3>6, <3>7
  <2>7. /\ t[1] = c
        /\ \A j \in 1..l : IF j = l THEN p[t[j]] = 0 ELSE p[t[j]] # 0 /\ t[j + 1] = p[t[j]]
        /\ \A i, j \in 1..l : i < j => r[t[j]] < r[t[i]]
    BY <2>2, <2>3, <2>4 DEF Chain
  <2>8. \A j \in 1..l : t[j] \in 1..n /\ r[t[j]] \in Nat /\ r[t[j]] <= r[c] /\ r[c] \in Nat
    <3> SUFFICES ASSUME NEW j \in 1..l
                 PROVE  t[j] \in 1..n /\ r[t[j]] \in Nat /\ r[t[j]] <= r[c] /\ r[c] \in Nat
      OBVIOUS
    <3>1. t[j] \in 1..n /\ r[t[j]] \in Nat /\ r[c] \in Nat
      BY <1>0, <2>4
    <3>2. CASE j = 1
      BY <2>7, <3>1, <3>2
    <3>3. CASE j # 1
      <4>1. 1 \in 1..l /\ 1 < j
        BY <2>4, <3>3
      <4>2. r[t[j]] < r[t[1]]
        BY <2>7, <4>1
      <4> QED BY <2>7, <3>1, <4>2
    <3> QED BY <3>2, <3>3
  <2>9. ASSUME NEW j \in 1..(l + 1)
        PROVE  IF j = l + 1 THEN p[s[j]] = 0 ELSE p[s[j]] # 0 /\ s[j + 1] = p[s[j]]
    <3>1. CASE j = 1
      BY <3>1, <1>6, <2>1, <2>4, <2>6, <2>7
    <3>2. CASE j # 1
      <4>1. PICK i \in 1..l : j = i + 1
        BY <3>2
      <4>2. s[j] = t[i] /\ (i # l => i + 1 \in 1..l /\ s[j + 1] = t[i + 1])
        <5>1. s[i + 1] = t[i]
          BY <2>6
        <5>2. i # l => i + 1 \in 1..l
          BY <2>4
        <5>3. i # l => s[(i + 1) + 1] = t[i + 1]
          BY <2>6, <5>2
        <5> QED BY <4>1, <5>1, <5>2, <5>3
      <4>3. j = l + 1 <=> i = l
        BY <4>1, <2>4
      <4> QED BY <4>2, <4>3, <2>7
    <3> QED BY <3>1, <3>2
  <2>10. ASSUME NEW i \in 1..(l + 1), NEW j \in 1..(l + 1), i < j
         PROVE  r[s[j]] < r[s[i]]
    <3>1. PICK jj \in 1..l : j = jj + 1 /\ s[j] = t[jj]
      <4>1. j - 1 \in 1..l /\ j = (j - 1) + 1
        BY <2>10
      <4> QED BY <4>1, <2>6
    <3>2. CASE i = 1
      <4>1. /\ r[s[j]] \in Nat /\ r[s[j]] <= r[c] /\ r[c] \in Nat /\ r[c] < r[k]
            /\ r[k] \in Nat /\ s[i] = k
        BY <3>1, <3>2, <1>0, <2>1, <2>6, <2>8
      <4> QED BY <4>1
    <3>3. CASE i # 1
      <4>1. PICK ii \in 1..l : i = ii + 1 /\ s[i] = t[ii]
        <5>1. i - 1 \in 1..l /\ i = (i - 1) + 1
          BY <3>3
        <5> QED BY <5>1, <2>6
      <4> QED BY <3>1, <4>1, <2>7, <2>10
    <3> QED BY <3>2, <3>3
  <2>11. Chain(s, n, p, r)
    BY <2>4, <2>6, <2>9, <2>10 DEF Chain
  <2> QED BY <1>4, <2>6, <2>11
<1> QED BY <1>5, <1>6

\* The pending events: timers and deliveries.
Tags == {Timer} \cup [kind : {"network_delivery"}, id : PacketIDs, route : Routes]
HeapEvents == [id : 1..MaxID, when : Times, tag : Tags]

\* A heap whose events have different identifiers and know their positions.
Stored(h) ==
  /\ h.events \in Seq(HeapEvents)
  /\ \A j, k \in 1..Len(h.events) : h.events[j].id = h.events[k].id => j = k
  /\ DOMAIN h.index = {h.events[k].id : k \in 1..Len(h.events)}
  /\ \A k \in 1..Len(h.events) : h.index[h.events[k].id] = k

\* The events of a heap, wherever they are.
Held(h) == {h.events[k] : k \in 1..Len(h.events)}

\* g is h with the events along the path s moved by one place.
Shifted(g, h, s) ==
  /\ Len(g.events) = Len(h.events)
  /\ \A j \in 1..Len(s) : g.events[s[j]] = h.events[IF j = Len(s) THEN s[1] ELSE s[j + 1]]
  /\ \A k \in 1..Len(h.events) : (\A j \in 1..Len(s) : s[j] # k) => g.events[k] = h.events[k]

\* Moving events along a path keeps them all, and each learns its position.
LEMMA ShiftMoves ==
  ASSUME NEW h, Stored(h), NEW n \in Nat, n = Len(h.events), NEW p, NEW r, Falls(n, p, r),
         NEW s, Chain(s, n, p, r)
  PROVE  Stored(Shift(h, s)) /\ Held(Shift(h, s)) = Held(h) /\ Shifted(Shift(h, s), h, s)
<1>1. PICK m \in Nat : m = Len(s) /\ m >= 1 /\ s \in Seq(1..n)
  BY DEF Chain
<1>2. \A i, j \in 1..m : s[i] = s[j] => i = j
  <2> SUFFICES ASSUME NEW i \in 1..m, NEW j \in 1..m, i < j, s[i] = s[j] PROVE FALSE
    OBVIOUS
  <2>1. r[s[j]] < r[s[i]] /\ s[i] \in 1..n
    BY <1>1 DEF Chain
  <2>2. r[s[i]] \in Nat
    BY <2>1 DEF Falls
  <2> QED BY <2>1, <2>2
<1>3. /\ DOMAIN h.events = 1..n /\ DOMAIN s = 1..m
      /\ \A j \in 1..m : s[j] \in 1..n
      /\ Head(s) = s[1] /\ Last(s) = s[m] /\ ToSet(s) = {s[j] : j \in 1..m}
      /\ \A k \in 1..n : h.events[k] \in HeapEvents
  <2>1. DOMAIN h.events = 1..n /\ \A k \in 1..n : h.events[k] \in HeapEvents
    BY DEF Stored
  <2>2. DOMAIN s = 1..m /\ \A j \in 1..m : s[j] \in 1..n
    BY <1>1
  <2>3. Head(s) = s[1] /\ Last(s) = s[m]
    BY <1>1 DEF Last
  <2>4. ToSet(s) = {s[j] : j \in 1..m}
    BY <2>2 DEF ToSet
  <2> QED BY <2>1, <2>2, <2>3, <2>4
<1> DEFINE after(j) == IF j = m THEN 1 ELSE j + 1
           source == [k \in DOMAIN h.events |->
                        IF k = Last(s) THEN Head(s)
                        ELSE IF \E j \in 1..(Len(s) - 1) : s[j] = k
                             THEN s[(CHOOSE j \in 1..(Len(s) - 1) : s[j] = k) + 1]
                             ELSE k]
           g == Shift(h, s)
<1>4. /\ g.events = [k \in DOMAIN h.events |-> h.events[source[k]]]
      /\ g.index = [i \in DOMAIN h.index |->
                      IF \E k \in ToSet(s) : h.events[source[k]].id = i
                      THEN CHOOSE k \in ToSet(s) : h.events[source[k]].id = i
                      ELSE h.index[i]]
  BY DEF Shift
<1>5. \A j \in 1..m : after(j) \in 1..m /\ source[s[j]] = s[after(j)]
  <2> SUFFICES ASSUME NEW j \in 1..m PROVE after(j) \in 1..m /\ source[s[j]] = s[after(j)]
    OBVIOUS
  <2>1. CASE j = m
    BY <1>1, <1>3, <2>1
  <2>2. CASE j # m
    <3>1. j \in 1..(m - 1) /\ j + 1 \in 1..m /\ s[j] # s[m]
      BY <1>1, <1>2, <2>2
    <3>2. (CHOOSE i \in 1..(Len(s) - 1) : s[i] = s[j]) = j
      <4>1. \A i \in 1..(Len(s) - 1) : s[i] = s[j] => i = j
        BY <1>1, <1>2
      <4> QED BY <1>1, <3>1, <4>1
    <3> QED BY <1>1, <1>3, <3>1, <3>2
  <2> QED BY <2>1, <2>2
<1>6. \A k \in 1..n : (\A j \in 1..m : s[j] # k) => source[k] = k
  BY <1>1, <1>3
<1>7. \A i, j \in 1..m : after(i) = after(j) => i = j
  OBVIOUS
<1>8. \A j \in 1..m : \E i \in 1..m : after(i) = j
  <2> SUFFICES ASSUME NEW j \in 1..m PROVE \E i \in 1..m : after(i) = j
    OBVIOUS
  <2>1. CASE j = 1
    BY <1>1, <2>1
  <2>2. CASE j # 1
    <3>1. j - 1 \in 1..m /\ after(j - 1) = j
      BY <2>2
    <3> QED BY <3>1
  <2> QED BY <2>1, <2>2
<1> HIDE DEF source, after, g
<1>9. \A k \in 1..n : source[k] \in 1..n
  <2> SUFFICES ASSUME NEW k \in 1..n PROVE source[k] \in 1..n
    OBVIOUS
  <2>1. CASE \E j \in 1..m : s[j] = k
    BY <2>1, <1>3, <1>5
  <2> QED BY <2>1, <1>6
<1>10. ASSUME NEW k \in 1..n, NEW l \in 1..n, source[k] = source[l] PROVE k = l
  <2>1. CASE \E j \in 1..m : s[j] = k
    <3>1. PICK j \in 1..m : s[j] = k
      BY <2>1
    <3>2. source[k] = s[after(j)] /\ after(j) \in 1..m
      BY <3>1, <1>5
    <3>3. CASE \E i \in 1..m : s[i] = l
      <4>1. PICK i \in 1..m : s[i] = l
        BY <3>3
      <4>2. s[after(i)] = s[after(j)] /\ after(i) \in 1..m
        BY <1>5, <1>10, <3>2, <4>1
      <4> QED BY <1>2, <1>7, <3>1, <3>2, <4>1, <4>2
    <3> QED BY <1>6, <1>10, <3>2, <3>3
  <2>2. CASE ~\E j \in 1..m : s[j] = k
    <3>1. source[k] = k
      BY <2>2, <1>6
    <3>2. CASE \E i \in 1..m : s[i] = l
      BY <1>5, <1>10, <2>2, <3>1, <3>2, ZenonT(40)
    <3> QED BY <1>6, <1>10, <3>1, <3>2
  <2> QED BY <2>1, <2>2
<1>11. \A q \in 1..n : \E k \in 1..n : source[k] = q
  <2> SUFFICES ASSUME NEW q \in 1..n PROVE \E k \in 1..n : source[k] = q
    OBVIOUS
  <2>1. CASE \E j \in 1..m : s[j] = q
    <3>1. PICK j \in 1..m : s[j] = q
      BY <2>1
    <3>2. PICK i \in 1..m : after(i) = j
      BY <1>8
    <3> QED BY <1>3, <1>5, <3>1, <3>2
  <2> QED BY <2>1, <1>6
<1>12. /\ g.events \in Seq(HeapEvents) /\ Len(g.events) = n
       /\ \A k \in 1..n : g.events[k] = h.events[source[k]]
  BY <1>3, <1>4, <1>9
<1>13. \A j, k \in 1..n : g.events[j].id = g.events[k].id => j = k
  <2> SUFFICES ASSUME NEW j \in 1..n, NEW k \in 1..n, g.events[j].id = g.events[k].id
               PROVE  j = k
    OBVIOUS
  <2>1. source[j] \in 1..n /\ source[k] \in 1..n
    BY <1>9
  <2>2. h.events[source[j]].id = h.events[source[k]].id
    BY <1>12
  <2>3. \A a, b \in 1..n : h.events[a].id = h.events[b].id => a = b
    BY DEF Stored
  <2>4. source[j] = source[k]
    BY <2>1, <2>2, <2>3
  <2> QED BY <2>4, <1>10
<1>14. Held(g) = Held(h) /\ {g.events[k].id : k \in 1..n} = {h.events[k].id : k \in 1..n}
  <2>1. \A k \in 1..n : \E q \in 1..n : g.events[k] = h.events[q]
    BY <1>9, <1>12
  <2>2. \A q \in 1..n : \E k \in 1..n : g.events[k] = h.events[q]
    <3> SUFFICES ASSUME NEW q \in 1..n PROVE \E k \in 1..n : g.events[k] = h.events[q]
      OBVIOUS
    <3>1. PICK k \in 1..n : source[k] = q
      BY <1>11
    <3> QED BY <1>12, <3>1
  <2>3. Held(g) = {g.events[k] : k \in 1..n} /\ Held(h) = {h.events[k] : k \in 1..n}
    BY <1>12 DEF Held
  <2>4. {g.events[k] : k \in 1..n} = {h.events[k] : k \in 1..n}
    <3>1. ASSUME NEW k \in 1..n PROVE g.events[k] \in {h.events[q] : q \in 1..n}
      BY <2>1
    <3>2. ASSUME NEW q \in 1..n PROVE h.events[q] \in {g.events[k] : k \in 1..n}
      <4>1. PICK k \in 1..n : g.events[k] = h.events[q]
        BY <2>2
      <4> QED BY <4>1
    <3> QED BY <3>1, <3>2
  <2>5. {g.events[k].id : k \in 1..n} = {h.events[k].id : k \in 1..n}
    <3>1. ASSUME NEW k \in 1..n PROVE g.events[k].id \in {h.events[q].id : q \in 1..n}
      BY <2>1
    <3>2. ASSUME NEW q \in 1..n PROVE h.events[q].id \in {g.events[k].id : k \in 1..n}
      <4>1. PICK k \in 1..n : g.events[k] = h.events[q]
        BY <2>2
      <4> QED BY <4>1
    <3> QED BY <3>1, <3>2, ZenonT(40)
  <2> QED BY <2>3, <2>4, <2>5
<1>15. DOMAIN g.index = {g.events[k].id : k \in 1..n}
  BY <1>4, <1>14 DEF Stored
<1>16. ASSUME NEW k \in 1..n PROVE g.index[g.events[k].id] = k
  <2>1. PICK i : i = g.events[k].id /\ i = h.events[source[k]].id
    BY <1>12
  <2>2. i \in DOMAIN h.index
    BY <2>1, <1>9 DEF Stored
  <2>3. \A q \in 1..n : h.events[source[q]].id = i => q = k
    <3> SUFFICES ASSUME NEW q \in 1..n, h.events[source[q]].id = i PROVE q = k
      OBVIOUS
    <3>1. source[q] = source[k]
      BY <2>1, <1>9 DEF Stored
    <3> QED BY <3>1, <1>10
  <2>4. ToSet(s) \subseteq 1..n
    BY <1>3
  <2>5. CASE k \in ToSet(s)
    <3>1. g.index[i] = CHOOSE q \in ToSet(s) : h.events[source[q]].id = i
      BY <1>4, <2>1, <2>2, <2>5
    <3> QED BY <2>1, <2>3, <2>4, <2>5, <3>1
  <2>6. CASE k \notin ToSet(s)
    <3>1. ~\E q \in ToSet(s) : h.events[source[q]].id = i
      BY <2>3, <2>4, <2>6
    <3>2. g.index[i] = h.index[i] /\ source[k] = k
      BY <1>3, <1>4, <1>6, <2>2, <2>6, <3>1
    <3> QED BY <2>1, <3>2 DEF Stored
  <2> QED BY <2>5, <2>6
<1>17. Stored(g)
  BY <1>12, <1>13, <1>15, <1>16 DEF Stored
<1>18. Shifted(g, h, s)
  <2>1. ASSUME NEW j \in 1..m
        PROVE  g.events[s[j]] = h.events[IF j = m THEN s[1] ELSE s[j + 1]]
    BY <1>3, <1>5, <1>12 DEF after
  <2> QED BY <1>1, <1>6, <1>12, <2>1 DEF Shifted
<1> QED BY <1>14, <1>17, <1>18 DEF g

-----------------------------------------------------------------------------
(* The order of the heap.                                                  *)

\* No event comes before the one above it.
Ordered(h) == \A k \in 2..Len(h.events) : ~less(h.events[k], h.events[k \div 2])

\* less is a strict order in which of two events at most one comes first.
LEMMA LessOrders ==
  ASSUME NEW a \in HeapEvents, NEW b \in HeapEvents, NEW c \in HeapEvents
  PROVE  /\ ~less(a, b) /\ ~less(b, c) => ~less(a, c)
         /\ less(a, b) => ~less(b, a)
         /\ ~less(a, b) /\ ~less(b, a) => a.id = b.id
<1>1. \A e \in HeapEvents : e.id \in Nat /\ e.when \in Nat
  BY BoundsAssumption DEF HeapEvents, Times
<1> QED BY <1>1 DEF less

\* Positions above and below.
LEMMA Halves ==
  ASSUME NEW k \in Nat
  PROVE  /\ k > 1 => k \div 2 \in Nat /\ k \div 2 >= 1 /\ k \div 2 < k
         /\ k = 2 * (k \div 2) \/ k = 2 * (k \div 2) + 1
OBVIOUS

\* Ordered but for i, which may have to rise.
UpReady(h, i) ==
  /\ \A k \in 2..Len(h.events) : k # i => ~less(h.events[k], h.events[k \div 2])
  /\ i > 1 => \A k \in 2..Len(h.events) : k \div 2 = i => ~less(h.events[k], h.events[i \div 2])

\* The way up of the event at i.
upNext(h, i) ==
  [k \in 1..Len(h.events) |->
     IF k > 1 /\ less(h.events[i], h.events[k \div 2]) THEN k \div 2 ELSE 0]

\* What up does is one shift along the way up.
LEMMA UpShifts ==
  ASSUME NEW h, Stored(h), NEW n \in Nat, n = Len(h.events), NEW i \in 1..n
  PROVE  \E s : /\ Chain(s, n, upNext(h, i), [k \in 1..n |-> k]) /\ s[1] = i
                /\ up(h, i) = Shift(h, s)
<1> DEFINE p == upNext(h, i)
           r == [k \in 1..n |-> k]
           eq(f) == f = [k \in DOMAIN h.events |->
                           IF k > 1 /\ less(h.events[i], h.events[k \div 2])
                           THEN <<k>> \o f[k \div 2] ELSE <<k>>]
           path == CHOOSE f : eq(f)
<1>1. DOMAIN h.events = 1..n
  BY DEF Stored
<1>2. Falls(n, p, r)
  <2>1. ASSUME NEW k \in 1..n
        PROVE  /\ p[k] = IF k > 1 /\ less(h.events[i], h.events[k \div 2]) THEN k \div 2 ELSE 0
               /\ p[k] \in 0..n /\ (p[k] # 0 => p[k] < k)
    BY Halves DEF upNext
  <2>2. p \in [1..n -> 0..n]
    BY <2>1 DEF upNext
  <2>3. r \in [1..n -> 0..n]
    OBVIOUS
  <2>4. \A k \in 1..n : p[k] # 0 => p[k] \in 1..n
    BY <2>1
  <2> HIDE DEF p
  <2> QED BY <2>1, <2>2, <2>3, <2>4 DEF Falls
<1>3. \A f : eq(f) <=> PathsOf(f, n, p)
  <2>1. \A k \in 1..n : /\ p[k] # 0 <=> k > 1 /\ less(h.events[i], h.events[k \div 2])
                        /\ p[k] # 0 => p[k] = k \div 2
    BY Halves DEF upNext
  <2> HIDE DEF p
  <2>2. ASSUME NEW f
        PROVE  [k \in DOMAIN h.events |->
                  IF k > 1 /\ less(h.events[i], h.events[k \div 2])
                  THEN <<k>> \o f[k \div 2] ELSE <<k>>]
               = [k \in 1..n |-> IF p[k] # 0 THEN <<k>> \o f[p[k]] ELSE <<k>>]
    BY <1>1, <2>1
  <2> QED BY <2>2 DEF PathsOf
<1>4. \E f : eq(f)
  BY <1>2, <1>3, PathsExist
<1>5. eq(path)
  BY <1>4
<1>6. up(h, i) = Shift(h, path[i])
  BY DEF up
<1> HIDE DEF path, eq, p, r
<1>7. PathsOf(path, n, p)
  BY <1>3, <1>5
<1>8. Chain(path[i], n, p, r) /\ path[i][1] = i
  BY <1>2, <1>7, PathsAreChains
<1> QED BY <1>6, <1>8 DEF p, r

\* g is a heap of the same events, in order.
Reordered(g, h) ==
  Stored(g) /\ Held(g) = Held(h) /\ Len(g.events) = Len(h.events) /\ Ordered(g)

\* Rising restores the order.
LEMMA UpOrders ==
  ASSUME NEW h, Stored(h), NEW n \in Nat, n = Len(h.events), NEW i \in 1..n, UpReady(h, i)
  PROVE  Reordered(up(h, i), h)
<1> DEFINE p == upNext(h, i)
           r == [k \in 1..n |-> k]
           ev == h.events
<1>1. PICK s : Chain(s, n, p, r) /\ s[1] = i /\ up(h, i) = Shift(h, s)
  BY UpShifts
<1>2. Falls(n, p, r)
  <2>1. ASSUME NEW k \in 1..n
        PROVE  p[k] \in 0..n /\ (p[k] # 0 => p[k] \in 1..n /\ p[k] < k)
    BY Halves DEF upNext
  <2>2. p \in [1..n -> 0..n] /\ r \in [1..n -> 0..n]
    BY <2>1 DEF upNext
  <2> HIDE DEF p
  <2> QED BY <2>1, <2>2 DEF Falls
<1>3. PICK m \in Nat : m = Len(s) /\ m >= 1 /\ \A j \in 1..m : s[j] \in 1..n
  BY <1>1, SMTT(40) DEF Chain
<1>4. \A j \in 1..m :
        IF j = m THEN ~(s[j] > 1 /\ less(ev[i], ev[s[j] \div 2]))
        ELSE s[j] > 1 /\ less(ev[i], ev[s[j] \div 2]) /\ s[j + 1] = s[j] \div 2
  <2>1. \A k \in 1..n : /\ p[k] # 0 <=> k > 1 /\ less(ev[i], ev[k \div 2])
                        /\ p[k] # 0 => p[k] = k \div 2
    BY Halves DEF upNext
  <2> HIDE DEF p
  <2> QED BY <1>1, <1>3, <2>1 DEF Chain
<1>5. \A j, l \in 1..m : j < l => s[l] < s[j]
  BY <1>1, <1>3 DEF Chain
<1> HIDE DEF p, r
<1>6. PICK g : g = Shift(h, s)
  OBVIOUS
<1>7. Stored(g) /\ Held(g) = Held(h) /\ Shifted(g, h, s)
  BY <1>1, <1>2, <1>6, ShiftMoves
<1>8. /\ Len(g.events) = n
      /\ \A j \in 1..m : g.events[s[j]] = ev[IF j = m THEN i ELSE s[j + 1]]
      /\ \A k \in 1..n : (\A j \in 1..m : s[j] # k) => g.events[k] = ev[k]
  BY <1>1, <1>3, <1>7 DEF Shifted
<1>9. \A k \in 1..n : ev[k] \in HeapEvents
  BY DEF Stored
<1>10. ASSUME NEW k \in 2..n PROVE ~less(g.events[k], g.events[k \div 2])
  <2>1. PICK q \in 1..n : q = k \div 2 /\ q < k
    BY Halves
  <2>2. CASE \E j \in 1..m : s[j] = k
    <3>1. PICK j \in 1..m : s[j] = k
      BY <2>2
    <3>2. CASE j = m
      <4>1. g.events[k] = ev[i] /\ ~less(ev[i], ev[q])
        <5>1. ~(k > 1 /\ less(ev[i], ev[k \div 2]))
          BY <1>4, <3>1, <3>2
        <5>2. k > 1
          OBVIOUS
        <5>3. g.events[k] = ev[i]
          BY <1>8, <3>1, <3>2
        <5> QED BY <2>1, <5>1, <5>2, <5>3
      <4>2. \A l \in 1..m : s[l] # q
        BY <1>3, <1>5, <2>1, <3>1, <3>2
      <4> QED BY <1>8, <2>1, <4>1, <4>2
    <3>3. CASE j # m
      <4>1. j + 1 \in 1..m /\ s[j + 1] = q /\ g.events[k] = ev[q] /\ less(ev[i], ev[q])
        <5>1. j + 1 \in 1..m
          BY <3>3
        <5>2. s[j + 1] = k \div 2 /\ less(ev[i], ev[k \div 2])
          BY <1>4, <3>1, <3>3
        <5>3. g.events[s[j]] = ev[s[j + 1]]
          BY <1>8, <3>3
        <5> QED BY <2>1, <3>1, <5>1, <5>2, <5>3
      <4>2. CASE j + 1 = m
        <5>1. g.events[q] = ev[i]
          BY <1>8, <4>1, <4>2
        <5> QED BY <1>9, <2>1, <4>1, <5>1, LessOrders
      <4>3. CASE j + 1 # m
        <5>1. g.events[q] = ev[q \div 2] /\ q > 1
          BY <1>4, <1>8, <4>1, <4>3
        <5>2. q < i
          BY <1>1, <1>3, <1>5, <4>1
        <5>3. ~less(ev[q], ev[q \div 2])
          BY <5>1, <5>2, <2>1 DEF UpReady
        <5> QED BY <2>1, <4>1, <5>1, <5>3
      <4> QED BY <4>2, <4>3
    <3> QED BY <3>2, <3>3
  <2>3. CASE ~\E j \in 1..m : s[j] = k
    <3>1. g.events[k] = ev[k] /\ k # i
      BY <1>1, <1>3, <1>8, <2>3
    <3>2. ~less(ev[k], ev[q])
      BY <3>1, <2>1 DEF UpReady
    <3>3. CASE ~\E j \in 1..m : s[j] = q
      BY <1>8, <2>1, <3>1, <3>2, <3>3
    <3>4. ASSUME NEW j \in 1..m, s[j] = q PROVE ~less(g.events[k], g.events[q])
      <4>1. CASE j = m
        <5>1. g.events[q] = ev[i]
          BY <1>8, <3>4, <4>1
        <5>2. CASE q = i
          BY <3>1, <3>2, <5>1, <5>2
        <5>3. CASE q # i
          <6>1. j # 1 /\ j - 1 \in 1..m /\ j - 1 # m /\ (j - 1) + 1 = j
            BY <1>1, <1>3, <3>4, <4>1, <5>3
          <6>2. less(ev[i], ev[q])
            BY <1>4, <3>4, <6>1
          <6>3. ~less(ev[q], ev[i])
            BY <1>9, <6>2, LessOrders
          <6> QED BY <1>9, <3>1, <3>2, <5>1, <6>3, LessOrders
        <5> QED BY <5>2, <5>3
      <4>2. CASE j # m
        <5>1. g.events[q] = ev[q \div 2] /\ q > 1
          BY <1>4, <1>8, <3>4, <4>2
        <5>2. CASE q = i
          BY <2>1, <3>1, <5>1, <5>2 DEF UpReady
        <5>3. CASE q # i
          <6>1. ~less(ev[q], ev[q \div 2]) /\ q \div 2 \in 1..n
            BY <2>1, <5>1, <5>3, Halves DEF UpReady
          <6> QED BY <1>9, <2>1, <3>1, <3>2, <5>1, <6>1, LessOrders
        <5> QED BY <5>2, <5>3
      <4> QED BY <4>1, <4>2
    <3> QED BY <2>1, <3>3, <3>4
  <2> QED BY <2>2, <2>3
<1>11. Ordered(g)
  BY <1>8, <1>10 DEF Ordered
<1> QED BY <1>1, <1>6, <1>7, <1>8, <1>11 DEF Reordered

\* Ordered but for i, which may have to sink.
DownReady(h, i) ==
  /\ \A k \in 2..Len(h.events) :
        k # i /\ k \div 2 # i => ~less(h.events[k], h.events[k \div 2])
  /\ i > 1 => \A k \in 2..Len(h.events) : k \div 2 = i => ~less(h.events[k], h.events[i \div 2])

\* The smaller of the events below k.
smallestBelow(h, k) ==
  IF 2 * k + 1 <= Len(h.events) /\ less(h.events[2 * k + 1], h.events[2 * k])
  THEN 2 * k + 1 ELSE 2 * k

\* The way down of the event at i.
downNext(h, i) ==
  [k \in 1..Len(h.events) |->
     IF 2 * k <= Len(h.events) /\ less(h.events[smallestBelow(h, k)], h.events[i])
     THEN smallestBelow(h, k) ELSE 0]

\* What falls on a way down.
height(n) == [k \in 1..n |-> n - k]

\* A way down is one: the positions grow.
LEMMA DownFalls ==
  ASSUME NEW h, NEW n \in Nat, n = Len(h.events), NEW i \in 1..n
  PROVE  Falls(n, downNext(h, i), height(n))
<1> DEFINE p == downNext(h, i)
           r == height(n)
<1>1. ASSUME NEW k \in 1..n
      PROVE  p[k] \in 0..n /\ (p[k] # 0 => p[k] \in 1..n /\ p[k] > k)
  BY DEF downNext, smallestBelow
<1>2. p = [k \in 1..n |-> p[k]]
  BY DEF downNext
<1> HIDE DEF p
<1>3. p \in [1..n -> 0..n] /\ r \in [1..n -> 0..n]
  <2>1. \A k \in 1..n : p[k] \in 0..n
    BY <1>1
  <2>2. p \in [1..n -> 0..n]
    BY <1>2, <2>1
  <2>3. r \in [1..n -> 0..n]
    BY DEF height
  <2> QED BY <2>2, <2>3
<1>4. ASSUME NEW k \in 1..n, p[k] # 0 PROVE r[p[k]] < r[k]
  <2>1. r[p[k]] = n - p[k] /\ r[k] = n - k
    BY <1>1, <1>4 DEF height
  <2> QED BY <1>1, <1>4, <2>1
<1> HIDE DEF r
<1>5. Falls(n, p, r)
  BY <1>3, <1>4 DEF Falls
<1> QED BY <1>5 DEF p, r

\* The path that remove follows is the way down.
LEMMA DownPaths ==
  ASSUME NEW h, Stored(h), NEW n \in Nat, n = Len(h.events), NEW i \in 1..n
  PROVE  /\ Chain(DownPath(h, i), n, downNext(h, i), height(n))
         /\ DownPath(h, i)[1] = i
<1> DEFINE p == downNext(h, i)
           r == height(n)
           below(k) == IF 2 * k + 1 <= Len(h.events) /\ less(h.events[2 * k + 1], h.events[2 * k])
                       THEN 2 * k + 1 ELSE 2 * k
           eq(f) == f = [k \in 1..Len(h.events) |->
                           IF 2 * k <= Len(h.events) /\ less(h.events[below(k)], h.events[i])
                           THEN <<k>> \o f[below(k)] ELSE <<k>>]
           path == CHOOSE f : eq(f)
<1>1. Falls(n, p, r)
  BY DownFalls
<1>2. \A f : eq(f) <=> PathsOf(f, n, p)
  <2>1. \A k \in 1..n :
          /\ p[k] # 0 <=> 2 * k <= n /\ less(h.events[below(k)], h.events[i])
          /\ p[k] # 0 => p[k] = below(k)
    BY DEF downNext, smallestBelow
  <2> HIDE DEF p, below
  <2>2. ASSUME NEW f
        PROVE  [k \in 1..Len(h.events) |->
                  IF 2 * k <= Len(h.events) /\ less(h.events[below(k)], h.events[i])
                  THEN <<k>> \o f[below(k)] ELSE <<k>>]
               = [k \in 1..n |-> IF p[k] # 0 THEN <<k>> \o f[p[k]] ELSE <<k>>]
    BY <2>1
  <2> QED BY <2>2 DEF PathsOf
<1>3. \E f : eq(f)
  BY <1>1, <1>2, PathsExist
<1>4. eq(path)
  BY <1>3
<1>5. DownPath(h, i) = path[i]
  BY DEF DownPath
<1> HIDE DEF path, eq, p, r
<1>6. PathsOf(path, n, p)
  BY <1>2, <1>4
<1>7. Chain(path[i], n, p, r) /\ path[i][1] = i
  BY <1>1, <1>6, PathsAreChains
<1> QED BY <1>5, <1>7 DEF p, r

\* The m events from i to the end of the path s: each but the first is the least
\* of the events below the one before it, and comes before the event at i; no
\* event below the last one does.
SinksAlong(h, i, s, n, m) ==
  /\ \A j \in 1..m : s[j] \in 1..n
  /\ \A j, l \in 1..m : j < l => s[j] < s[l]
  /\ \A j \in 1..m :
       IF j = m
       THEN \A k \in 2..n : k \div 2 = s[j] => ~less(h.events[k], h.events[i])
       ELSE /\ s[j + 1] \in 2..n /\ s[j + 1] \div 2 = s[j]
            /\ less(h.events[s[j + 1]], h.events[i])
            /\ \A k \in 2..n : k \div 2 = s[j] => ~less(h.events[k], h.events[s[j + 1]])

\* What a path down means for the events on it.
LEMMA DownSteps ==
  ASSUME NEW h, Stored(h), NEW n \in Nat, n = Len(h.events), NEW i \in 1..n,
         NEW s, Chain(s, n, downNext(h, i), height(n)), NEW m \in Nat, m = Len(s)
  PROVE  SinksAlong(h, i, s, n, m)
<1> DEFINE p == downNext(h, i)
           r == height(n)
<1>1. m >= 1 /\ \A j \in 1..m : s[j] \in 1..n
  BY DEF Chain
<1>2. \A j, l \in 1..m : j < l => s[j] < s[l]
  <2> SUFFICES ASSUME NEW j \in 1..m, NEW l \in 1..m, j < l PROVE s[j] < s[l]
    OBVIOUS
  <2>1. r[s[l]] < r[s[j]] /\ s[l] \in 1..n /\ s[j] \in 1..n
    BY <1>1 DEF Chain
  <2> QED BY <2>1 DEF height
<1>3. \A k \in 1..n : h.events[k] \in HeapEvents
  BY DEF Stored
<1>4. ASSUME NEW k \in 1..n, p[k] = 0
      PROVE  \A c \in 2..n : c \div 2 = k => ~less(h.events[c], h.events[i])
  <2> SUFFICES ASSUME NEW c \in 2..n, c \div 2 = k PROVE ~less(h.events[c], h.events[i])
    OBVIOUS
  <2>1. c = 2 * k \/ c = 2 * k + 1
    BY Halves
  <2>2. PICK b \in 1..n : b = smallestBelow(h, k)
    BY <2>1, SMTT(40) DEF smallestBelow
  <2>3. ~less(h.events[b], h.events[i])
    BY <1>4, <2>1, <2>2 DEF downNext
  <2>4. ~less(h.events[c], h.events[b])
    <3>1. CASE c = b
      BY <1>3, <3>1, LessOrders
    <3>2. CASE c # b
      <4>1. 2 * k \in 1..n /\ (c = 2 * k + 1 => c <= n)
        BY <2>1
      <4>2. \/ c = 2 * k + 1 /\ b = 2 * k /\ ~less(h.events[c], h.events[b])
            \/ c = 2 * k /\ b = 2 * k + 1 /\ less(h.events[b], h.events[c])
        BY <2>1, <2>2, <3>2, <4>1 DEF smallestBelow
      <4> QED BY <1>3, <4>2, LessOrders
    <3> QED BY <3>1, <3>2
  <2>5. PICK x \in HeapEvents : x = h.events[c]
    BY <1>3
  <2>6. PICK y \in HeapEvents : y = h.events[b]
    BY <1>3
  <2>7. PICK z \in HeapEvents : z = h.events[i]
    BY <1>3
  <2>8. ~less(x, y) /\ ~less(y, z)
    BY <2>3, <2>4, <2>5, <2>6, <2>7
  <2>9. ~less(x, z)
    BY <2>8, LessOrders
  <2> QED BY <2>5, <2>7, <2>9
<1>5. ASSUME NEW k \in 1..n, p[k] # 0
      PROVE  /\ p[k] \in 2..n /\ p[k] \div 2 = k /\ less(h.events[p[k]], h.events[i])
             /\ \A c \in 2..n : c \div 2 = k => ~less(h.events[c], h.events[p[k]])
  <2>1. PICK b : b = smallestBelow(h, k)
    OBVIOUS
  <2>2. p[k] = b /\ 2 * k <= n /\ less(h.events[b], h.events[i])
    BY <1>5, <2>1 DEF downNext
  <2>3. b \in 2..n /\ (b = 2 * k \/ b = 2 * k + 1)
    BY <2>1, <2>2 DEF smallestBelow
  <2>4. b \div 2 = k
    BY <2>3
  <2>5. ASSUME NEW c \in 2..n, c \div 2 = k PROVE ~less(h.events[c], h.events[b])
    <3>1. c = 2 * k \/ c = 2 * k + 1
      BY <2>5, Halves
    <3>2. CASE c = b
      BY <1>3, <2>3, <3>2, LessOrders
    <3>3. CASE c # b
      <4>1. \/ c = 2 * k + 1 /\ b = 2 * k /\ ~less(h.events[c], h.events[b])
            \/ c = 2 * k /\ b = 2 * k + 1 /\ less(h.events[b], h.events[c])
        <5>1. c \in Nat /\ c <= n /\ 2 * k + 1 # 2 * k
          OBVIOUS
        <5>2. CASE b = 2 * k
          BY <2>1, <3>1, <3>3, <5>1, <5>2 DEF smallestBelow
        <5>3. CASE b # 2 * k
          BY <2>1, <2>3, <3>1, <3>3, <5>1, <5>3 DEF smallestBelow
        <5> QED BY <5>2, <5>3
      <4> QED BY <1>3, <2>3, <4>1, LessOrders
    <3> QED BY <3>2, <3>3
  <2> QED BY <2>2, <2>3, <2>4, <2>5
<1>6. \A j \in 1..m : IF j = m THEN p[s[j]] = 0 ELSE p[s[j]] # 0 /\ s[j + 1] = p[s[j]]
  BY DEF Chain
<1> HIDE DEF p
<1>7. ASSUME NEW j \in 1..m
      PROVE  IF j = m
             THEN \A k \in 2..n : k \div 2 = s[j] => ~less(h.events[k], h.events[i])
             ELSE /\ s[j + 1] \in 2..n /\ s[j + 1] \div 2 = s[j]
                  /\ less(h.events[s[j + 1]], h.events[i])
                  /\ \A k \in 2..n : k \div 2 = s[j] => ~less(h.events[k], h.events[s[j + 1]])
  <2>1. PICK k \in 1..n : k = s[j]
    BY <1>1
  <2>2. CASE j = m
    BY <1>4, <1>6, <2>1, <2>2
  <2>3. CASE j # m
    <3>1. p[k] # 0 /\ s[j + 1] = p[k]
      BY <1>6, <2>1, <2>3
    <3> QED BY <1>5, <2>1, <2>3, <3>1
  <2> QED BY <2>2, <2>3
<1> QED BY <1>1, <1>2, <1>7 DEF SinksAlong

\* Sinking restores the order, if the event sinks at all.
LEMMA DownOrders ==
  ASSUME NEW h, Stored(h), NEW n \in Nat, n = Len(h.events), NEW i \in 1..n, DownReady(h, i),
         Len(DownPath(h, i)) > 1
  PROVE  Reordered(Shift(h, DownPath(h, i)), h)
<1> DEFINE ev == h.events
<1>1. PICK s : s = DownPath(h, i)
  OBVIOUS
<1>2. Chain(s, n, downNext(h, i), height(n)) /\ s[1] = i
  BY <1>1, DownPaths
<1>3. PICK m \in Nat : m = Len(s) /\ m > 1
  BY <1>1, <1>2 DEF Chain
<1>4. /\ \A j \in 1..m : s[j] \in 1..n
      /\ \A j, l \in 1..m : j < l => s[j] < s[l]
      /\ \A j \in 1..m :
           IF j = m
           THEN \A k \in 2..n : k \div 2 = s[j] => ~less(ev[k], ev[i])
           ELSE /\ s[j + 1] \in 2..n /\ s[j + 1] \div 2 = s[j]
                /\ less(ev[s[j + 1]], ev[i])
                /\ \A k \in 2..n : k \div 2 = s[j] => ~less(ev[k], ev[s[j + 1]])
  <2>1. Chain(s, n, downNext(h, i), height(n))
    BY <1>2
  <2>2. m = Len(s)
    BY <1>3
  <2>3. SinksAlong(h, i, s, n, m)
    BY <2>1, <2>2, DownSteps
  <2> QED BY <2>3 DEF SinksAlong
<1>5. PICK g : g = Shift(h, s)
  OBVIOUS
<1>6. Stored(g) /\ Held(g) = Held(h) /\ Shifted(g, h, s)
  <2>1. Falls(n, downNext(h, i), height(n))
    BY DownFalls
  <2>2. Stored(Shift(h, s)) /\ Held(Shift(h, s)) = Held(h) /\ Shifted(Shift(h, s), h, s)
    BY <1>2, <2>1, ShiftMoves
  <2> QED BY <1>5, <2>2
<1>7. /\ Len(g.events) = n
      /\ \A j \in 1..m : g.events[s[j]] = ev[IF j = m THEN i ELSE s[j + 1]]
      /\ \A k \in 1..n : (\A j \in 1..m : s[j] # k) => g.events[k] = ev[k]
  BY <1>2, <1>3, <1>6 DEF Shifted
<1>8. \A k \in 1..n : ev[k] \in HeapEvents
  BY DEF Stored
<1>9. \A j \in 1..m : j # 1 => /\ j - 1 \in 1..m /\ j - 1 # m /\ (j - 1) + 1 = j
                               /\ s[j] \in 2..n /\ s[j] \div 2 = s[j - 1] /\ s[j] # i
                               /\ less(ev[s[j]], ev[i])
  <2> SUFFICES ASSUME NEW j \in 1..m, j # 1
               PROVE  /\ j - 1 \in 1..m /\ j - 1 # m /\ (j - 1) + 1 = j
                      /\ s[j] \in 2..n /\ s[j] \div 2 = s[j - 1] /\ s[j] # i
                      /\ less(ev[s[j]], ev[i])
    OBVIOUS
  <2>1. j - 1 \in 1..m /\ j - 1 # m /\ (j - 1) + 1 = j /\ 1 \in 1..m /\ 1 < j
    BY <1>3
  <2>2. s[1] < s[j] /\ s[1] \in 1..n /\ s[j] \in 1..n
    BY <1>4, <2>1
  <2>3. s[j] # i
    BY <1>2, <2>2
  <2>4. /\ s[(j - 1) + 1] \in 2..n /\ s[(j - 1) + 1] \div 2 = s[j - 1]
        /\ less(ev[s[(j - 1) + 1]], ev[i])
    BY <1>4, <2>1
  <2> QED BY <2>1, <2>3, <2>4
<1>10. ASSUME NEW k \in 2..n PROVE ~less(g.events[k], g.events[k \div 2])
  <2>1. PICK q \in 1..n : q = k \div 2 /\ q < k
    BY Halves
  <2>2. CASE \E j \in 1..m : s[j] = k
    <3>1. PICK j \in 1..m : s[j] = k
      BY <2>2
    <3>2. CASE j = 1
      <4>1. k = i /\ 1 \in 1..m /\ 1 # m
        BY <1>2, <1>3, <3>1, <3>2
      <4>2. PICK c \in 2..n : c = s[1 + 1] /\ c \div 2 = i
        BY <1>2, <1>4, <4>1
      <4>3. g.events[k] = ev[c]
        BY <1>7, <3>1, <3>2, <4>1, <4>2
      <4>4. \A l \in 1..m : s[l] # q
        <5> SUFFICES ASSUME NEW l \in 1..m, s[l] = q PROVE FALSE
          OBVIOUS
        <5>1. l # 1
          BY <2>1, <3>1, <3>2
        <5>2. 1 < l
          BY <5>1
        <5>3. s[1] < s[l]
          BY <1>4, <4>1, <5>2
        <5> QED BY <2>1, <3>1, <3>2, <5>3
      <4>5. g.events[q] = ev[q]
        BY <1>7, <4>4
      <4>6. ~less(ev[c], ev[i \div 2])
        BY <4>1, <4>2 DEF DownReady
      <4> QED BY <2>1, <4>1, <4>3, <4>5, <4>6
    <3>3. CASE j # 1
      <4>1. j - 1 \in 1..m /\ j - 1 # m /\ s[j - 1] = q /\ k # i /\ less(ev[k], ev[i])
        BY <1>9, <2>1, <3>1, <3>3
      <4>2. g.events[q] = ev[k]
        BY <1>7, <1>9, <3>1, <3>3, <4>1, SMTT(40)
      <4>3. CASE j = m
        <5>1. g.events[k] = ev[i]
          BY <1>7, <3>1, <4>3
        <5> QED BY <1>8, <2>1, <4>1, <4>2, <5>1, LessOrders
      <4>4. CASE j # m
        <5>1. PICK c \in 2..n : c = s[j + 1] /\ c \div 2 = k
          BY <1>4, <3>1, <4>4
        <5>2. g.events[k] = ev[c]
          BY <1>7, <3>1, <4>4, <5>1
        <5>3. j + 1 \in 1..m /\ j + 1 # 1
          BY <4>4
        <5>4. c # i
          BY <1>9, <5>1, <5>3
        <5>5. ~less(ev[c], ev[k])
          BY <4>1, <5>1, <5>4 DEF DownReady
        <5> QED BY <2>1, <4>2, <5>2, <5>5
      <4> QED BY <4>3, <4>4
    <3> QED BY <3>2, <3>3
  <2>3. CASE ~\E j \in 1..m : s[j] = k
    <3>1. g.events[k] = ev[k] /\ k # i
      <4>1. k \in 1..n /\ \A j \in 1..m : s[j] # k
        BY <2>3
      <4>2. 1 \in 1..m
        BY <1>3
      <4> QED BY <1>2, <1>7, <4>1, <4>2
    <3>2. CASE ~\E j \in 1..m : s[j] = q
      <4>1. q # i /\ g.events[q] = ev[q]
        <5>1. 1 \in 1..m
          BY <1>3
        <5>2. \A j \in 1..m : s[j] # q
          BY <3>2
        <5> QED BY <1>2, <1>7, <5>1, <5>2
      <4>2. ~less(ev[k], ev[q])
        BY <2>1, <3>1, <4>1 DEF DownReady
      <4> QED BY <2>1, <3>1, <4>1, <4>2
    <3>3. ASSUME NEW j \in 1..m, s[j] = q PROVE ~less(g.events[k], g.events[q])
      <4>1. CASE j = m
        BY <1>4, <1>7, <2>1, <3>1, <3>3, <4>1
      <4>2. CASE j # m
        <5>1. g.events[q] = ev[s[j + 1]]
          BY <1>7, <3>3, <4>2
        <5>2. ~less(ev[k], ev[s[j + 1]])
          BY <1>4, <2>1, <3>3, <4>2
        <5> QED BY <3>1, <5>1, <5>2
      <4> QED BY <4>1, <4>2
    <3> QED BY <2>1, <3>2, <3>3
  <2> QED BY <2>2, <2>3
<1>11. Ordered(g)
  BY <1>7, <1>10 DEF Ordered
<1> QED BY <1>1, <1>5, <1>6, <1>7, <1>11 DEF Reordered

\* A heap keeps its order as it takes an event in.
LEMMA PushStores ==
  ASSUME NEW h, Stored(h), Ordered(h), NEW e \in HeapEvents, e.id \notin DOMAIN h.index
  PROVE  /\ Stored(push(h, e)) /\ Ordered(push(h, e))
         /\ Held(push(h, e)) = Held(h) \cup {e}
<1> DEFINE ev == h.events
<1>1. PICK n \in Nat : n = Len(ev) /\ ev \in Seq(HeapEvents)
  BY DEF Stored
<1>2. PICK m \in Nat : m = n + 1 /\ m = Len(ev) + 1
  BY <1>1
<1>3. PICK g : g = [events |-> Append(ev, e),
                    index |-> [i \in DOMAIN h.index \cup {e.id} |->
                                 IF i = e.id THEN m ELSE h.index[i]]]
  OBVIOUS
<1>4. push(h, e) = up(g, m)
  BY <1>2, <1>3 DEF push
<1>5. /\ g.events \in Seq(HeapEvents) /\ Len(g.events) = m
      /\ \A k \in 1..m : g.events[k] = IF k = m THEN e ELSE ev[k]
  <2>1. g.events = Append(ev, e)
    BY <1>3
  <2> QED BY <1>1, <1>2, <2>1
<1>6. /\ \A j, k \in 1..n : ev[j].id = ev[k].id => j = k
      /\ DOMAIN h.index = {ev[k].id : k \in 1..n}
      /\ \A k \in 1..n : h.index[ev[k].id] = k
  BY <1>1 DEF Stored
<1>7. \A k \in 1..n : ev[k].id # e.id
  BY <1>6
<1>8. \A k \in 1..m : k # m => k \in 1..n
  BY <1>2
<1>9. \A j, k \in 1..m : g.events[j].id = g.events[k].id => j = k
  <2> SUFFICES ASSUME NEW j \in 1..m, NEW k \in 1..m, g.events[j].id = g.events[k].id PROVE j = k
    OBVIOUS
  <2> QED BY <1>5, <1>6, <1>7, <1>8
<1>10. DOMAIN g.index = {g.events[k].id : k \in 1..m}
  <2>1. DOMAIN g.index = {ev[k].id : k \in 1..n} \cup {e.id}
    BY <1>3, <1>6
  <2>2. ASSUME NEW k \in 1..m PROVE g.events[k].id \in DOMAIN g.index
    BY <1>5, <1>8, <2>1
  <2>3. ASSUME NEW i \in DOMAIN g.index PROVE i \in {g.events[k].id : k \in 1..m}
    <3>1. CASE i = e.id
      <4>1. m \in 1..m /\ g.events[m] = e
        BY <1>2, <1>5
      <4> QED BY <3>1, <4>1
    <3>2. CASE i # e.id
      <4>1. PICK k \in 1..n : i = ev[k].id
        BY <2>1, <3>2
      <4>2. k \in 1..m /\ k # m
        BY <1>2
      <4> QED BY <1>5, <4>1, <4>2
    <3> QED BY <3>1, <3>2
  <2> QED BY <2>2, <2>3
<1>11. \A k \in 1..m : g.index[g.events[k].id] = k
  <2> SUFFICES ASSUME NEW k \in 1..m PROVE g.index[g.events[k].id] = k
    OBVIOUS
  <2>1. g.index = [i \in DOMAIN h.index \cup {e.id} |-> IF i = e.id THEN m ELSE h.index[i]]
    BY <1>3
  <2>2. CASE k = m
    BY <1>5, <2>1, <2>2
  <2>3. CASE k # m
    <3>1. k \in 1..n /\ g.events[k] = ev[k]
      BY <1>5, <1>8, <2>3
    <3> QED BY <1>6, <1>7, <2>1, <3>1
  <2> QED BY <2>2, <2>3
<1>12. Stored(g)
  BY <1>5, <1>9, <1>10, <1>11 DEF Stored
<1>13. UpReady(g, m)
  <2>1. ASSUME NEW k \in 2..m, k # m PROVE ~less(g.events[k], g.events[k \div 2])
    <3>1. PICK q \in 1..n : q = k \div 2 /\ q # m
      BY <1>2, <2>1, Halves
    <3>2. k \in 2..n
      BY <1>2, <2>1
    <3>3. ~less(ev[k], ev[k \div 2])
      BY <1>1, <3>2 DEF Ordered
    <3>4. g.events[k] = ev[k] /\ g.events[q] = ev[q]
      BY <1>2, <1>5, <2>1, <3>1
    <3> QED BY <3>1, <3>3, <3>4
  <2>2. \A k \in 2..m : k \div 2 # m
    BY Halves
  <2> QED BY <1>5, <2>1, <2>2 DEF UpReady
<1>14. Reordered(up(g, m), g)
  <2>1. m \in 1..m
    BY <1>2
  <2> QED BY <1>5, <1>12, <1>13, <2>1, UpOrders
<1>15. Held(g) = Held(h) \cup {e}
  <2>1. Held(g) = {g.events[k] : k \in 1..m} /\ Held(h) = {ev[k] : k \in 1..n}
    BY <1>1, <1>5 DEF Held
  <2>2. ASSUME NEW k \in 1..m PROVE g.events[k] \in Held(h) \cup {e}
    BY <1>5, <1>8, <2>1
  <2>3. ASSUME NEW k \in 1..n PROVE ev[k] \in Held(g)
    <3>1. k \in 1..m /\ g.events[k] = ev[k]
      BY <1>2, <1>5
    <3> QED BY <2>1, <3>1
  <2>4. e \in Held(g)
    <3>1. m \in 1..m /\ g.events[m] = e
      BY <1>2, <1>5
    <3> QED BY <2>1, <3>1
  <2> QED BY <2>1, <2>2, <2>3, <2>4
<1> QED BY <1>4, <1>14, <1>15 DEF Reordered

\* In an ordered heap the event at the root comes before every other: the
\* least position that broke the rule would have a parent that broke it.
LEMMA RootIsLeast ==
  ASSUME NEW h, Stored(h), Ordered(h), NEW n \in Nat, n = Len(h.events), NEW k \in 2..n
  PROVE  less(h.events[1], h.events[k])
<1> DEFINE ev == h.events
           T == {j \in 2..n : less(ev[j], ev[1])}
<1>1. \A j \in 1..n : ev[j] \in HeapEvents
  BY DEF Stored
<1>2. T = {}
  <2> SUFFICES ASSUME T # {} PROVE FALSE
    OBVIOUS
  <2>1. T \subseteq Nat
    OBVIOUS
  <2> HIDE DEF T
  <2>2. PICK d \in T : \A y \in T : d <= y
    BY <2>1, LeastElement
  <2>3. d \in 2..n /\ less(ev[d], ev[1])
    BY <2>2 DEF T
  <2>4. PICK q \in 1..n : q = d \div 2 /\ q < d
    BY <2>3, Halves
  <2>5. ~less(ev[d], ev[q])
    BY <2>3, <2>4 DEF Ordered
  <2>6. ~less(ev[q], ev[1])
    <3>1. CASE q = 1
      BY <1>1, <2>4, <3>1, LessOrders
    <3>2. CASE q # 1
      <4>1. q \in 2..n /\ q \notin T
        BY <2>2, <2>3, <2>4, <3>2
      <4> QED BY <4>1 DEF T
    <3> QED BY <3>1, <3>2
  <2>7. PICK x \in HeapEvents : x = ev[d]
    BY <1>1, <2>3
  <2>8. PICK y \in HeapEvents : y = ev[q]
    BY <1>1, <2>4
  <2>9. PICK z \in HeapEvents : z = ev[1]
    BY <1>1, <2>4
  <2>10. ~less(x, y) /\ ~less(y, z)
    BY <2>5, <2>6, <2>7, <2>8, <2>9
  <2>11. ~less(x, z)
    BY <2>10, LessOrders
  <2> QED BY <2>3, <2>7, <2>9, <2>11
<1>3. ~less(ev[k], ev[1])
  BY <1>2
<1>4. 1 \in 1..n /\ k \in 1..n /\ k # 1
  OBVIOUS
<1>5. ev[1].id # ev[k].id
  BY <1>4 DEF Stored
<1>6. PICK x \in HeapEvents : x = ev[1]
  BY <1>1, <1>4
<1>7. PICK y \in HeapEvents : y = ev[k]
  BY <1>1, <1>4
<1>8. less(x, y)
  BY <1>3, <1>5, <1>6, <1>7, LessOrders
<1> QED BY <1>6, <1>7, <1>8

\* h without the event at k, the last one in its place.
cutAt(h, k) ==
  [events |-> SubSeq([h.events EXCEPT ![k] = h.events[Len(h.events)]], 1, Len(h.events) - 1),
   index |-> [i \in DOMAIN h.index \ {h.events[k].id} |->
                IF i = h.events[Len(h.events)].id THEN k ELSE h.index[i]]]

\* g is h, of m + 1 events, so cut.
IsCut(g, h, k, m) ==
  /\ Stored(g) /\ Len(g.events) = m
  /\ \A j \in 1..m : g.events[j] = h.events[IF j = k THEN m + 1 ELSE j]
  /\ Held(g) = Held(h) \ {h.events[k]}

\* Cutting keeps the other events, and their positions right.
LEMMA CutStores ==
  ASSUME NEW h, Stored(h), NEW m \in Nat, m + 1 = Len(h.events), NEW k \in 1..(m + 1),
         NEW g, g = cutAt(h, k)
  PROVE  IsCut(g, h, k, m)
<1> DEFINE ev == h.events
<1>1. PICK n \in Nat : n = m + 1 /\ n = Len(ev) /\ n - 1 = m
  OBVIOUS
<1>2. /\ ev \in Seq(HeapEvents) /\ \A j \in 1..n : ev[j] \in HeapEvents
      /\ \A i, j \in 1..n : ev[i].id = ev[j].id => i = j
      /\ DOMAIN h.index = {ev[j].id : j \in 1..n}
      /\ \A j \in 1..n : h.index[ev[j].id] = j
  BY <1>1 DEF Stored
<1>3. PICK s : s = [ev EXCEPT ![k] = ev[n]]
  OBVIOUS
<1>4. /\ s \in Seq(HeapEvents) /\ Len(s) = n
      /\ \A j \in 1..n : s[j] = IF j = k THEN ev[n] ELSE ev[j]
  BY <1>1, <1>2, <1>3
<1>5. g.events = SubSeq(s, 1, m) /\ m <= n
  BY <1>1, <1>3 DEF cutAt
<1>6. g.events \in Seq(HeapEvents) /\ Len(g.events) = m /\ \A j \in 1..m : g.events[j] = s[j]
  BY <1>1, <1>4, <1>5
<1>7. \A j \in 1..m : g.events[j] = ev[IF j = k THEN n ELSE j]
  BY <1>1, <1>4, <1>6
<1>8. k \in 1..n /\ n \in 1..n /\ \A j \in 1..m : j \in 1..n /\ j # n
  BY <1>1
<1>9. \A j \in 1..n : j # k => \E i \in 1..m : g.events[i] = ev[j]
  <2> SUFFICES ASSUME NEW j \in 1..n, j # k PROVE \E i \in 1..m : g.events[i] = ev[j]
    OBVIOUS
  <2>1. CASE j = n
    <3>1. k \in 1..m
      BY <1>1, <2>1
    <3> QED BY <1>7, <2>1, <3>1
  <2>2. CASE j # n
    <3>1. j \in 1..m
      BY <1>1, <2>2
    <3> QED BY <1>7, <3>1
  <2> QED BY <2>1, <2>2
<1>10. \A i \in 1..m : \E j \in 1..n : j # k /\ g.events[i] = ev[j]
  <2> SUFFICES ASSUME NEW i \in 1..m PROVE \E j \in 1..n : j # k /\ g.events[i] = ev[j]
    OBVIOUS
  <2>1. CASE i = k
    BY <1>7, <1>8, <2>1
  <2>2. CASE i # k
    BY <1>7, <1>8, <2>2
  <2> QED BY <2>1, <2>2
<1>11. \A i, j \in 1..m : g.events[i].id = g.events[j].id => i = j
  <2> SUFFICES ASSUME NEW i \in 1..m, NEW j \in 1..m, g.events[i].id = g.events[j].id PROVE i = j
    OBVIOUS
  <2> QED BY <1>2, <1>7, <1>8
<1>12. DOMAIN g.index = {g.events[j].id : j \in 1..m}
  <2>1. DOMAIN g.index = {ev[j].id : j \in 1..n} \ {ev[k].id}
    BY <1>2 DEF cutAt
  <2>2. ASSUME NEW i \in 1..m PROVE g.events[i].id \in DOMAIN g.index
    <3>1. PICK j \in 1..n : j # k /\ g.events[i] = ev[j]
      BY <1>10
    <3> QED BY <1>2, <1>8, <2>1, <3>1
  <2>3. ASSUME NEW d \in DOMAIN g.index PROVE d \in {g.events[j].id : j \in 1..m}
    <3>1. PICK j \in 1..n : d = ev[j].id /\ j # k
      BY <2>1
    <3>2. PICK i \in 1..m : g.events[i] = ev[j]
      BY <1>9, <3>1
    <3> QED BY <3>1, <3>2
  <2> QED BY <2>2, <2>3
<1>13. \A j \in 1..m : g.index[g.events[j].id] = j
  <2> SUFFICES ASSUME NEW j \in 1..m PROVE g.index[g.events[j].id] = j
    OBVIOUS
  <2>1. g.index = [i \in DOMAIN g.index |-> IF i = ev[n].id THEN k ELSE h.index[i]]
    BY <1>1 DEF cutAt
  <2>2. g.events[j].id \in DOMAIN g.index
    BY <1>12
  <2>3. CASE j = k
    BY <1>7, <2>1, <2>2, <2>3
  <2>4. CASE j # k
    <3>1. g.events[j] = ev[j] /\ ev[j].id # ev[n].id /\ h.index[ev[j].id] = j
      BY <1>2, <1>7, <1>8, <2>4
    <3> QED BY <2>1, <2>2, <3>1
  <2> QED BY <2>3, <2>4
<1>14. Stored(g)
  BY <1>6, <1>11, <1>12, <1>13 DEF Stored
<1>15. Held(g) = Held(h) \ {ev[k]}
  <2>1. Held(g) = {g.events[j] : j \in 1..m} /\ Held(h) = {ev[j] : j \in 1..n}
    BY <1>1, <1>6 DEF Held
  <2>2. ASSUME NEW i \in 1..m PROVE g.events[i] \in Held(h) \ {ev[k]}
    <3>1. PICK j \in 1..n : j # k /\ g.events[i] = ev[j]
      BY <1>10
    <3>2. ev[j].id # ev[k].id
      BY <1>2, <1>8, <3>1
    <3> QED BY <2>1, <3>1, <3>2
  <2>3. ASSUME NEW j \in 1..n, ev[j] # ev[k] PROVE ev[j] \in Held(g)
    <3>1. PICK i \in 1..m : g.events[i] = ev[j]
      BY <1>9, <2>3
    <3> QED BY <2>1, <3>1
  <2>4. \A e \in Held(g) : e \in Held(h) \ {ev[k]}
    BY <2>1, <2>2
  <2>5. \A e \in Held(h) \ {ev[k]} : e \in Held(g)
    BY <2>1, <2>3
  <2> QED BY <2>4, <2>5
<1> QED BY <1>1, <1>6, <1>7, <1>14, <1>15 DEF IsCut

\* A heap keeps its order as it gives any of its events up.
LEMMA RemoveStores ==
  ASSUME NEW h, Stored(h), Ordered(h), NEW k \in 1..Len(h.events), NEW id, id = h.events[k].id
  PROVE  /\ Stored(remove(h, k, id)) /\ Ordered(remove(h, k, id))
         /\ Held(remove(h, k, id)) = Held(h) \ {h.events[k]}
<1> DEFINE ev == h.events
<1>1. PICK n \in Nat : n = Len(ev)
  BY DEF Stored
<1>2. PICK m \in Nat : m + 1 = n /\ m = n - 1
  <2>1. n - 1 \in Nat /\ (n - 1) + 1 = n
    BY <1>1
  <2> QED BY <2>1
<1>3. PICK g : g = cutAt(h, k)
  OBVIOUS
<1>4. remove(h, k, id) =
        IF k = n THEN g
        ELSE IF Len(DownPath(g, k)) > 1 THEN Shift(g, DownPath(g, k)) ELSE up(g, k)
  BY <1>1, <1>3 DEF remove, cutAt
<1>5. m + 1 = Len(h.events) /\ k \in 1..(m + 1)
  BY <1>1, <1>2
<1>6. /\ Stored(g) /\ Len(g.events) = m
      /\ \A j \in 1..m : g.events[j] = ev[IF j = k THEN m + 1 ELSE j]
      /\ Held(g) = Held(h) \ {ev[k]}
  <2>1. m + 1 = Len(h.events)
    BY <1>5
  <2>2. k \in 1..(m + 1)
    BY <1>5
  <2>3. g = cutAt(h, k)
    BY <1>3
  <2>4. IsCut(g, h, k, m)
    BY <2>1, <2>2, <2>3, CutStores
  <2> QED BY <2>4 DEF IsCut
<1>7. \A j \in 2..n : ~less(ev[j], ev[j \div 2])
  BY <1>1 DEF Ordered
<1>8. \A j \in 1..n : ev[j] \in HeapEvents
  BY <1>1 DEF Stored
<1>9. CASE k = n
  <2>1. ASSUME NEW j \in 2..m PROVE ~less(g.events[j], g.events[j \div 2])
    <3>1. PICK q \in 1..m : q = j \div 2
      BY Halves
    <3>2. g.events[j] = ev[j] /\ g.events[q] = ev[q] /\ j \in 2..n
      BY <1>2, <1>6, <1>9
    <3> QED BY <1>7, <3>1, <3>2
  <2>2. Ordered(g)
    BY <1>6, <2>1 DEF Ordered
  <2> QED BY <1>4, <1>6, <1>9, <2>2
<1>10. CASE k # n
  <2>0. k \in 1..m
    BY <1>2, <1>5, <1>10
  <2>1. ASSUME NEW j \in 2..m, j # k, j \div 2 # k PROVE ~less(g.events[j], g.events[j \div 2])
    <3>1. PICK q \in 1..m : q = j \div 2
      BY Halves
    <3>2. g.events[j] = ev[j] /\ g.events[q] = ev[q] /\ j \in 2..n
      BY <1>2, <1>6, <2>1, <3>1, SMTT(40)
    <3> QED BY <1>7, <3>1, <3>2
  <2>2. ASSUME k > 1, NEW j \in 2..m, j \div 2 = k PROVE ~less(g.events[j], g.events[k \div 2])
    <3>1. PICK q \in 1..m : q = k \div 2 /\ q < k
      BY <2>0, <2>2, Halves
    <3>2. j # k /\ j \in 2..n /\ k \in 2..n
      BY <1>2, <2>0, <2>2, Halves
    <3>3. g.events[j] = ev[j] /\ g.events[q] = ev[q]
      BY <1>6, <3>1, <3>2
    <3>4. ~less(ev[j], ev[k]) /\ ~less(ev[k], ev[q])
      BY <1>7, <2>2, <3>1, <3>2
    <3>5. PICK x \in HeapEvents : x = ev[j]
      BY <1>8, <3>2
    <3>6. PICK y \in HeapEvents : y = ev[k]
      BY <1>8, <3>2
    <3>7. PICK z \in HeapEvents : z = ev[q]
      BY <1>2, <1>8, <3>1
    <3>8. ~less(x, y) /\ ~less(y, z)
      BY <3>4, <3>5, <3>6, <3>7
    <3>9. ~less(x, z)
      BY <3>8, LessOrders
    <3> QED BY <3>1, <3>3, <3>5, <3>7, <3>9
  <2>3. DownReady(g, k)
    BY <1>6, <2>1, <2>2 DEF DownReady
  <2>4. PICK s : s = DownPath(g, k)
    OBVIOUS
  <2>5. Chain(DownPath(g, k), m, downNext(g, k), height(m)) /\ DownPath(g, k)[1] = k
    BY <1>6, <2>0, DownPaths
  <2>6. PICK l \in Nat : l = Len(s) /\ l >= 1
    BY <2>4, <2>5 DEF Chain
  <2>7. CASE l > 1
    <3>1. Reordered(Shift(g, DownPath(g, k)), g)
      BY <1>6, <2>0, <2>3, <2>4, <2>6, <2>7, DownOrders
    <3> QED BY <1>4, <1>6, <1>10, <2>4, <2>6, <2>7, <3>1 DEF Reordered
  <2>8. CASE l = 1
    <3>1. Chain(s, m, downNext(g, k), height(m))
      BY <2>4, <2>5
    <3>2. SinksAlong(g, k, s, m, l)
      BY <1>6, <2>0, <2>6, <3>1, DownSteps
    <3>3. \A j \in 2..m : j \div 2 = k => ~less(g.events[j], g.events[k])
      BY <2>4, <2>5, <2>8, <3>2 DEF SinksAlong
    <3>4. UpReady(g, k)
      BY <1>6, <2>1, <2>2, <3>3 DEF UpReady
    <3>5. Reordered(up(g, k), g)
      BY <1>6, <2>0, <3>4, UpOrders
    <3> QED BY <1>4, <1>6, <1>10, <2>4, <2>6, <2>8, <3>5 DEF Reordered
  <2> QED BY <2>6, <2>7, <2>8
<1> QED BY <1>9, <1>10

-----------------------------------------------------------------------------
(* The simulator.                                                          *)

\* The heap is one, the clock is not past an event, nor past the end of the
\* RunUntil in progress, and no identifier above those issued is in use.
SimOK ==
  /\ Stored(heap) /\ Ordered(heap)
  /\ now \in Times /\ until \in Times \cup {NoTime}
  /\ until # NoTime => now <= until
  /\ nextID \in 1..MaxID /\ exhausted \in BOOLEAN
  /\ exhausted => nextID = MaxID
  /\ \A e \in Held(heap) : e.when >= now /\ (exhausted \/ e.id < nextID)

\* What is held, by position and by identifier.
LEMMA HeldEvents ==
  ASSUME NEW h, Stored(h)
  PROVE  /\ Held(h) \subseteq HeapEvents
         /\ \A k \in DOMAIN h.events : h.events[k] \in Held(h)
         /\ \A a, b \in Held(h) : a.id = b.id => a = b
         /\ DOMAIN h.index = {e.id : e \in Held(h)}
         /\ \A i \in DOMAIN h.index : /\ h.index[i] \in 1..Len(h.events)
                                      /\ h.events[h.index[i]].id = i
<1>1. PICK n \in Nat : n = Len(h.events) /\ DOMAIN h.events = 1..n
  BY DEF Stored
<1>2. Held(h) = {h.events[k] : k \in 1..n} /\ \A k \in 1..n : h.events[k] \in HeapEvents
  BY <1>1 DEF Stored, Held
<1>3. \A j, k \in 1..n : h.events[j].id = h.events[k].id => j = k
  BY <1>1 DEF Stored
<1>4. DOMAIN h.index = {h.events[k].id : k \in 1..n}
  BY <1>1 DEF Stored
<1>5. \A k \in 1..n : h.index[h.events[k].id] = k
  BY <1>1 DEF Stored
<1>6. \A a, b \in Held(h) : a.id = b.id => a = b
  BY <1>2, <1>3
<1>7. DOMAIN h.index = {e.id : e \in Held(h)}
  <2>1. ASSUME NEW i \in DOMAIN h.index PROVE i \in {e.id : e \in Held(h)}
    BY <1>2, <1>4
  <2>2. ASSUME NEW e \in Held(h) PROVE e.id \in DOMAIN h.index
    BY <1>2, <1>4
  <2> QED BY <2>1, <2>2
<1>8. \A i \in DOMAIN h.index : h.index[i] \in 1..n /\ h.events[h.index[i]].id = i
  BY <1>4, <1>5
<1> QED BY <1>1, <1>2, <1>6, <1>7, <1>8

\* A new event gets an identifier that no pending event has.
LEMMA ScheduleAdds ==
  ASSUME SimOK, NEW when \in Times, NEW tag \in Tags, scheduleAt(when, tag),
         NEW e, e = [id |-> nextID, when |-> when, tag |-> tag]
  PROVE  /\ SimOK' /\ e \in HeapEvents /\ ~exhausted
         /\ \A f \in Held(heap) : f.id # e.id
         /\ Held(heap') = Held(heap) \cup {e}
<1>1. /\ when >= now /\ ~exhausted
      /\ exhausted' = (nextID = MaxID)
      /\ nextID' = IF nextID = MaxID THEN nextID ELSE nextID + 1
      /\ heap' = push(heap, e) /\ now' = now /\ until' = until
  BY DEF scheduleAt, Accepts
<1>2. nextID \in 1..MaxID /\ MaxID \in Nat
  BY BoundsAssumption DEF SimOK
<1>3. e \in HeapEvents
  BY <1>2 DEF HeapEvents
<1>4. \A f \in Held(heap) : f \in HeapEvents /\ f.id < nextID /\ f.when >= now
  BY <1>1, HeldEvents DEF SimOK
<1>5. \A f \in Held(heap) : f.id \in Nat /\ f.id # e.id
  BY <1>2, <1>4 DEF HeapEvents
<1>6. e.id \notin DOMAIN heap.index
  BY <1>5, HeldEvents DEF SimOK
<1>7. /\ Stored(push(heap, e)) /\ Ordered(push(heap, e))
      /\ Held(push(heap, e)) = Held(heap) \cup {e}
  BY <1>3, <1>6, PushStores DEF SimOK
<1>8. \A f \in Held(heap') : f.when >= now' /\ (exhausted' \/ f.id < nextID')
  <2> SUFFICES ASSUME NEW f \in Held(heap') PROVE f.when >= now' /\ (exhausted' \/ f.id < nextID')
    OBVIOUS
  <2>1. f \in Held(heap) \/ f = e
    BY <1>1, <1>7
  <2>2. f.when >= now /\ (f.id < nextID \/ f.id = nextID) /\ f.id \in Nat
    <3>1. CASE f = e
      BY <1>1, <1>2, <3>1
    <3>2. CASE f # e
      BY <1>4, <1>5, <2>1, <3>2
    <3> QED BY <3>1, <3>2
  <2>3. CASE nextID = MaxID
    BY <1>1, <2>2, <2>3
  <2>4. CASE nextID # MaxID
    <3>1. f.id < nextID + 1
      BY <1>2, <2>2
    <3> QED BY <1>1, <2>2, <2>4, <3>1
  <2> QED BY <2>3, <2>4
<1>9. SimOK'
  <2>1. nextID' \in 1..MaxID /\ exhausted' \in BOOLEAN /\ (exhausted' => nextID' = MaxID)
    <3>1. exhausted' \in BOOLEAN
      BY <1>1
    <3>2. CASE nextID = MaxID
      BY <1>1, <1>2, <3>1, <3>2
    <3>3. CASE nextID # MaxID
      <4>1. nextID + 1 \in 1..MaxID
        BY <1>2, <3>3
      <4> QED BY <1>1, <3>1, <3>3, <4>1
    <3> QED BY <3>2, <3>3
  <2>2. /\ now' \in Times /\ until' \in Times \cup {NoTime}
        /\ until' # NoTime => now' <= until'
    BY <1>1 DEF SimOK
  <2>3. Stored(heap') /\ Ordered(heap')
    BY <1>1, <1>7
  <2> QED BY <1>8, <2>1, <2>2, <2>3 DEF SimOK
<1> QED BY <1>1, <1>3, <1>5, <1>7, <1>9

\* Cancelling takes away the event with that identifier and no other.
LEMMA CancelRemoves ==
  ASSUME SimOK, NEW id, Cancel(id), NEW e, e = heap.events[heap.index[id]]
  PROVE  /\ SimOK' /\ e \in Held(heap) /\ e.id = id
         /\ Held(heap') = Held(heap) \ {e}
<1>1. PICK k \in 1..Len(heap.events) : k = heap.index[id] /\ heap.events[k].id = id
  BY HeldEvents DEF SimOK, Cancel
<1>2. /\ heap' = remove(heap, k, id) /\ UNCHANGED <<now, nextID, exhausted, until>>
  BY <1>1 DEF Cancel
<1>3. /\ Stored(remove(heap, k, id)) /\ Ordered(remove(heap, k, id))
      /\ Held(remove(heap, k, id)) = Held(heap) \ {heap.events[k]}
  BY <1>1, RemoveStores DEF SimOK
<1>4. e \in Held(heap) /\ e.id = id
  BY <1>1 DEF Held
<1>5. Held(heap') = Held(heap) \ {e}
  BY <1>1, <1>2, <1>3
<1>6. SimOK'
  BY <1>2, <1>3, <1>5 DEF SimOK
<1> QED BY <1>4, <1>5, <1>6

\* The event that runs comes before all the others.
LEMMA PopExecutes ==
  ASSUME SimOK, StepReady, pop, UNCHANGED until, NEW e, e = NextEvent
  PROVE  /\ SimOK' /\ e \in Held(heap) /\ now' = e.when
         /\ \A f \in Held(heap) : f # e => less(e, f)
         /\ Held(heap') = Held(heap) \ {e}
<1>1. PICK n \in Nat : n = Len(heap.events) /\ n >= 1
  <2>1. heap.events \in Seq(HeapEvents) /\ heap.events # <<>>
    BY DEF SimOK, Stored, pop
  <2> QED BY <2>1
<1>2. e = heap.events[1] /\ 1 \in 1..n
  BY <1>1 DEF NextEvent
<1>3. heap' = remove(heap, 1, e.id) /\ now' = e.when /\ UNCHANGED <<nextID, exhausted>>
  BY DEF pop
<1>4. /\ Stored(remove(heap, 1, e.id)) /\ Ordered(remove(heap, 1, e.id))
      /\ Held(remove(heap, 1, e.id)) = Held(heap) \ {heap.events[1]}
  BY <1>1, <1>2, RemoveStores DEF SimOK
<1>5. e \in Held(heap) /\ e \in HeapEvents /\ e.when >= now
  BY <1>1, <1>2, HeldEvents DEF SimOK, Held
<1>6. ASSUME NEW f \in Held(heap), f # e PROVE less(e, f)
  <2>1. PICK k \in 1..n : f = heap.events[k]
    BY <1>1 DEF Held
  <2>2. k \in 2..n
    BY <1>2, <1>6, <2>1
  <2> QED BY <1>1, <1>2, <2>1, <2>2, RootIsLeast DEF SimOK
<1>7. Held(heap') = Held(heap) \ {e}
  BY <1>2, <1>3, <1>4
<1>8. e.when \in Times /\ (until # NoTime => e.when <= until)
  BY <1>2, <1>5 DEF HeapEvents, StepReady, DueWithin, NextEvent
<1>9. \A f \in Held(heap') : f.when >= now' /\ (exhausted' \/ f.id < nextID')
  <2> SUFFICES ASSUME NEW f \in Held(heap') PROVE f.when >= now' /\ (exhausted' \/ f.id < nextID')
    OBVIOUS
  <2>1. f \in Held(heap) /\ less(e, f)
    BY <1>6, <1>7
  <2>2. f.when \in Nat /\ e.when \in Nat
    BY <1>5, <2>1, HeldEvents, BoundsAssumption DEF SimOK, HeapEvents, Times
  <2> QED BY <1>3, <2>1, <2>2 DEF SimOK, less
<1>10. SimOK'
  BY <1>3, <1>4, <1>8, <1>9 DEF SimOK
<1> QED BY <1>3, <1>5, <1>6, <1>7, <1>10

-----------------------------------------------------------------------------
(* The router.                                                             *)

\* What the observer was told of the packet that e will deliver.
Announced(e) ==
  /\ e.tag.id \in DOMAIN observed
  /\ observed[e.tag.id].kind = "scheduled"
  /\ observed[e.tag.id].deliveryAt = e.when
  /\ observed[e.tag.id].route = e.tag.route

\* Each packet in flight has one event, and each delivery event its packet.
NetOK ==
  /\ handlers \subseteq Nodes /\ DOMAIN links \subseteq Routes
  /\ nextPacket \in PacketIDs /\ spent \in BOOLEAN
  /\ spent => nextPacket = MaxPacket
  /\ DOMAIN observed \subseteq Allocated
  /\ \A e \in Held(heap) : e.tag # Timer => Announced(e)
  /\ \A a, b \in Held(heap) :
       a.tag # Timer /\ b.tag # Timer /\ a.tag.id = b.tag.id => a = b
  /\ \A p \in DOMAIN observed :
       observed[p].kind = "scheduled" => \E e \in Held(heap) : e.tag # Timer /\ e.tag.id = p
  /\ \A p \in DOMAIN observed :
       observed[p].kind = "delivered" \/ observed[p].wasInFlight
         => observed[p].at = observed[p].deliveryAt

\* The router does not depend on the timers.
LEMMA TimersKeepNet ==
  ASSUME NetOK, UNCHANGED netVars,
         \A e : e.tag # Timer => (e \in Held(heap) <=> e \in Held(heap'))
  PROVE  NetOK'
<1>1. /\ handlers' = handlers /\ links' = links /\ nextPacket' = nextPacket
      /\ spent' = spent /\ observed' = observed
  BY DEF netVars
<1>2. Allocated' = Allocated
  BY <1>1 DEF Allocated
<1>3. \A e \in Held(heap') : e.tag # Timer => Announced(e)'
  BY <1>1 DEF NetOK, Announced
<1>4. \A a, b \in Held(heap') :
        a.tag # Timer /\ b.tag # Timer /\ a.tag.id = b.tag.id => a = b
  BY DEF NetOK
<1>5. \A p \in DOMAIN observed' :
        observed'[p].kind = "scheduled" => \E e \in Held(heap') : e.tag # Timer /\ e.tag.id = p
  BY <1>1 DEF NetOK
<1> QED BY <1>1, <1>2, <1>3, <1>4, <1>5 DEF NetOK

\* Identifiers are not reused.
LEMMA AllocationAdvances ==
  ASSUME NetOK, AllocatePacket, ~spent
  PROVE  /\ nextPacket' \in PacketIDs /\ spent' \in BOOLEAN
         /\ spent' => nextPacket' = MaxPacket
         /\ Allocated' = Allocated \cup {nextPacket}
         /\ nextPacket \notin Allocated
<1>1. /\ MaxPacket \in Nat /\ nextPacket \in 1..MaxPacket
      /\ spent' = (nextPacket = MaxPacket)
      /\ nextPacket' = IF nextPacket = MaxPacket THEN nextPacket ELSE nextPacket + 1
  BY PacketAssumption DEF NetOK, AllocatePacket, PacketIDs
<1>2. spent' \in BOOLEAN
  BY <1>1
<1>3. CASE nextPacket = MaxPacket
  <2>1. spent' /\ nextPacket' = MaxPacket
    BY <1>1, <1>3
  <2>2. Allocated' = 1..MaxPacket
    BY <2>1 DEF Allocated, PacketIDs
  <2>3. Allocated = {p \in 1..MaxPacket : p < MaxPacket}
    BY <1>3 DEF Allocated, PacketIDs
  <2> QED BY <1>1, <1>2, <1>3, <2>1, <2>2, <2>3 DEF PacketIDs
<1>4. CASE nextPacket # MaxPacket
  <2>1. ~spent' /\ nextPacket' = nextPacket + 1 /\ nextPacket' \in 1..MaxPacket
    <3>1. spent' = FALSE
      BY <1>1, <1>4
    <3>2. nextPacket' = nextPacket + 1
      BY <1>1, <1>4
    <3>3. nextPacket + 1 \in 1..MaxPacket
      BY <1>1, <1>4
    <3> QED BY <3>1, <3>2, <3>3
  <2>2. Allocated' = {p \in 1..MaxPacket : p < nextPacket + 1}
    BY <2>1 DEF Allocated, PacketIDs
  <2>3. Allocated = {p \in 1..MaxPacket : p < nextPacket}
    BY DEF Allocated, PacketIDs
  <2> QED BY <1>1, <1>2, <2>1, <2>2, <2>3 DEF PacketIDs
<1> QED BY <1>3, <1>4

\* A packet that is dropped before it leaves has no event.
LEMMA DropsKeepNet ==
  ASSUME NetOK, AllocatePacket, ~spent, UNCHANGED simVars, NEW from, NEW to, NEW reason,
         drop(Packet(from, to), reason, 0, FALSE), UNCHANGED <<handlers, partition, links>>
  PROVE  NetOK'
<1>1. Packet(from, to).id = nextPacket
  BY DEF Packet
<1>2. PICK o : o.kind = "dropped" /\ o.wasInFlight = FALSE
               /\ observed' = [q \in DOMAIN observed \cup {nextPacket} |->
                                 IF q = nextPacket THEN o ELSE observed[q]]
  BY <1>1 DEF drop, observe, Event
<1>3. heap' = heap
  BY DEF simVars
<1>4. /\ nextPacket' \in PacketIDs /\ spent' \in BOOLEAN
      /\ spent' => nextPacket' = MaxPacket
      /\ Allocated' = Allocated \cup {nextPacket} /\ nextPacket \notin Allocated
  BY AllocationAdvances
<1>5. /\ DOMAIN observed' = DOMAIN observed \cup {nextPacket} /\ nextPacket \notin DOMAIN observed
      /\ observed'[nextPacket] = o /\ \A q \in DOMAIN observed : observed'[q] = observed[q]
  BY <1>2, <1>4 DEF NetOK
<1>6. \A e \in Held(heap') : e.tag # Timer => Announced(e)'
  BY <1>3, <1>5 DEF NetOK, Announced
<1>7. \A p \in DOMAIN observed' :
        observed'[p].kind = "scheduled" => \E e \in Held(heap') : e.tag # Timer /\ e.tag.id = p
  BY <1>2, <1>3, <1>5 DEF NetOK
<1>8. \A p \in DOMAIN observed' :
        observed'[p].kind = "delivered" \/ observed'[p].wasInFlight
          => observed'[p].at = observed'[p].deliveryAt
  BY <1>2, <1>5 DEF NetOK
<1>9. \A a, b \in Held(heap') :
        a.tag # Timer /\ b.tag # Timer /\ a.tag.id = b.tag.id => a = b
  BY <1>3 DEF NetOK
<1>10. /\ handlers' \subseteq Nodes /\ DOMAIN links' \subseteq Routes
       /\ DOMAIN observed' \subseteq Allocated'
  BY <1>4, <1>5 DEF NetOK
<1> QED BY <1>4, <1>6, <1>7, <1>8, <1>9, <1>10 DEF NetOK

\* A packet that leaves gets an event of its own.
LEMMA SchedulesKeepNet ==
  ASSUME SimOK, NetOK, NEW from \in Nodes, NEW to \in Nodes, NEW latency \in Times,
         SendScheduled(from, to, DefaultLink, latency)
  PROVE  SimOK' /\ NetOK'
<1> DEFINE t == Packet(from, to)
           when == Plus(now, latency)
<1>1. /\ ~spent /\ AllocatePacket /\ AcceptsDelay(latency) /\ scheduleAt(when, t)
      /\ observe(t, "scheduled", "none", when, FALSE)
      /\ UNCHANGED <<handlers, partition, links>>
  BY DEF SendScheduled, CanSend, Schedule
<1>2. t.id = nextPacket /\ t.route = Route(from, to) /\ t # Timer /\ t \in Tags
  <2>1. Route(from, to) \in Routes
    BY DEF Route, Routes
  <2> QED BY <2>1 DEF Packet, Timer, Tags, NetOK
<1>3. when \in Times
  <2>1. MaxTime \in Nat /\ now \in 0..MaxTime /\ latency \in 0..MaxTime
    BY BoundsAssumption DEF SimOK, Times
  <2>2. now + latency <= MaxTime
    BY <1>1, <2>1 DEF AcceptsDelay
  <2> QED BY <2>1, <2>2 DEF Plus, Times
<1> HIDE DEF t, when
<1>4. PICK e : e = [id |-> nextID, when |-> when, tag |-> t]
  OBVIOUS
<1>5. /\ SimOK' /\ Held(heap') = Held(heap) \cup {e}
  BY <1>1, <1>2, <1>3, <1>4, ScheduleAdds
<1>6. e.tag = t /\ e.when = when
  BY <1>4
<1>7. PICK o : /\ o.kind = "scheduled" /\ o.wasInFlight = FALSE
               /\ o.deliveryAt = when /\ o.route = t.route
               /\ observed' = [q \in DOMAIN observed \cup {nextPacket} |->
                                 IF q = nextPacket THEN o ELSE observed[q]]
  BY <1>1, <1>2 DEF observe, Event
<1>8. /\ nextPacket' \in PacketIDs /\ spent' \in BOOLEAN
      /\ spent' => nextPacket' = MaxPacket
      /\ Allocated' = Allocated \cup {nextPacket} /\ nextPacket \notin Allocated
  BY <1>1, AllocationAdvances
<1>9. /\ DOMAIN observed' = DOMAIN observed \cup {nextPacket} /\ nextPacket \notin DOMAIN observed
      /\ observed'[nextPacket] = o /\ \A q \in DOMAIN observed : observed'[q] = observed[q]
  BY <1>7, <1>8 DEF NetOK
<1>10. \A f \in Held(heap) : f.tag # Timer => Announced(f) /\ f.tag.id # nextPacket
  BY <1>9 DEF NetOK, Announced
<1>11. ASSUME NEW f \in Held(heap'), f.tag # Timer PROVE Announced(f)'
  <2>1. CASE f = e
    BY <1>2, <1>6, <1>7, <1>9, <2>1 DEF Announced
  <2>2. CASE f # e
    <3>1. Announced(f) /\ f.tag.id \in DOMAIN observed
      BY <1>5, <1>10, <1>11, <2>2 DEF Announced
    <3>2. observed'[f.tag.id] = observed[f.tag.id] /\ f.tag.id \in DOMAIN observed'
      BY <1>9, <3>1
    <3> QED BY <3>1, <3>2 DEF Announced
  <2> QED BY <2>1, <2>2
<1>12. ASSUME NEW a \in Held(heap'), NEW b \in Held(heap'),
              a.tag # Timer, b.tag # Timer, a.tag.id = b.tag.id
       PROVE  a = b
  <2>1. \A f \in Held(heap') : f \in Held(heap) \/ f = e
    BY <1>5
  <2>2. CASE a \in Held(heap) /\ b \in Held(heap)
    BY <1>12, <2>2 DEF NetOK
  <2>3. CASE ~(a \in Held(heap) /\ b \in Held(heap))
    BY <1>2, <1>6, <1>10, <1>12, <2>1, <2>3
  <2> QED BY <2>2, <2>3
<1>13. ASSUME NEW p \in DOMAIN observed', observed'[p].kind = "scheduled"
       PROVE  \E f \in Held(heap') : f.tag # Timer /\ f.tag.id = p
  <2>1. CASE p = nextPacket
    BY <1>2, <1>5, <1>6, <2>1
  <2>2. CASE p # nextPacket
    <3>1. p \in DOMAIN observed /\ observed[p].kind = "scheduled"
      BY <1>9, <1>13, <2>2
    <3>2. PICK f \in Held(heap) : f.tag # Timer /\ f.tag.id = p
      BY <3>1 DEF NetOK
    <3> QED BY <1>5, <3>2
  <2> QED BY <2>1, <2>2
<1>14. \A p \in DOMAIN observed' :
         observed'[p].kind = "delivered" \/ observed'[p].wasInFlight
           => observed'[p].at = observed'[p].deliveryAt
  BY <1>7, <1>9 DEF NetOK
<1>15. /\ handlers' \subseteq Nodes /\ DOMAIN links' \subseteq Routes
       /\ DOMAIN observed' \subseteq Allocated'
  BY <1>1, <1>8, <1>9 DEF NetOK
<1>16. NetOK'
  BY <1>8, <1>11, <1>12, <1>13, <1>14, <1>15 DEF NetOK
<1> QED BY <1>5, <1>16

\* A packet that arrives loses its event, and what is told of it last.
LEMMA DeliveriesKeepNet ==
  ASSUME NetOK, NEW e \in Held(heap), e.tag # Timer, now' = e.when,
         Held(heap') = Held(heap) \ {e}, deliver(e.tag, e.when)
  PROVE  NetOK'
<1>1. Announced(e) /\ \A f \in Held(heap) : f.tag # Timer /\ f.tag.id = e.tag.id => f = e
  BY DEF NetOK
<1>2. PICK o : /\ o.kind # "scheduled" /\ o.at = o.deliveryAt
               /\ observed' = [q \in DOMAIN observed \cup {e.tag.id} |->
                                 IF q = e.tag.id THEN o ELSE observed[q]]
  <2>1. ASSUME NEW kind, kind # "scheduled", NEW reason, NEW wasInFlight,
               observe(e.tag, kind, reason, e.when, wasInFlight)
        PROVE  \E o : /\ o.kind # "scheduled" /\ o.at = o.deliveryAt
                      /\ observed' = [q \in DOMAIN observed \cup {e.tag.id} |->
                                        IF q = e.tag.id THEN o ELSE observed[q]]
    BY <2>1 DEF observe, Event
  <2> QED BY <2>1 DEF deliver, drop
<1>3. /\ handlers' = handlers /\ links' = links /\ nextPacket' = nextPacket /\ spent' = spent
  BY DEF deliver
<1>4. /\ e.tag.id \in DOMAIN observed /\ DOMAIN observed' = DOMAIN observed
      /\ observed'[e.tag.id] = o
      /\ \A q \in DOMAIN observed : q # e.tag.id => observed'[q] = observed[q]
  BY <1>1, <1>2 DEF Announced
<1>5. \A f \in Held(heap') : f \in Held(heap) /\ f # e
  OBVIOUS
<1>6. ASSUME NEW f \in Held(heap'), f.tag # Timer PROVE Announced(f)'
  <2>1. Announced(f) /\ f.tag.id # e.tag.id
    BY <1>1, <1>5, <1>6 DEF NetOK
  <2> QED BY <1>4, <2>1 DEF Announced
<1>7. \A a, b \in Held(heap') :
        a.tag # Timer /\ b.tag # Timer /\ a.tag.id = b.tag.id => a = b
  BY <1>5 DEF NetOK
<1>8. ASSUME NEW p \in DOMAIN observed', observed'[p].kind = "scheduled"
      PROVE  \E f \in Held(heap') : f.tag # Timer /\ f.tag.id = p
  <2>1. p # e.tag.id
    BY <1>2, <1>4, <1>8
  <2>2. PICK f \in Held(heap) : f.tag # Timer /\ f.tag.id = p
    BY <1>4, <1>8, <2>1 DEF NetOK
  <2> QED BY <2>1, <2>2
<1>9. \A p \in DOMAIN observed' :
        observed'[p].kind = "delivered" \/ observed'[p].wasInFlight
          => observed'[p].at = observed'[p].deliveryAt
  BY <1>2, <1>4 DEF NetOK
<1>10. Allocated' = Allocated
  BY <1>3 DEF Allocated
<1>11. DOMAIN observed' \subseteq Allocated'
  BY <1>4, <1>10 DEF NetOK
<1> QED BY <1>3, <1>6, <1>7, <1>8, <1>9, <1>11 DEF NetOK

-----------------------------------------------------------------------------
(* The steps of the substrate.                                             *)

\* A timer's event comes or goes.
LEMMA TimersKeepOrder ==
  ASSUME SimOK, NetOK, NEW when \in Times, scheduleAt(when, Timer), UNCHANGED netVars
  PROVE  SimOK' /\ NetOK'
<1>1. Timer \in Tags
  BY DEF Tags
<1>2. PICK e : e = [id |-> nextID, when |-> when, tag |-> Timer]
  OBVIOUS
<1>3. SimOK' /\ Held(heap') = Held(heap) \cup {e}
  BY <1>1, <1>2, ScheduleAdds
<1>4. e.tag = Timer
  BY <1>2
<1>5. \A f : f.tag # Timer => (f \in Held(heap) <=> f \in Held(heap'))
  BY <1>3, <1>4
<1> QED BY <1>3, <1>5, TimersKeepNet

\* A deadline that relative scheduling accepts has not overflowed.
LEMMA DelaysAreTimes ==
  ASSUME SimOK, NEW delay \in Int, AcceptsDelay(delay)
  PROVE  Plus(now, delay) \in Times
<1>1. MaxTime \in Nat /\ now \in 0..MaxTime
  BY BoundsAssumption DEF SimOK, Times
<1>2. now + delay <= MaxTime /\ delay >= 0
  BY <1>1 DEF AcceptsDelay
<1> QED BY <1>1, <1>2 DEF Plus, Times

\* Calls that leave the scheduler alone leave it in order.
LEMMA SimUnchanged ==
  ASSUME SimOK, UNCHANGED simVars
  PROVE  SimOK'
BY DEF SimOK, simVars

\* The four ends of a Send.
LEMMA SendKeepsOrder ==
  ASSUME SimOK, NetOK, NEW from \in Nodes, NEW to \in Nodes, CallSend(from, to)
  PROVE  SimOK' /\ NetOK'
<1>1. CASE SendCut(from, to)
  <2>1. ~spent /\ AllocatePacket /\ UNCHANGED simVars /\ UNCHANGED <<handlers, partition, links>>
    BY <1>1 DEF SendCut, CanSend
  <2>2. drop(Packet(from, to), "partition", 0, FALSE)
    BY <1>1 DEF SendCut
  <2> QED BY <2>1, <2>2, DropsKeepNet, SimUnchanged
<1>2. CASE SendLost(from, to, DefaultLink)
  <2>1. ~spent /\ AllocatePacket /\ UNCHANGED simVars /\ UNCHANGED <<handlers, partition, links>>
    BY <1>2 DEF SendLost, CanSend
  <2>2. drop(Packet(from, to), "loss", 0, FALSE)
    BY <1>2 DEF SendLost
  <2> QED BY <2>1, <2>2, DropsKeepNet, SimUnchanged
<1>3. ASSUME NEW latency \in Times, SendScheduled(from, to, DefaultLink, latency)
      PROVE  SimOK' /\ NetOK'
  BY <1>3, SchedulesKeepNet
<1>4. CASE SendFails(from, to)
  <2>1. /\ ~spent /\ AllocatePacket /\ UNCHANGED simVars
        /\ UNCHANGED <<handlers, partition, links, observed>>
    BY <1>4 DEF SendFails, CanSend
  <2>2. /\ nextPacket' \in PacketIDs /\ spent' \in BOOLEAN
        /\ spent' => nextPacket' = MaxPacket
        /\ Allocated' = Allocated \cup {nextPacket}
    BY <2>1, AllocationAdvances
  <2>3. heap' = heap
    BY <2>1 DEF simVars
  <2>4. NetOK'
    BY <2>1, <2>2, <2>3 DEF NetOK, Announced
  <2> QED BY <2>1, <2>4, SimUnchanged
<1> QED BY <1>1, <1>2, <1>3, <1>4 DEF CallSend

\* Changes of the topology leave packets in flight alone.
LEMMA TopologyKeepsOrder ==
  ASSUME SimOK, NetOK, CallTopology
  PROVE  SimOK' /\ NetOK'
<1>1. UNCHANGED simVars
  BY DEF CallTopology
<1>2. /\ nextPacket' = nextPacket /\ spent' = spent /\ observed' = observed
      /\ handlers' \subseteq Nodes /\ DOMAIN links' \subseteq Routes
  BY DEF CallTopology, Register, Unregister, SetPartition, SetLink, ResetLink, NetOK
<1>3. heap' = heap
  BY <1>1 DEF simVars
<1>4. Allocated' = Allocated
  BY <1>2 DEF Allocated
<1>5. NetOK'
  BY <1>2, <1>3, <1>4 DEF NetOK, Announced
<1> QED BY <1>1, <1>5, SimUnchanged

\* One event of the loop, a timer or a delivery.
LEMMA StepKeepsOrder ==
  ASSUME SimOK, NetOK, Step
  PROVE  SimOK' /\ NetOK'
<1>1. PICK e : e = NextEvent
  OBVIOUS
<1>2. StepReady /\ pop /\ UNCHANGED until
  BY DEF Step
<1>3. SimOK' /\ e \in Held(heap) /\ now' = e.when /\ Held(heap') = Held(heap) \ {e}
  BY <1>1, <1>2, PopExecutes
<1>4. CASE e.tag = Timer
  <2>1. UNCHANGED netVars
    BY <1>1, <1>4 DEF Step
  <2>2. \A f : f.tag # Timer => (f \in Held(heap) <=> f \in Held(heap'))
    BY <1>3, <1>4
  <2> QED BY <1>3, <2>1, <2>2, TimersKeepNet
<1>5. CASE e.tag # Timer
  <2>1. deliver(e.tag, e.when)
    BY <1>1, <1>5 DEF Step
  <2> QED BY <1>3, <1>5, <2>1, DeliveriesKeepNet
<1> QED BY <1>4, <1>5

\* An event that is not due keeps the clock from nothing: none comes before it.
LEMMA PendingIsAhead ==
  ASSUME SimOK, NEW end \in Times, ~DueWithin(end), NEW e \in Held(heap)
  PROVE  e.when > end
<1>1. PICK n \in Nat : n = Len(heap.events)
  BY DEF SimOK, Stored
<1>2. PICK k \in 1..n : e = heap.events[k]
  BY <1>1 DEF Held
<1>3. heap.events # <<>> /\ 1 \in 1..n
  BY <1>1, <1>2
<1>4. heap.events[1] \in HeapEvents /\ e \in HeapEvents
  BY <1>1, <1>2, <1>3 DEF SimOK, Stored
<1>5. /\ heap.events[1].when \in Nat /\ e.when \in Nat /\ end \in Nat
  BY <1>4, BoundsAssumption DEF HeapEvents, Times
<1>6. heap.events[1].when > end
  BY <1>3, <1>5 DEF DueWithin, NextEvent
<1>7. e = heap.events[1] \/ less(heap.events[1], e)
  <2>1. CASE k = 1
    BY <1>2, <2>1
  <2>2. CASE k # 1
    <3>1. k \in 2..n
      BY <2>2
    <3> QED BY <1>1, <1>2, <3>1, RootIsLeast DEF SimOK
  <2> QED BY <2>1, <2>2
<1> QED BY <1>5, <1>6, <1>7 DEF less

\* Every step.
LEMMA OrderIsKept ==
  ASSUME SimOK, NetOK, [Next]_vars
  PROVE  SimOK' /\ NetOK'
<1>1. ASSUME NEW delay \in Delays, CallSchedule(delay) PROVE SimOK' /\ NetOK'
  <2>1. PICK when : when = Plus(now, delay)
    OBVIOUS
  <2>2. AcceptsDelay(delay) /\ scheduleAt(when, Timer) /\ UNCHANGED netVars
    BY <1>1, <2>1 DEF CallSchedule, Schedule
  <2>3. when \in Times
    BY <2>1, <2>2, DelaysAreTimes, DelaysAssumption
  <2> QED BY <2>2, <2>3, TimersKeepOrder
<1>2. ASSUME NEW when \in Times, CallScheduleAt(when) PROVE SimOK' /\ NetOK'
  BY <1>2, TimersKeepOrder DEF CallScheduleAt
<1>3. ASSUME NEW id, CallCancel(id) PROVE SimOK' /\ NetOK'
  <2>1. PICK e : e = heap.events[heap.index[id]]
    OBVIOUS
  <2>2. Cancel(id) /\ UNCHANGED netVars /\ e.tag = Timer
    BY <1>3, <2>1 DEF CallCancel, Cancel
  <2>3. SimOK' /\ Held(heap') = Held(heap) \ {e}
    BY <2>1, <2>2, CancelRemoves
  <2>4. \A f : f.tag # Timer => (f \in Held(heap) <=> f \in Held(heap'))
    BY <2>2, <2>3
  <2> QED BY <2>2, <2>3, <2>4, TimersKeepNet
<1>4. ASSUME NEW end \in Times, CallRunUntil(end) PROVE SimOK' /\ NetOK'
  <2>1. UNCHANGED <<now, heap, nextID, exhausted>> /\ until' = end /\ end >= now
    BY <1>4 DEF CallRunUntil, RunUntil
  <2>2. UNCHANGED netVars
    BY <1>4 DEF CallRunUntil
  <2>3. now <= end
    BY <2>1, BoundsAssumption DEF SimOK, Times
  <2>4. SimOK'
    BY <2>1, <2>3 DEF SimOK
  <2> QED BY <2>1, <2>2, <2>4, TimersKeepNet
<1>5. CASE Step
  BY <1>5, StepKeepsOrder
<1>6. CASE Return
  <2>1. /\ until # NoTime /\ ~DueWithin(until) /\ now' = until /\ until' = NoTime
        /\ UNCHANGED <<heap, nextID, exhausted>> /\ UNCHANGED netVars
    BY <1>6 DEF Return, RunUntilReturns
  <2>2. until \in Times
    BY <2>1 DEF SimOK
  <2>3. ASSUME NEW e \in Held(heap) PROVE e.when >= until
    <3>1. e.when > until
      BY <2>1, <2>2, <2>3, PendingIsAhead
    <3>2. e.when \in Nat /\ until \in Nat
      BY <2>2, HeldEvents, BoundsAssumption DEF SimOK, HeapEvents, Times
    <3> QED BY <3>1, <3>2
  <2>4. SimOK'
    BY <2>1, <2>2, <2>3 DEF SimOK
  <2> QED BY <2>1, <2>4, TimersKeepNet
<1>7. ASSUME NEW from \in Nodes, NEW to \in Nodes, CallSend(from, to) PROVE SimOK' /\ NetOK'
  BY <1>7, SendKeepsOrder
<1>8. CASE CallTopology
  BY <1>8, TopologyKeepsOrder
<1>9. CASE CallDecode
  <2>1. UNCHANGED simVars /\ UNCHANGED netVars /\ heap' = heap
    BY <1>9 DEF CallDecode, simVars
  <2> QED BY <2>1, SimUnchanged, TimersKeepNet
<1>10. CASE UNCHANGED vars
  <2>1. UNCHANGED simVars /\ UNCHANGED netVars /\ heap' = heap
    BY <1>10 DEF vars, simVars
  <2> QED BY <2>1, SimUnchanged, TimersKeepNet
<1> QED BY <1>1, <1>2, <1>3, <1>4, <1>5, <1>6, <1>7, <1>8, <1>9, <1>10 DEF Next

\* The empty heap, the full identifiers.
LEMMA SubstrateStarts ==
  ASSUME Init
  PROVE  SimOK /\ NetOK /\ TraceInv
<1>1. /\ now = 0 /\ heap = EmptyHeap /\ nextID = 1 /\ exhausted = FALSE /\ until = NoTime
      /\ handlers = Nodes /\ links = <<>> /\ nextPacket = 1 /\ spent = FALSE /\ observed = <<>>
  BY DEF Init, SimInit, NetInit
<1>2. heap.events = <<>> /\ heap.index = <<>> /\ Len(heap.events) = 0
  BY <1>1 DEF EmptyHeap
<1>3. DOMAIN heap.index = {} /\ DOMAIN links = {} /\ DOMAIN observed = {}
  BY <1>1, <1>2
<1>4. Held(heap) = {} /\ Ordered(heap)
  BY <1>2 DEF Held, Ordered
<1>5. Stored(heap)
  <2>1. heap.events \in Seq(HeapEvents)
    BY <1>2
  <2>2. {heap.events[k].id : k \in 1..Len(heap.events)} = {}
    BY <1>2
  <2> QED BY <1>2, <1>3, <2>1, <2>2 DEF Stored
<1>6. 0 \in Times /\ 1 \in 1..MaxID /\ 1 \in PacketIDs
  BY BoundsAssumption, PacketAssumption DEF Times, PacketIDs
<1>7. SimOK
  BY <1>1, <1>4, <1>5, <1>6 DEF SimOK
<1>8. NetOK
  BY <1>1, <1>3, <1>4, <1>6 DEF NetOK
<1> QED BY <1>7, <1>8, TraceStarts

\* The data of the substrate keep their types (simulator.go, network.go,
\* trace.go).
THEOREM SubstrateIsTyped == Spec => []TypeOK
<1>1. Init => SimOK /\ NetOK /\ TraceInv
  BY SubstrateStarts
<1>2. SimOK /\ NetOK /\ TraceInv /\ [Next]_vars => (SimOK /\ NetOK /\ TraceInv)'
  BY OrderIsKept, StepTraces
<1>3. SimOK /\ NetOK /\ TraceInv => TypeOK
  <2> SUFFICES ASSUME SimOK, NetOK, TraceInv PROVE TypeOK
    OBVIOUS
  <2>1. HeapEvents =
          [id : 1..MaxID, when : Times,
           tag : {Timer} \cup [kind : {"network_delivery"}, id : PacketIDs, route : Routes]]
    BY DEF HeapEvents, Tags
  <2>2. heap.events \in Seq(HeapEvents)
    BY DEF SimOK, Stored
  <2>3. \A id \in DOMAIN heap.index : heap.index[id] \in DOMAIN heap.events
    BY <2>2, HeldEvents DEF SimOK
  <2>4. decoded <= emitted
    <3>1. PICK F \in Nat : F = Len(file)
      BY DEF TraceInv
    <3> QED BY <3>1 DEF TraceInv, TailOK
  <2> QED BY <2>1, <2>2, <2>3, <2>4 DEF TypeOK, SimOK, NetOK, TraceInv
<1> QED BY <1>1, <1>2, <1>3, PTL DEF Spec

\* Whatever rises, sinks or fills a gap, each pending event knows where it is,
\* so Cancel takes the event asked for out of the array (eventHeap.swap,
\* eventHeap.remove, Simulator.Cancel).
THEOREM PositionsAreKept == Spec => []PositionsAreOwn
<1>1. Init => SimOK /\ NetOK
  BY SubstrateStarts
<1>2. SimOK /\ NetOK /\ [Next]_vars => (SimOK /\ NetOK)'
  BY OrderIsKept
<1>3. SimOK /\ NetOK => PositionsAreOwn
  <2> SUFFICES ASSUME Stored(heap) PROVE PositionsAreOwn
    BY DEF SimOK
  <2>1. DOMAIN heap.events = 1..Len(heap.events)
    BY DEF Stored
  <2>2. \A id \in DOMAIN heap.index :
          heap.index[id] \in DOMAIN heap.events /\ heap.events[heap.index[id]].id = id
    BY <2>1, HeldEvents
  <2>3. \A k \in DOMAIN heap.events :
          heap.events[k].id \in DOMAIN heap.index /\ heap.index[heap.events[k].id] = k
    BY <2>1 DEF Stored
  <2> QED BY <2>2, <2>3 DEF PositionsAreOwn
<1> QED BY <1>1, <1>2, <1>3, PTL DEF Spec

\* Every packet a Send allocated has one fate, in any order of sends, cuts and
\* deliveries (Router.Send, deliver, drop).
THEOREM PacketsKeepTheirFate == Spec => []PacketsAreAccounted
<1>1. Init => SimOK /\ NetOK
  BY SubstrateStarts
<1>2. SimOK /\ NetOK /\ [Next]_vars => (SimOK /\ NetOK)'
  BY OrderIsKept
<1>3. SimOK /\ NetOK => PacketsAreAccounted
  <2> SUFFICES ASSUME SimOK, NetOK, NEW p \in PacketIDs
               PROVE  /\ Flying(p) # {} => p \in DOMAIN observed /\ observed[p].kind = "scheduled"
                      /\ p \in DOMAIN observed =>
                           LET e == observed[p]
                           IN /\ e.kind = "scheduled" =>
                                   \E k \in DOMAIN heap.events :
                                     Flying(p) = {k} /\ heap.events[k].when = e.deliveryAt
                              /\ e.kind = "delivered" \/ e.wasInFlight => e.at = e.deliveryAt
    BY DEF PacketsAreAccounted
  <2>1. PICK n \in Nat : n = Len(heap.events) /\ DOMAIN heap.events = 1..n
    BY DEF SimOK, Stored
  <2>2. Held(heap) = {heap.events[k] : k \in 1..n}
    BY <2>1 DEF Held
  <2>3. \A j, k \in 1..n : heap.events[j] = heap.events[k] => j = k
    BY <2>1 DEF SimOK, Stored
  <2>4. ASSUME NEW k \in Flying(p)
        PROVE  k \in 1..n /\ heap.events[k] \in Held(heap)
               /\ heap.events[k].tag # Timer /\ heap.events[k].tag.id = p
    BY <2>1, <2>2 DEF Flying
  <2>5. Flying(p) # {} => p \in DOMAIN observed /\ observed[p].kind = "scheduled"
    BY <2>4 DEF NetOK, Announced
  <2>6. ASSUME p \in DOMAIN observed, observed[p].kind = "scheduled"
        PROVE  \E k \in DOMAIN heap.events :
                 Flying(p) = {k} /\ heap.events[k].when = observed[p].deliveryAt
    <3>1. PICK e \in Held(heap) : e.tag # Timer /\ e.tag.id = p
      BY <2>6 DEF NetOK
    <3>2. PICK k \in 1..n : e = heap.events[k]
      BY <2>2
    <3>3. k \in Flying(p)
      BY <2>1, <3>1, <3>2 DEF Flying
    <3>4. ASSUME NEW j \in Flying(p) PROVE j = k
      <4>1. heap.events[j] = e
        BY <2>4, <3>1 DEF NetOK
      <4> QED BY <2>3, <2>4, <3>2, <4>1
    <3>5. heap.events[k].when = observed[p].deliveryAt
      BY <3>1, <3>2 DEF NetOK, Announced
    <3> QED BY <2>1, <3>3, <3>4, <3>5
  <2>7. p \in DOMAIN observed /\ (observed[p].kind = "delivered" \/ observed[p].wasInFlight)
          => observed[p].at = observed[p].deliveryAt
    BY DEF NetOK
  <2> QED BY <2>5, <2>6, <2>7
<1> QED BY <1>1, <1>2, <1>3, PTL DEF Spec

\* A matrix cuts what is already in flight, whichever routes it closes and
\* whenever it is installed (Router.SetPartition, deliver).
THEOREM CutsHold == Spec => PartitionCutsPackets
<1> DEFINE Holds == \A p \in DOMAIN observed :
                      observed[p].kind = "scheduled" /\ observed'[p].kind = "delivered"
                        => Allows(partition, observed[p].route.from, observed[p].route.to)
<1>1. Init => SimOK /\ NetOK
  BY SubstrateStarts
<1>2. SimOK /\ NetOK /\ [Next]_vars => (SimOK /\ NetOK)'
  BY OrderIsKept
<1>3. SimOK /\ NetOK /\ [Next]_vars => [Holds]_vars
  <2> SUFFICES ASSUME SimOK, NetOK, Next, NEW p \in DOMAIN observed,
                      observed[p].kind = "scheduled", observed'[p].kind = "delivered"
               PROVE  Allows(partition, observed[p].route.from, observed[p].route.to)
    OBVIOUS
  <2>1. observed'[p] # observed[p] /\ p \in Allocated
    BY DEF NetOK
  <2>2. observed' # observed
    BY <2>1
  <2>3. ASSUME NEW from \in Nodes, NEW to \in Nodes, CallSend(from, to) PROVE FALSE
    <3>1. CanSend(from, to) /\ AllocatePacket
      BY <2>3 DEF CallSend, SendCut, SendLost, SendScheduled, SendFails
    <3>2. p # nextPacket
      BY <2>1, <3>1, AllocationAdvances DEF CanSend
    <3>3. Packet(from, to).id = nextPacket
      BY DEF Packet
    <3>4. ASSUME NEW kind, NEW reason, NEW deliveryAt, NEW wasInFlight,
                 observe(Packet(from, to), kind, reason, deliveryAt, wasInFlight)
          PROVE  observed'[p] = observed[p]
      BY <3>2, <3>3, <3>4 DEF observe
    <3>5. observed'[p] = observed[p]
      BY <2>3, <3>4 DEF CallSend, SendCut, SendLost, SendScheduled, SendFails, drop
    <3> QED BY <2>1, <3>5
  <2>4. CASE Step
    <3>1. PICK e : e = NextEvent
      OBVIOUS
    <3>2. StepReady /\ pop /\ UNCHANGED until
      BY <2>4 DEF Step
    <3>3. e \in Held(heap)
      BY <3>1, <3>2, PopExecutes
    <3>4. e.tag # Timer /\ deliver(e.tag, e.when)
      BY <2>2, <2>4, <3>1 DEF Step, netVars
    <3>5. Announced(e)
      BY <3>3, <3>4 DEF NetOK
    <3>6. ASSUME NEW kind, NEW reason, NEW wasInFlight,
                 observe(e.tag, kind, reason, e.when, wasInFlight)
          PROVE  p = e.tag.id /\ kind = "delivered"
      <4>1. p = e.tag.id
        BY <2>1, <3>6 DEF observe
      <4> QED BY <3>6, <4>1 DEF observe, Event
    <3>7. /\ p = e.tag.id /\ Allows(partition, e.tag.route.from, e.tag.route.to)
      <4>1. CASE ~Allows(partition, e.tag.route.from, e.tag.route.to)
        <5>1. observe(e.tag, "dropped", "partition", e.when, TRUE)
          BY <3>4, <4>1 DEF deliver, drop
        <5>2. p = e.tag.id
          BY <3>6, <5>1
        <5>3. observed'[p].kind = "dropped"
          BY <5>1, <5>2 DEF observe, Event
        <5> QED BY <5>3
      <4>2. CASE Allows(partition, e.tag.route.from, e.tag.route.to)
        <5>1. \/ observe(e.tag, "dropped", "target_unavailable", e.when, TRUE)
              \/ observe(e.tag, "delivered", "none", e.when, FALSE)
          BY <3>4, <4>2 DEF deliver, drop
        <5> QED BY <3>6, <4>2, <5>1
      <4> QED BY <4>1, <4>2
    <3> QED BY <3>5, <3>7 DEF Announced
  <2> QED BY <2>2, <2>3, <2>4 DEF Next, CallSchedule, CallScheduleAt, CallCancel, CallRunUntil,
             Return, CallTopology, Register, Unregister, SetPartition, SetLink, ResetLink,
             CallDecode, netVars
<1> QED BY <1>1, <1>2, <1>3, PTL DEF Spec, PartitionCutsPackets

-----------------------------------------------------------------------------
(* The simulator is the ordered event queue.                               *)

\* An event as the queue knows it.
Bare(e) == [id |-> e.id, when |-> e.when]

\* The queue and the last identifier that the abstract specification sees.
Pending(h) == {Bare(e) : e \in Held(h)}
Issued == IF exhausted THEN MaxID ELSE nextID - 1

\* The array as a set.
LEMMA PendingEvents ==
  ASSUME NEW h, Stored(h)
  PROVE  {[id |-> h.events[k].id, when |-> h.events[k].when] : k \in DOMAIN h.events} = Pending(h)
<1>1. DOMAIN h.events = 1..Len(h.events)
  BY DEF Stored
<1>2. ASSUME NEW k \in DOMAIN h.events
      PROVE  [id |-> h.events[k].id, when |-> h.events[k].when] \in Pending(h)
  <2>1. h.events[k] \in Held(h)
    BY <1>1 DEF Held
  <2> QED BY <2>1 DEF Pending, Bare
<1>3. ASSUME NEW b \in Pending(h)
      PROVE  \E k \in DOMAIN h.events : b = [id |-> h.events[k].id, when |-> h.events[k].when]
  <2>1. PICK k \in DOMAIN h.events : b = Bare(h.events[k])
    BY <1>1 DEF Pending, Held
  <2> QED BY <2>1 DEF Bare
<1> QED BY <1>2, <1>3

\* Each operation of the simulator is one of the queue.
LEMMA ScheduleQueues ==
  ASSUME SimOK, NEW when \in Times, NEW tag \in Tags, scheduleAt(when, tag)
  PROVE  Queue!Next
<1>1. PICK e : e = [id |-> nextID, when |-> when, tag |-> tag]
  OBVIOUS
<1>2. SimOK' /\ e \in HeapEvents /\ ~exhausted /\ Held(heap') = Held(heap) \cup {e}
  BY <1>1, ScheduleAdds
<1>3. PICK b : b = Bare(e) /\ b.id = nextID /\ b.when = when
  <2>1. e.id = nextID /\ e.when = when
    BY <1>1
  <2>2. Bare(e).id = e.id /\ Bare(e).when = e.when
    BY DEF Bare
  <2> QED BY <2>1, <2>2
<1>4. b \in [id : 1..MaxID, when : Times]
  BY <1>2, <1>3 DEF HeapEvents, Bare
<1>5. Pending(heap') = Pending(heap) \cup {b}
  <2>1. \A x \in Held(heap') : x \in Held(heap) \/ x = e
    BY <1>2
  <2>2. \A x \in Held(heap) \cup {e} : x \in Held(heap')
    BY <1>2
  <2> QED BY <1>3, <2>1, <2>2 DEF Pending
<1>6. /\ when >= now /\ now' = now
      /\ exhausted' = (nextID = MaxID)
      /\ nextID' = IF nextID = MaxID THEN nextID ELSE nextID + 1
  BY DEF scheduleAt, Accepts
<1>7. nextID \in 1..MaxID /\ MaxID \in Nat
  BY BoundsAssumption DEF SimOK
<1>8. Issued < nextID /\ Issued' = nextID
  <2>1. Issued < nextID
    BY <1>2, <1>7 DEF Issued
  <2>2. CASE nextID = MaxID
    <3>1. exhausted' = TRUE
      BY <1>6, <2>2
    <3> QED BY <2>1, <2>2, <3>1 DEF Issued
  <2>3. CASE nextID # MaxID
    <3>1. exhausted' = FALSE /\ nextID' = nextID + 1
      BY <1>6, <2>3
    <3> QED BY <1>7, <2>1, <3>1 DEF Issued
  <2> QED BY <2>2, <2>3
<1>9. Queue!Schedule(b)
  BY <1>2, <1>3, <1>5, <1>6, <1>7, <1>8, PendingEvents DEF Queue!Schedule, SimOK, Issued
<1> QED BY <1>4, <1>9 DEF Queue!Next, Queue!Events

\* An event that leaves the heap leaves the queue.
LEMMA RemovalsQueue ==
  ASSUME NEW h, Stored(h), NEW g, NEW e \in Held(h), Held(g) = Held(h) \ {e}
  PROVE  Pending(g) = Pending(h) \ {Bare(e)}
<1>1. \A x \in Held(h) : Bare(x) = Bare(e) => x = e
  BY HeldEvents DEF Bare
<1>2. \A x \in Held(g) : Bare(x) \in Pending(h) \ {Bare(e)}
  BY <1>1 DEF Pending
<1>3. \A x \in Held(h) : Bare(x) # Bare(e) => Bare(x) \in Pending(g)
  BY DEF Pending
<1> QED BY <1>2, <1>3 DEF Pending

\* Cancel by a stored position is Cancel of that event.
LEMMA CancelQueues ==
  ASSUME SimOK, NEW id, Cancel(id)
  PROVE  Queue!Next
<1>1. PICK e : e = heap.events[heap.index[id]]
  OBVIOUS
<1>2. SimOK' /\ e \in Held(heap) /\ Held(heap') = Held(heap) \ {e}
  BY <1>1, CancelRemoves
<1>3. Pending(heap') = Pending(heap) \ {Bare(e)} /\ Bare(e) \in Pending(heap)
  BY <1>2, RemovalsQueue DEF SimOK, Pending
<1>4. UNCHANGED <<now, nextID, exhausted>>
  BY DEF Cancel
<1>5. Queue!Cancel(Bare(e))
  BY <1>2, <1>3, <1>4, PendingEvents DEF Queue!Cancel, SimOK
<1> QED BY <1>2, <1>3, <1>5, PendingEvents DEF Queue!Next, SimOK

\* The root is the event that no other comes before.
LEMMA StepQueues ==
  ASSUME SimOK, Step
  PROVE  Queue!Next
<1>1. PICK e : e = NextEvent
  OBVIOUS
<1>2. StepReady /\ pop /\ UNCHANGED until
  BY DEF Step
<1>3. /\ SimOK' /\ e \in Held(heap) /\ now' = e.when
      /\ \A f \in Held(heap) : f # e => less(e, f)
      /\ Held(heap') = Held(heap) \ {e}
  BY <1>1, <1>2, PopExecutes
<1>4. Pending(heap') = Pending(heap) \ {Bare(e)} /\ Bare(e) \in Pending(heap)
  BY <1>3, RemovalsQueue DEF SimOK, Pending
<1>5. ASSUME NEW b \in Pending(heap) \ {Bare(e)} PROVE Queue!Before(Bare(e), b)
  <2>1. PICK f \in Held(heap) : b = Bare(f) /\ f # e
    BY <1>5 DEF Pending
  <2>2. less(e, f)
    BY <1>3, <2>1
  <2> QED BY <2>1, <2>2 DEF less, Queue!Before, Bare
<1>6. UNCHANGED <<nextID, exhausted>> /\ Bare(e).when = e.when
  BY <1>2 DEF pop, Bare
<1>7. Queue!Execute(Bare(e))
  BY <1>3, <1>4, <1>5, <1>6, PendingEvents DEF Queue!Execute, SimOK
<1> QED BY <1>3, <1>4, <1>7, PendingEvents DEF Queue!Next, SimOK

\* The clock moves on its own only where nothing is due.
LEMMA ReturnQueues ==
  ASSUME SimOK, RunUntilReturns
  PROVE  [Queue!Next]_(Queue!vars)
<1>1. /\ until \in Times /\ now <= until /\ now \in Times
      /\ ~DueWithin(until) /\ now' = until /\ UNCHANGED <<heap, nextID, exhausted>>
  BY DEF SimOK, RunUntilReturns
<1>2. now \in Nat /\ until \in Nat
  BY <1>1, BoundsAssumption DEF Times
<1>3. CASE now = until
  BY <1>1, <1>3 DEF Queue!vars
<1>4. CASE now # until
  <2>1. \A b \in Pending(heap) : b.when > until
    BY <1>1, PendingIsAhead DEF Pending, Bare
  <2>2. until > now
    BY <1>1, <1>2, <1>4
  <2>3. Queue!Advance(until)
    BY <1>1, <2>1, <2>2, PendingEvents DEF Queue!Advance, SimOK
  <2> QED BY <1>1, <2>3 DEF Queue!Next
<1> QED BY <1>3, <1>4

\* No call of the router or the recorder is seen by the queue.
LEMMA QueueUnchanged ==
  ASSUME UNCHANGED <<now, heap, nextID, exhausted>>
  PROVE  UNCHANGED Queue!vars
BY DEF Queue!vars

\* Every step.
LEMMA StepImplementsQueue ==
  ASSUME SimOK, NetOK, [Next]_vars
  PROVE  [Queue!Next]_(Queue!vars)
<1>1. ASSUME NEW delay \in Delays, CallSchedule(delay) PROVE Queue!Next
  <2>1. AcceptsDelay(delay) /\ scheduleAt(Plus(now, delay), Timer) /\ Timer \in Tags
    BY <1>1 DEF CallSchedule, Schedule, Tags
  <2> QED BY <2>1, DelaysAreTimes, ScheduleQueues, DelaysAssumption
<1>2. ASSUME NEW when \in Times, CallScheduleAt(when) PROVE Queue!Next
  BY <1>2, ScheduleQueues DEF CallScheduleAt, Tags
<1>3. ASSUME NEW id, CallCancel(id) PROVE Queue!Next
  BY <1>3, CancelQueues DEF CallCancel
<1>4. ASSUME NEW end, CallRunUntil(end) PROVE UNCHANGED Queue!vars
  BY <1>4, QueueUnchanged DEF CallRunUntil, RunUntil
<1>5. CASE Step
  BY <1>5, StepQueues
<1>6. CASE Return
  BY <1>6, ReturnQueues DEF Return
<1>7. ASSUME NEW from \in Nodes, NEW to \in Nodes, CallSend(from, to)
      PROVE  [Queue!Next]_(Queue!vars)
  <2>1. ASSUME UNCHANGED simVars PROVE UNCHANGED Queue!vars
    BY <2>1, QueueUnchanged DEF simVars
  <2>2. ASSUME NEW latency \in Times, SendScheduled(from, to, DefaultLink, latency)
        PROVE  Queue!Next
    <3>1. /\ AcceptsDelay(latency) /\ scheduleAt(Plus(now, latency), Packet(from, to))
          /\ Packet(from, to) \in Tags
      <4>1. Route(from, to) \in Routes
        BY DEF Route, Routes
      <4> QED BY <2>2, <4>1 DEF SendScheduled, Schedule, Packet, Tags, NetOK
    <3>2. latency \in Int
      BY BoundsAssumption DEF Times
    <3> QED BY <3>1, <3>2, DelaysAreTimes, ScheduleQueues
  <2> QED BY <1>7, <2>1, <2>2 DEF CallSend, SendCut, SendLost, SendFails
<1>8. CASE CallTopology
  BY <1>8, QueueUnchanged DEF CallTopology, simVars
<1>9. CASE CallDecode
  BY <1>9, QueueUnchanged DEF CallDecode, simVars
<1>10. CASE UNCHANGED vars
  BY <1>10, QueueUnchanged DEF vars, simVars
<1> QED BY <1>1, <1>2, <1>3, <1>4, <1>5, <1>6, <1>7, <1>8, <1>9, <1>10 DEF Next

\* The simulator, with its array heap, its stored positions, its overflow
\* checks and its RunUntil loop, behaves as the ordered event queue, for every
\* last instant and last identifier (queue.go, simulator.go).
THEOREM SimulatorImplementsQueue == Spec => SimulatorIsOrdered
<1>1. Init => SimOK /\ NetOK /\ Queue!Init
  <2>1. Init => SimOK /\ NetOK
    BY SubstrateStarts
  <2>2. ASSUME Init PROVE Queue!Init
    <3>1. now = 0 /\ heap.events = <<>> /\ nextID = 1 /\ exhausted = FALSE
      BY <2>2 DEF Init, SimInit, EmptyHeap
    <3>2. DOMAIN heap.events = {}
      BY <3>1
    <3> QED BY <3>1, <3>2 DEF Queue!Init
  <2> QED BY <2>1, <2>2
<1>2. SimOK /\ NetOK /\ [Next]_vars => (SimOK /\ NetOK)' /\ [Queue!Next]_(Queue!vars)
  BY OrderIsKept, StepImplementsQueue
<1> QED BY <1>1, <1>2, PTL DEF Spec, SimulatorIsOrdered, Queue!Spec
=============================================================================
