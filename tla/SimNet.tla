------------------------------- MODULE SimNet -------------------------------
(***************************************************************************)
(* The substrate of every experiment: simulator, router, random draws and  *)
(* trace recorder driven by one thread, with a decoder reading the trace.  *)
(* Each action is one call of the driver or of a callback, or one step of  *)
(* the event loop, with the trace events it emits in their order.          *)
(***************************************************************************)
EXTENDS Network, TraceLog

CONSTANTS
  DefaultLink, Overrides,  \* link configurations
  Matrices,                \* the connectivity matrices the driver installs
  Delays,                  \* delays of the timers the driver sets
  Programs                 \* bound: the calls each kind of driver makes, as
                           \* records [timers, sends, changes, runs, traced]

ASSUME DelaysAssumption == Delays \subseteq Int

VARIABLE
  program       \* the calls the driver and its callbacks may still make, and
                \* whether a trace sink is set

vars == <<simVars, netVars, traceVars, program>>

Calls(kind) ==
  /\ program[kind] > 0
  /\ program' = [program EXCEPT ![kind] = @ - 1]

Timer == [kind |-> "external_action"]     \* the tag of an event that is not a delivery

Emits(kind, fields) == [kind |-> kind, fields |-> fields]
Scheduled == Emits("event_scheduled", {"at", "event_id", "scheduled_for"})
Executed == Emits("event_executed", {"at", "event_id"})
Canceled == Emits("event_canceled", {"at", "event_id", "scheduled_for"})
Advanced == Emits("clock_advanced", {"at"})
Draw == Emits("random_draw", {"random"})
Topology(kind, fields) == Emits(kind, {"at"} \cup fields)

\* Router.observe: the trace event of a packet's transition.
PacketTrace(e) ==
  LET packet == {"at", "packet_id", "route"}
  IN CASE e.kind = "scheduled" -> Emits("packet_scheduled", packet \cup {"delivery_at"})
       [] e.kind = "delivered" -> Emits("packet_delivered", packet \cup {"delivery_at"})
       [] e.kind = "dropped" ->
            Emits("packet_dropped", packet \cup {"drop_reason"}
                                      \cup (IF e.wasInFlight THEN {"delivery_at"} ELSE {}))

record(events) == IF program.traced THEN recordTrace(events) ELSE UNCHANGED traceVars

Init ==
  /\ SimInit
  /\ NetInit(Nodes)
  /\ TraceInit
  /\ program \in Programs

CallSchedule(delay) ==
  /\ Calls("timers")
  /\ Schedule(delay, Timer)
  /\ record(<<Scheduled>>)
  /\ UNCHANGED netVars

CallScheduleAt(when) ==
  /\ Calls("timers")
  /\ scheduleAt(when, Timer)
  /\ record(<<Scheduled>>)
  /\ UNCHANGED netVars

\* Callers know the identifiers of the timers they set, not those of the
\* deliveries, which Send discards.
CallCancel(id) ==
  /\ id \in DOMAIN heap.index => heap.events[heap.index[id]].tag = Timer
  /\ Cancel(id)
  /\ record(<<Canceled>>)
  /\ UNCHANGED <<netVars, program>>

CallRunUntil(end) == Calls("runs") /\ RunUntil(end) /\ UNCHANGED <<netVars, traceVars>>

StepReady == heap.events # <<>> /\ (until # NoTime => DueWithin(until))

\* One event of Run, RunSteps or RunUntil, its delivery callback included.
Step ==
  /\ StepReady
  /\ pop
  /\ IF NextEvent.tag = Timer
     THEN UNCHANGED netVars /\ record(<<Executed>>)
     ELSE /\ deliver(NextEvent.tag, NextEvent.when)
          /\ record(<<Executed, PacketTrace(observed'[NextEvent.tag.id])>>)
  /\ UNCHANGED <<until, program>>

Return ==
  /\ RunUntilReturns
  /\ record(IF now = until THEN <<>> ELSE <<Advanced>>)
  /\ UNCHANGED <<netVars, program>>

\* The draws a Send makes when the random source decides; none when a
\* decision source does.
Draws(n) == {<<>>, [k \in 1..n |-> Draw]}

CallSend(from, to) ==
  /\ Calls("sends")
  /\ \/ /\ SendCut(from, to)
        /\ record(<<PacketTrace(observed'[nextPacket])>>)
     \/ /\ SendLost(from, to, DefaultLink)
        /\ \E d \in Draws(1) : record(d \o <<PacketTrace(observed'[nextPacket])>>)
     \/ /\ \E latency \in Times : SendScheduled(from, to, DefaultLink, latency)
        /\ \E d \in Draws(2) : record(d \o <<Scheduled, PacketTrace(observed'[nextPacket])>>)
     \/ /\ SendFails(from, to)
        /\ \E d \in Draws(2) : record(d)

CallTopology ==
  /\ Calls("changes")
  /\ \/ \E n \in Nodes : Register(n) /\ record(<<Topology("node_registered", {"node"})>>)
     \/ \E n \in Nodes : Unregister(n) /\ record(<<Topology("node_unregistered", {"node"})>>)
     \/ \E m \in Matrices \cup {Full} :
          SetPartition(m) /\ record(<<Topology("partition_changed", {"partition_active"})>>)
     \/ \E r \in Routes, c \in Overrides :
          SetLink(r, c) /\ record(<<Topology("link_set", {"route", "link"})>>)
     \/ \E r \in Routes : ResetLink(r) /\ record(<<Topology("link_reset", {"route"})>>)
  /\ UNCHANGED simVars

CallDecode == decodeNext /\ UNCHANGED <<simVars, netVars, program>>

Next ==
  \/ \E delay \in Delays : CallSchedule(delay)
  \/ \E when \in Times : CallScheduleAt(when)
  \/ \E id \in 1..MaxID : CallCancel(id)
  \/ \E end \in Times : CallRunUntil(end)
  \/ Step
  \/ Return
  \/ \E from, to \in Nodes : CallSend(from, to)
  \/ CallTopology
  \/ CallDecode

Spec == Init /\ [][Next]_vars

\* The event loop is a loop: as long as there is an event that is due it
\* takes the next step, and RunUntil returns.  (The second conjunct is weak
\* fairness of Step with its enabling condition written out.)
FairSpec == Spec /\ WF_vars(Return) /\ ([]<>~StepReady \/ []<><<Step>>_vars)
-----------------------------------------------------------------------------
PacketIDs == 1..MaxPacket
Allocated == {p \in PacketIDs : p < nextPacket \/ spent}
Flying(p) == {k \in DOMAIN heap.events :
                heap.events[k].tag # Timer /\ heap.events[k].tag.id = p}

TypeOK ==
  /\ now \in Times
  /\ heap.events \in Seq([id : 1..MaxID, when : Times,
                          tag : {Timer} \cup [kind : {"network_delivery"}, id : PacketIDs, route : Routes]])
  /\ \A id \in DOMAIN heap.index : heap.index[id] \in DOMAIN heap.events
  /\ nextID \in 1..MaxID
  /\ exhausted \in BOOLEAN
  /\ until \in Times \cup {NoTime}
  /\ handlers \subseteq Nodes
  /\ DOMAIN links \subseteq Routes
  /\ nextPacket \in PacketIDs
  /\ DOMAIN observed \subseteq Allocated
  /\ next \in 0..MaxSequence
  /\ decoded <= emitted

\* Every pending event knows its own position in the array, whatever rose,
\* sank or was moved into a gap before: so Cancel, which trusts that position
\* while it forgets the identifier it was asked for, removes the event asked
\* for and no other (eventHeap.swap, eventHeap.remove, Simulator.Cancel).
PositionsAreOwn ==
  /\ \A id \in DOMAIN heap.index :
        heap.index[id] \in DOMAIN heap.events /\ heap.events[heap.index[id]].id = id
  /\ \A k \in DOMAIN heap.events :
        heap.events[k].id \in DOMAIN heap.index /\ heap.index[heap.events[k].id] = k

\* The simulator, with its array heap, stored positions, overflow checks and
\* RunUntil loop, behaves as the ordered event queue: events run in the order
\* of time and then of scheduling, cancellation removes one pending event and
\* leaves the order of the others, the clock never goes back nor passes a pending event, and no
\* identifier is issued twice (queue.go, simulator.go).
Queue == INSTANCE EventQueue WITH
  clock <- now,
  pending <- {[id |-> heap.events[k].id, when |-> heap.events[k].when] : k \in DOMAIN heap.events},
  issued <- IF exhausted THEN MaxID ELSE nextID - 1,
  EventIDs <- 1..MaxID
SimulatorIsOrdered == Queue!Spec

\* Every packet a Send allocated has one fate: it is in flight, with exactly
\* one pending event at the delivery time the observer was told, or it was
\* delivered or dropped, in flight ones exactly at that time, or the Send
\* failed and nobody saw it (Router.Send, deliver, drop).
PacketsAreAccounted ==
  \A p \in PacketIDs :
    /\ Flying(p) # {} => p \in DOMAIN observed /\ observed[p].kind = "scheduled"
    /\ p \in DOMAIN observed =>
         LET e == observed[p]
         IN /\ e.kind = "scheduled" =>
                 \E k \in DOMAIN heap.events : Flying(p) = {k} /\ heap.events[k].when = e.deliveryAt
            /\ e.kind = "delivered" \/ e.wasInFlight => e.at = e.deliveryAt

\* A matrix cuts what is already in flight: no packet arrives over a route
\* that is closed when it arrives, though it was open when the packet was
\* sent (Router.SetPartition, deliver).
PartitionCutsPackets ==
  [][\A p \in DOMAIN observed :
       observed[p].kind = "scheduled" /\ observed'[p].kind = "delivered"
         => Allows(partition, observed[p].route.from, observed[p].route.to)]_vars

\* The decoder returns the first events of the run, each once and in their
\* order, and rejects nothing the recorder wrote unless the recorder itself
\* reported a failed write (JSONLRecorder.RecordTrace, Decoder.Next).
TraceIsFaithful ==
  /\ order = decoded
  /\ rejected => failed

\* With the event loop running, every packet in flight is delivered or
\* dropped in the end, however the driver moves the clock (Simulator.Run).
PacketsResolve == \A p \in PacketIDs : Flying(p) # {} ~> Flying(p) = {}
=============================================================================
