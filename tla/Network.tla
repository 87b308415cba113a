------------------------------ MODULE Network ------------------------------
(***************************************************************************)
(* network.go: the router.  Send decides loss and latency and schedules    *)
(* the delivery with the simulator; the connectivity matrix is consulted   *)
(* at Send and again at delivery.  Payloads are left out: a packet is its  *)
(* identifier and its route.  observed is what an Observer has been told   *)
(* last of each packet.                                                    *)
(***************************************************************************)
EXTENDS Simulator

CONSTANTS
  Nodes,
  Full,         \* no matrix: every route is open
  MaxPacket     \* ^uint64(0), the last packet identifier

ASSUME PacketAssumption == MaxPacket \in Nat \ {0}

VARIABLES
  handlers,     \* the registered nodes
  partition,    \* Router.partition: Full, or [nodes, allowed]
  links,        \* the overriding link configurations by route
  nextPacket,
  spent,        \* Router.exhausted
  observed      \* the last NetworkEvent of each packet

netVars == <<handlers, partition, links, nextPacket, spent, observed>>

Routes == [from : Nodes, to : Nodes]
Route(a, b) == [from |-> a, to |-> b]

\* LinkConfig: a latency range and whether loss is impossible, possible or
\* certain (a probability of 0, between, of 1).
Links == [min : Times, max : Times, loss : {"never", "maybe", "always"}]
Validate(c) == c.min >= 0 /\ c.max >= c.min

\* Connectivity groups: every node in one group, nodes of a group connected.
NewPartitions(groups) ==
  [nodes |-> UNION groups,
   allowed |-> {r \in Routes : \E g \in groups : r.from \in g /\ r.to \in g}]
ValidGroups(groups) ==
  groups # {} /\ {} \notin groups /\ \A g, h \in groups : g # h => g \cap h = {}

\* An arbitrary directed matrix over some nodes.
NewPartitionMatrix(nodes, permitted) ==
  [nodes |-> nodes, allowed |-> {r \in permitted : {r.from, r.to} \subseteq nodes}]

\* Nodes absent from an active matrix are isolated.
Allows(m, from, to) == m # Full => Route(from, to) \in m.allowed

NetInit(nodes) ==
  /\ handlers = nodes
  /\ partition = Full
  /\ links = <<>>
  /\ nextPacket = 1
  /\ spent = FALSE
  /\ observed = <<>>

Register(n) ==
  /\ n \notin handlers
  /\ handlers' = handlers \cup {n}
  /\ UNCHANGED <<partition, links, nextPacket, spent, observed>>

Unregister(n) ==
  /\ n \in handlers
  /\ handlers' = handlers \ {n}
  /\ UNCHANGED <<partition, links, nextPacket, spent, observed>>

SetPartition(m) ==
  /\ partition' = m
  /\ UNCHANGED <<handlers, links, nextPacket, spent, observed>>

SetLink(r, c) ==
  /\ Validate(c)
  /\ links' = [s \in DOMAIN links \cup {r} |-> IF s = r THEN c ELSE links[s]]
  /\ UNCHANGED <<handlers, partition, nextPacket, spent, observed>>

\* A route with an empty name, which the code accepts and no link has, is none here.
ResetLink(r) ==
  /\ links' = [s \in DOMAIN links \ {r} |-> links[s]]
  /\ UNCHANGED <<handlers, partition, nextPacket, spent, observed>>

\* A NetworkEvent as the observer receives it.
Event(p, kind, reason, sentAt, deliveryAt, wasInFlight) ==
  [route |-> p.route, kind |-> kind, reason |-> reason, at |-> sentAt,
   deliveryAt |-> deliveryAt, wasInFlight |-> wasInFlight]

observe(p, kind, reason, deliveryAt, wasInFlight) ==
  observed' = [q \in DOMAIN observed \cup {p.id} |->
                 IF q = p.id THEN Event(p, kind, reason, now', deliveryAt, wasInFlight)
                 ELSE observed[q]]

drop(p, reason, deliveryAt, wasInFlight) == observe(p, "dropped", reason, deliveryAt, wasInFlight)

\* The identifier is spent by every Send that passes the first checks, also
\* by one that fails later.
CanSend(from, to) == from \in handlers /\ to \in handlers /\ ~spent
\* The last identifier issued again and again.
AllocateAgain ==
  /\ spent' = FALSE
  /\ nextPacket' = IF nextPacket = MaxPacket THEN nextPacket ELSE nextPacket + 1
AllocatePacket ==
  /\ spent' = (nextPacket = MaxPacket)
  /\ nextPacket' = IF nextPacket = MaxPacket THEN nextPacket ELSE nextPacket + 1
Packet(from, to) == [kind |-> "network_delivery", id |-> nextPacket, route |-> Route(from, to)]

linkOf(from, to, default) ==
  IF Route(from, to) \in DOMAIN links THEN links[Route(from, to)] ELSE default

\* Loss: Rand.Chance, or a decision source that must agree with a certain
\* probability.  Latency: Rand.Duration over the inclusive range, or a
\* decision inside it.
Losses(link) == CASE link.loss = "never" -> {FALSE}
                  [] link.loss = "always" -> {TRUE}
                  [] OTHER -> BOOLEAN
Latencies(link) == link.min..link.max

\* The three ways Send ends without an error, and the one error that comes
\* after the identifier was allocated (a refused decision, a failing tagger,
\* a deadline or an event identifier the simulator refuses).
SendCut(from, to) ==
  /\ CanSend(from, to) /\ AllocatePacket
  /\ ~Allows(partition, from, to)
  /\ UNCHANGED simVars
  /\ drop(Packet(from, to), "partition", 0, FALSE)
  /\ UNCHANGED <<handlers, partition, links>>

SendLost(from, to, default) ==
  /\ CanSend(from, to) /\ AllocatePacket
  /\ Allows(partition, from, to)
  /\ TRUE \in Losses(linkOf(from, to, default))
  /\ UNCHANGED simVars
  /\ drop(Packet(from, to), "loss", 0, FALSE)
  /\ UNCHANGED <<handlers, partition, links>>

SendScheduled(from, to, default, latency) ==
  LET p == Packet(from, to)
  IN /\ CanSend(from, to) /\ AllocatePacket
     /\ Allows(partition, from, to)
     /\ FALSE \in Losses(linkOf(from, to, default))
     /\ latency \in Latencies(linkOf(from, to, default))
     /\ Schedule(latency, p)
     /\ observe(p, "scheduled", "none", Plus(now, latency), FALSE)
     /\ UNCHANGED <<handlers, partition, links>>

SendFails(from, to) ==
  /\ CanSend(from, to) /\ AllocatePacket
  /\ Allows(partition, from, to)
  /\ UNCHANGED <<simVars, handlers, partition, links, observed>>

\* A router that only looks at the partition when the packet is sent.
deliverThroughCut(p, deliveryAt) ==
  /\ IF p.route.to \notin handlers
     THEN drop(p, "target_unavailable", deliveryAt, TRUE)
     ELSE observe(p, "delivered", "none", deliveryAt, FALSE)
  /\ UNCHANGED <<handlers, partition, links, nextPacket, spent>>

\* The callback of a delivery event: partition, then handler, then delivery.
deliver(p, deliveryAt) ==
  /\ IF ~Allows(partition, p.route.from, p.route.to)
     THEN drop(p, "partition", deliveryAt, TRUE)
     ELSE IF p.route.to \notin handlers
     THEN drop(p, "target_unavailable", deliveryAt, TRUE)
     ELSE observe(p, "delivered", "none", deliveryAt, FALSE)
  /\ UNCHANGED <<handlers, partition, links, nextPacket, spent>>
=============================================================================
