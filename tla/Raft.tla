-------------------------------- MODULE Raft --------------------------------
(***************************************************************************)
(* A cluster of reference Raft nodes (raft/node.go) run by the simulation  *)
(* harness (raftsim/cluster.go): every process owns a node, a durable      *)
(* store and two timers, and processes exchange messages over a network    *)
(* that loses, delays and reorders them.                                   *)
(*                                                                         *)
(* A transition that changes durable state is split at the code's          *)
(* persistence barrier: the step itself, the completion of the write, and  *)
(* the acknowledgement that releases the effects; a crash may fall between *)
(* any two of them.  While a write is outstanding the harness queues every *)
(* other input, so the node takes no other step; here the input simply     *)
(* stays where it is (a message in net, a timer armed).                    *)
(*                                                                         *)
(* A step for which Node.Step returns an error is not taken: a client      *)
(* request is then refused with no change of state, and any other input    *)
(* makes the harness stop the run (Cluster.fail).                          *)
(***************************************************************************)
EXTENDS RaftNode

CONSTANTS
    Compactor,      \* the processes on which Cluster.Snapshot is called
    Target,         \* <<voters, learners>> pairs offered to BeginMembership
    MaxInFlight,    \* bound: messages in the network
    MaxSequence,    \* bound: append attempts per follower and leadership
    MaxCrashes      \* bound: crashes in a behaviour

ASSUME InputAssumption ==
    /\ Compactor \subseteq Server
    /\ Target \subseteq (SUBSET Server) \X (SUBSET Server)
ASSUME RunBoundAssumption ==
    MaxInFlight \in Nat /\ MaxSequence \in Nat /\ MaxCrashes \in Nat

VARIABLES
    node,       \* process.node; for a process that is down, what New will build
    up,         \* process.up
    disk,       \* process.store.State
    store,      \* the rest of process.store, and process.application
    pending,    \* Node.pending with the progress of the write
    timer,      \* whether electionEvent and heartbeatEvent are scheduled
    net,        \* packets the router has scheduled for delivery
    crashes     \* crashes so far

vars == <<node, up, disk, store, pending, timer, net, crashes>>

NoPending == [phase |-> "none", effects |-> NoEffects]
NoTimers == [election |-> FALSE, heartbeat |-> FALSE]

Init ==
    /\ disk = [s \in Server |-> EmptyState]
    /\ node = [s \in Server |-> New(s, EmptyState, 0)]
    /\ up = [s \in Server |-> TRUE]
    /\ store = [s \in Server |-> [applied |-> 0, entries |-> <<>>, history |-> <<>>]]
    /\ pending = [s \in Server |-> NoPending]
    /\ timer = [s \in Server |->
                    [NoTimers EXCEPT !.election = isVoter(InitialMembership, s)]]
    /\ net = {}
    /\ crashes = 0
-----------------------------------------------------------------------------
(* processEffects, drain and the timers of the harness.                    *)

\* The entries of n at the given interval of indexes, as the application
\* receives them: only commands carry data.
entriesAt(n, indexes) ==
    LET low == CHOOSE i \in indexes : \A j \in indexes : i <= j
    IN  [k \in 1..Cardinality(indexes) |->
            [index |-> low + k - 1, data |-> entryAt(n, low + k - 1).data]]

\* applyApplicationEntry for a run of entries: the application's state is the
\* sequence of commands it executed.
commandsOf(entries) ==
    LET upTo[k \in Nat] ==
            IF k = 0 THEN <<>>
            ELSE IF entries[k].data = NoCommand THEN upTo[k - 1]
            ELSE Append(upTo[k - 1], entries[k].data)
    IN  upTo[Len(entries)]

entriesAbove(entries, boundary) ==
    LET upTo[k \in Nat] ==
            IF k = 0 THEN <<>>
            ELSE IF entries[k].index <= boundary THEN upTo[k - 1]
            ELSE Append(upTo[k - 1], entries[k])
    IN  upTo[Len(entries)]

\* Mutant: the application keeps its old state when a snapshot is installed.
applyEffects_NoRestore(st, n, e) ==
    LET entries == entriesAt(n, e.apply)
        base == IF e.install
                THEN [st EXCEPT !.applied = n.snap.index,
                                !.entries = entriesAbove(@, n.snap.index)]
                ELSE st
    IN  [applied |-> base.applied + Cardinality(e.apply),
         entries |-> base.entries \o entries,
         history |-> base.history \o commandsOf(entries)]

\* The application effects of a released step of node n.
applyEffects(st, n, e) ==
    LET entries == entriesAt(n, e.apply)
        base == IF e.install
                THEN [applied |-> n.snap.index,
                      entries |-> entriesAbove(st.entries, n.snap.index),
                      history |-> n.snap.data]
                ELSE st
    IN  [applied |-> base.applied + Cardinality(e.apply),
         entries |-> base.entries \o entries,
         history |-> base.history \o commandsOf(entries)]

\* The index recoverApplication replays from: that of the durable snapshot,
\* unless the application had not reached it.
recoveryBoundary(d, st) == IF d.snap.index <= st.applied THEN d.snap.index ELSE 0

\* recoverApplication finds every entry from the boundary to AppliedIndex, in
\* order; otherwise it returns ErrApplyOrder and the process cannot start.
recoverable(d, st) ==
    LET boundary == recoveryBoundary(d, st)
        replayed == entriesAbove(st.entries, boundary)
    IN  /\ \A k \in 1..Len(replayed) : replayed[k].index = boundary + k
        /\ boundary + Len(replayed) = st.applied

\* Mutant: entries that the checkpoint covers are replayed on top of it.
recoverApplication_Replays(d, st) ==
    LET restored == IF recoveryBoundary(d, st) > 0 THEN d.snap.data ELSE <<>>
    IN  [st EXCEPT !.history = restored \o commandsOf(st.entries)]

recoverApplication(d, st) ==
    LET boundary == recoveryBoundary(d, st)
        restored == IF boundary > 0 THEN d.snap.data ELSE <<>>
    IN  [st EXCEPT !.history = restored \o commandsOf(entriesAbove(st.entries, boundary))]

\* resetElectionTimer and resetHeartbeatTimer.
rearm(t, n, e) ==
    [election |-> IF "election" \in e.timers THEN isVoter(n.membership, n.id)
                  ELSE t.election,
     heartbeat |-> "heartbeat" \in e.timers \/ t.heartbeat]

syncRoleTimers(t, before, after) ==
    [election |-> t.election /\ ~(before # Leader /\ after = Leader),
     heartbeat |-> t.heartbeat /\ ~(before = Leader /\ after # Leader)]

\* Router.Send: any of the messages may be lost.
Send(inFlight, messages) ==
    \E kept \in SUBSET messages :
        /\ net' = inFlight \cup kept
        /\ Cardinality(net') <= MaxInFlight

\* Mutant: entries are applied before the write that records their commit.
Submit_ApplyEarly(s, r, inFlight, t) ==
    /\ ~r.err
    /\ \A f \in Server : r.node.appendSequence[f] <= MaxSequence
    /\ node' = [node EXCEPT ![s] = r.node]
    /\ store' = [store EXCEPT ![s] = applyEffects(@, r.node, r.effects)]
    /\ timer' = [timer EXCEPT ![s] = syncRoleTimers(t, node[s].role, r.node.role)]
    /\ IF r.dirty
       THEN /\ pending' = [pending EXCEPT ![s] =
                [phase |-> "writing",
                 effects |-> [r.effects EXCEPT !.apply = {}, !.install = FALSE]]]
            /\ net' = inFlight
       ELSE Send(inFlight, r.effects.send) /\ UNCHANGED pending
    /\ UNCHANGED <<up, disk, crashes>>

\* Cluster.submit: run one transition of s, with inFlight what it leaves of
\* the network and t its timers.  A dirty transition waits for its write.
Submit(s, r, inFlight, t) ==
    /\ ~r.err
    /\ \A f \in Server : r.node.appendSequence[f] <= MaxSequence
    /\ node' = [node EXCEPT ![s] = r.node]
    /\ IF r.dirty
       THEN /\ pending' = [pending EXCEPT ![s] =
                                [phase |-> "writing", effects |-> r.effects]]
            /\ timer' = [timer EXCEPT ![s] =
                                syncRoleTimers(t, node[s].role, r.node.role)]
            /\ net' = inFlight
            /\ UNCHANGED store
       ELSE /\ store' = [store EXCEPT ![s] = applyEffects(@, r.node, r.effects)]
            /\ timer' = [timer EXCEPT ![s] =
                                syncRoleTimers(rearm(t, r.node, r.effects),
                                               node[s].role, r.node.role)]
            /\ Send(inFlight, r.effects.send)
            /\ UNCHANGED pending
    /\ UNCHANGED <<up, disk, crashes>>

Idle(s) == up[s] /\ pending[s] = NoPending
-----------------------------------------------------------------------------
(* Inputs.                                                                 *)

\* An election timer that fires on a leader is ignored, and is not rearmed.
ElectionTimeout(s) ==
    /\ Idle(s) /\ timer[s].election
    /\ LET fired == [timer[s] EXCEPT !.election = FALSE]
       IN  IF node[s].role = Leader
           THEN /\ timer' = [timer EXCEPT ![s] = fired]
                /\ UNCHANGED <<node, up, disk, store, pending, net, crashes>>
           ELSE Submit(s, electionTimeout(node[s]), net, fired)

HeartbeatTimeout(s) ==
    /\ Idle(s) /\ timer[s].heartbeat
    /\ node[s].role = Leader
    /\ Submit(s, heartbeatTimeout(node[s]), net,
              [timer[s] EXCEPT !.heartbeat = FALSE])

Receive(m) ==
    /\ Idle(m.to)
    /\ Submit(m.to, stepMessage(node[m.to], m), net \ {m}, timer[m.to])

\* A partition that cuts a packet in flight, or a receiver that is down.
Drop(m) ==
    /\ net' = net \ {m}
    /\ UNCHANGED <<node, up, disk, store, pending, timer, crashes>>

Propose(s, command) ==
    /\ Idle(s)
    /\ Submit(s, proposal(node[s], command), net, timer[s])

\* Cluster.snapshot: compact through the applied index.
Snapshot(s) ==
    /\ Idle(s) /\ s \in Compactor
    /\ Submit(s, takeSnapshot(node[s], store[s].applied, store[s].history), net, timer[s])

BeginMembershipChange(s, target) ==
    /\ Idle(s)
    /\ Submit(s, beginMembership(node[s], target[1], target[2]), net, timer[s])

FinalizeMembershipChange(s) ==
    /\ Idle(s)
    /\ Submit(s, finalizeMembership(node[s]), net, timer[s])
-----------------------------------------------------------------------------
(* The persistence barrier, crashes and restarts.                          *)

CompleteWrite(s) ==
    /\ up[s] /\ pending[s].phase = "writing"
    /\ disk' = [disk EXCEPT ![s] = persistentState(node[s])]
    /\ pending' = [pending EXCEPT ![s].phase = "written"]
    /\ UNCHANGED <<node, up, store, timer, net, crashes>>

AcknowledgeWrite(s) ==
    /\ up[s] /\ pending[s].phase = "written"
    /\ LET e == pending[s].effects
       IN  /\ store' = [store EXCEPT ![s] = applyEffects(@, node[s], e)]
           /\ timer' = [timer EXCEPT ![s] = rearm(@, node[s], e)]
           /\ Send(net, e.send)
    /\ pending' = [pending EXCEPT ![s] = NoPending]
    /\ UNCHANGED <<node, up, disk, crashes>>

\* The application is lost as well; nothing looks at store.history until
\* Restart replaces it.
Crash(s) ==
    /\ up[s] /\ crashes < MaxCrashes
    /\ crashes' = crashes + 1
    /\ up' = [up EXCEPT ![s] = FALSE]
    /\ node' = [node EXCEPT ![s] = New(s, disk[s], store[s].applied)]
    /\ pending' = [pending EXCEPT ![s] = NoPending]
    /\ timer' = [timer EXCEPT ![s] = NoTimers]
    /\ UNCHANGED <<disk, store, net>>

\* Cluster.start: the application recovers from the store before New runs.
\* (Of a cluster that is given an application: without one nothing is recovered,
\* and nothing is refused for it.)
Restart(s) ==
    /\ ~up[s]
    /\ recoverable(disk[s], store[s])
    /\ validate(disk[s], store[s].applied)
    /\ LET r == Start(node[s])
           recovered == recoverApplication(disk[s], store[s])
       IN  /\ node' = [node EXCEPT ![s] = r.node]
           /\ store' = [store EXCEPT ![s] = applyEffects(recovered, r.node, r.effects)]
           /\ timer' = [timer EXCEPT ![s] = rearm(@, r.node, r.effects)]
    /\ up' = [up EXCEPT ![s] = TRUE]
    /\ UNCHANGED <<disk, pending, net, crashes>>

Next ==
    \/ \E s \in Server :
        \/ ElectionTimeout(s) \/ HeartbeatTimeout(s)
        \/ CompleteWrite(s) \/ AcknowledgeWrite(s)
        \/ Crash(s) \/ Restart(s)
        \/ Snapshot(s) \/ FinalizeMembershipChange(s)
        \/ \E c \in Command : Propose(s, c)
        \/ \E t \in Target : BeginMembershipChange(s, t)
    \/ \E m \in net : Receive(m) \/ Drop(m)

Spec == Init /\ [][Next]_vars
=============================================================================
