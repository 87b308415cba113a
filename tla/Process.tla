------------------------------ MODULE Process ------------------------------
(***************************************************************************)
(* One process of the simulation harness (raftsim/cluster.go): its node,   *)
(* durable store and application, the callbacks it has scheduled with the  *)
(* simulator, and the mailbox that holds inputs while a write is pending.  *)
(* Raft.tla leaves an input where it is until the node is idle; here it is *)
(* accepted at once and executed later, against another role, another      *)
(* timer generation or another incarnation.                                *)
(*                                                                         *)
(* The node keeps what the harness can tell apart: its role, its snapshot, *)
(* its committed entries, and the write it waits for.  Peers are the       *)
(* messages they may send.  Latencies are arbitrary, so any scheduled      *)
(* callback may be the next to run.                                        *)
(***************************************************************************)
EXTENDS Application

CONSTANTS
  Commands,     \* what clients propose
  MaxInputs,    \* bound: messages and client calls
  MaxFaults,    \* bound: crashes
  MaxTimeouts   \* bound: timer callbacks that act

VARIABLES
  up, incarnation,
  node,         \* process.node
  disk,         \* process.store.State: [snap, log]
  store,        \* process.store: [applied, entries]
  app,          \* process.application
  mailbox,
  timers,       \* election and heartbeat: the event held and the generation
  write,        \* persistEvent, persistAckEvent and persistGeneration
  armed,        \* crashAfterPersist
  events,       \* callbacks scheduled with the simulator
  err,          \* Cluster.err, by the kind of its cause
  draining,     \* the acknowledgement callback is in the loop of drain
  budget        \* what may still happen: [inputs, faults, timeouts]

process == <<up, incarnation, node, disk, store, app, mailbox, timers, write, armed, events>>
vars == <<process, err, draining, budget>>

Kinds == {"election", "heartbeat"}
NoError == "none"
NoSnapshot == [index |-> 0, data |-> Checkpoint(Empty)]

\* raft.New from durable state.
Fresh(d, applied) ==
  [role |-> "follower", voter |-> TRUE, snap |-> d.snap, log |-> d.log,
   applied |-> applied, pending |-> FALSE, effects |-> {}, token |-> 0]

lastIndex(n) == n.snap.index + Len(n.log)

\* The entries of n above index i; every entry of the node is committed.
entriesAbove(n, i) ==
  [k \in 1..(lastIndex(n) - i) |-> [index |-> i + k, command |-> n.log[i + k - n.snap.index]]]
-----------------------------------------------------------------------------
(* Node.Step, with the choices the rest of the cluster makes for it: each   *)
(* outcome is the node after the transition, whether it is dirty, and the  *)
(* timers it resets.  Applying follows from the entries.                   *)

Outcome(n, dirty, resets) == [node |-> n, dirty |-> dirty, resets |-> resets, ok |-> TRUE]
Refused(n) == [node |-> n, dirty |-> FALSE, resets |-> {}, ok |-> FALSE]

append(n, command) == [n EXCEPT !.log = Append(@, command), !.applied = lastIndex(n) + 1]
lead(n) == append([n EXCEPT !.role = "leader"], <<>>)
follow(n) == [n EXCEPT !.role = "follower"]

\* A leader's snapshot that extends the log by one command.
installed(n, c) ==
  [index |-> lastIndex(n) + 1, data |-> Checkpoint(applyCanonical(app, c))]

NodeStep(n, q) ==
  CASE n.pending -> {Refused(n)}                            \* ErrAwaitingPersistence
    [] q.kind = "election" ->
         IF ~n.voter THEN {Outcome(n, FALSE, {})}
         ELSE {Outcome([n EXCEPT !.role = "candidate"], TRUE, {"election"}),
               Outcome(lead(n), TRUE, Kinds)}               \* the only voter
    [] q.kind = "heartbeat" ->
         {Outcome(n, FALSE, IF n.role = "leader" THEN {"heartbeat"} ELSE {})}
    [] q.kind = "vote" ->
         {IF n.role = "candidate" THEN Outcome(lead(n), TRUE, {"heartbeat"}) ELSE Outcome(n, FALSE, {})}
    [] q.kind = "higher term" -> {Outcome(follow(n), TRUE, {})}
    [] q.kind = "append" ->
         {Outcome(follow(n), FALSE, {"election"}),
          Outcome(append(follow(n), <<q.arg>>), TRUE, {"election"}),
          Outcome(append([follow(n) EXCEPT !.voter = ~@], <<>>), TRUE, {"election"})}
    [] q.kind = "install" ->
         IF ~accepts(app, q.arg) THEN {Outcome(follow(n), FALSE, {"election"})}
         ELSE {Outcome([follow(n) EXCEPT !.snap = installed(n, q.arg), !.log = <<>>,
                                         !.applied = lastIndex(n) + 1], TRUE, {"election"})}
    [] q.kind = "proposal" ->
         IF n.role # "leader" THEN {Refused(n)} ELSE {Outcome(append(n, <<q.arg>>), TRUE, {})}
    [] q.kind = "snapshot" ->
         IF q.arg.index = 0 \/ q.arg.index <= n.snap.index \/ q.arg.index > n.applied THEN {Refused(n)}
         ELSE {Outcome([n EXCEPT !.snap = q.arg,
                                 !.log = SubSeq(@, q.arg.index - n.snap.index + 1, Len(@))], TRUE, {})}
-----------------------------------------------------------------------------
(* Timers and the persistence barrier.                                     *)

\* What a scheduled callback has captured.
callback(kind, generation, token) ==
  [kind |-> kind, incarnation |-> incarnation, generation |-> generation, token |-> token]

held(event, generation) == [event |-> event, generation |-> generation]

\* resetElectionTimer and resetHeartbeatTimer: cancel what is held, and
\* schedule anew under a new generation; only voters time out elections.
reset(t, kinds, voter) ==
  [k \in Kinds |-> CASE k \notin kinds -> t[k]
                     [] k = "election" /\ ~voter -> held(0, t[k].generation)
                     [] OTHER -> held(t[k].generation + 1, t[k].generation + 1)]

\* syncRoleTimers: a change of leadership cancels the other role's timer.
syncRoleTimers(t, before, after) ==
  LET stopped == {k \in Kinds : /\ t[k].event # 0
                                /\ \/ k = "election" /\ before # "leader" /\ after = "leader"
                                   \/ k = "heartbeat" /\ before = "leader" /\ after # "leader"}
  IN [k \in Kinds |-> IF k \in stopped THEN held(0, t[k].generation + 1) ELSE t[k]]

\* The callbacks that remain scheduled when the timers t become t2: Cancel
\* removes the one held, a reset adds one.
rescheduled(evs, t, t2) ==
  LET changed == {k \in Kinds : t2[k] # t[k]}
  IN (evs \ {callback(k, t[k].event, 0) : k \in changed})
       \cup {callback(k, t2[k].generation, 0) : k \in {k \in changed : t2[k].event # 0}}

\* EffectPersist: one write at a time, completed under a new generation.
Overlaps == write.persist # 0 \/ write.ack # 0
started == [persist |-> write.generation + 1, ack |-> 0, generation |-> write.generation + 1]

\* The entries above index i, in their order.
laterThan(entries, i) ==
  LET kept[k \in 0..Len(entries)] ==
        IF k = 0 THEN <<>>
        ELSE IF entries[k].index > i THEN Append(kept[k - 1], entries[k]) ELSE kept[k - 1]
  IN kept[Len(entries)]

\* EffectInstallSnapshot and EffectApply of a released transition, in order;
\* the first failure stops them.
release(n, st, a) ==
  LET install == n.snap.index > st.applied
      restored == Restore(n.snap.data)
      st1 == IF install
             THEN [applied |-> n.snap.index, entries |-> laterThan(st.entries, n.snap.index)]
             ELSE st
      a1 == IF install THEN restored.machine ELSE a
      entries == entriesAbove(n, st1.applied)
      r == ReplayEntries(a1, entries)
  IN IF install /\ ~restored.ok THEN [ok |-> FALSE, app |-> a, store |-> st]
     ELSE [ok |-> r.ok, app |-> r.machine,
           store |-> [applied |-> st1.applied + r.done, entries |-> st1.entries \o SubSeq(entries, 1, r.done)]]

\* A recovery that trusts the durable snapshot whether or not it was applied.
recoverUnapplied(d, st) ==
  LET base == Restore(d.snap.data)
      tail == laterThan(st.entries, d.snap.index)
      replay == ReplayEntries(base.machine, tail)
  IN [ok |-> base.ok /\ replay.ok /\ d.snap.index + Len(tail) = st.applied, machine |-> replay.machine]

\* recoverApplication: the durable snapshot if it has been applied, then the
\* applied entries without a gap.
recoverApplication(d, st) ==
  LET covered == d.snap.index > 0 /\ d.snap.index <= st.applied
      boundary == IF covered THEN d.snap.index ELSE 0
      base == IF covered THEN Restore(d.snap.data) ELSE [ok |-> TRUE, machine |-> Empty]
      tail == laterThan(st.entries, boundary)
      replay == ReplayEntries(base.machine, tail)
  IN [ok |-> /\ base.ok /\ replay.ok
             /\ \A k \in DOMAIN tail : tail[k].index = boundary + k /\ tail[k].index <= st.applied
             /\ boundary + Len(tail) = st.applied,
      machine |-> replay.machine]
-----------------------------------------------------------------------------
(* Cluster.submit.                                                         *)

input(kind, generation, arg) ==
  [kind |-> kind, incarnation |-> incarnation, generation |-> generation, arg |-> arg]

\* A mailbox that only remembers which incarnation queued an input.
queuedInputIsAlive(q, t) == q.incarnation = incarnation

queuedInputIsCurrent(q, t) ==
  /\ q.incarnation = incarnation
  /\ q.kind = "election" => q.generation = t["election"].generation /\ node.role # "leader"
  /\ q.kind = "heartbeat" => q.generation = t["heartbeat"].generation /\ node.role = "leader"

Ignore(t, evs) == timers' = t /\ events' = evs /\ UNCHANGED <<node, write, err>>

\* One transition and its effects.  A dirty one starts a write and keeps its
\* other effects; a refusal is the caller's: a callback fails the cluster, a
\* client gets it back.
Execute(q, t, evs, refusal) ==
  \E o \in NodeStep(node, q) :
    LET t1 == IF o.dirty THEN t ELSE reset(t, o.resets, o.node.voter)
        t2 == syncRoleTimers(t1, node.role, o.node.role)
    IN IF ~o.ok \/ (o.dirty /\ Overlaps)
       THEN /\ err' = IF o.ok THEN "overlap" ELSE refusal
            /\ timers' = t /\ events' = evs
            /\ UNCHANGED <<node, write>>
       ELSE /\ timers' = t2
            /\ IF o.dirty
               THEN /\ node' = [o.node EXCEPT !.pending = TRUE, !.effects = o.resets, !.token = @ + 1]
                    /\ write' = started
                    /\ events' = rescheduled(evs, t, t2)
                                   \cup {callback("persist", started.generation, node.token + 1)}
               ELSE node' = o.node /\ events' = rescheduled(evs, t, t2) /\ UNCHANGED write
            /\ UNCHANGED err

\* A harness without a mailbox.
submitNow(q, t, evs, refusal) == UNCHANGED mailbox /\ Execute(q, t, evs, refusal)

\* Queue while a write is pending; ignore what is no longer current.
submit(q, t, evs, refusal) ==
  IF node.pending
  THEN mailbox' = Append(mailbox, q) /\ Ignore(t, evs)
  ELSE /\ UNCHANGED mailbox
       /\ IF queuedInputIsCurrent(q, t) THEN Execute(q, t, evs, refusal) ELSE Ignore(t, evs)

Running == err = NoError /\ ~draining
Spend(kind) == budget[kind] > 0 /\ budget' = [budget EXCEPT ![kind] = @ - 1]
-----------------------------------------------------------------------------
(* What other actors do.                                                   *)

Init ==
  /\ up = TRUE /\ incarnation = 1
  /\ disk = [snap |-> NoSnapshot, log |-> <<>>]
  /\ node = Fresh(disk, 0)
  /\ store = [applied |-> 0, entries |-> <<>>]
  /\ app = Empty
  /\ mailbox = <<>>
  /\ timers = [k \in Kinds |-> IF k = "election" THEN held(1, 1) ELSE held(0, 0)]
  /\ write = [persist |-> 0, ack |-> 0, generation |-> 0]
  /\ armed = FALSE
  /\ events = {callback("election", 1, 0)}
  /\ err = NoError
  /\ draining = FALSE
  /\ budget = [inputs |-> MaxInputs, faults |-> MaxFaults, timeouts |-> MaxTimeouts]

\* The router delivers a message; a process that is down drops it.
Receive(kind, arg) ==
  /\ Running /\ Spend("inputs")
  /\ IF up THEN submit(input(kind, 0, arg), timers, events, "input")
     ELSE UNCHANGED <<mailbox, node, timers, write, events, err>>
  /\ UNCHANGED <<up, incarnation, disk, store, app, armed, draining>>

\* ProposeTo: only a live leader takes a proposal, and only a well-formed one.
Propose(c) ==
  /\ Running /\ Spend("inputs")
  /\ up /\ node.role = "leader" /\ validateCommand(c)
  /\ submit(input("proposal", 0, c), timers, events, NoError)
  /\ UNCHANGED <<up, incarnation, disk, store, app, armed, draining>>

\* SnapshotApplication: the checkpoint is taken now, and bound to the index
\* that is applied now.
SnapshotApplication ==
  /\ Running /\ Spend("inputs")
  /\ up
  /\ submit(input("snapshot", 0, [index |-> store.applied, data |-> Checkpoint(app)]),
            timers, events, NoError)
  /\ UNCHANGED <<up, incarnation, disk, store, app, armed, draining>>
-----------------------------------------------------------------------------
(* The callbacks of the simulator.                                         *)

\* The callback of a timer.  One of another incarnation, generation or role
\* does nothing, and leaves the event held as it is.
Fire(e) ==
  /\ Running /\ e.kind \in Kinds
  /\ IF /\ up /\ e.incarnation = incarnation
        /\ e.generation = timers[e.kind].generation
        /\ node.role = "leader" <=> e.kind = "heartbeat"
     THEN /\ Spend("timeouts")
          /\ submit(input(e.kind, e.generation, 0), [timers EXCEPT ![e.kind].event = 0],
                    events \ {e}, "input")
     ELSE /\ events' = events \ {e}
          /\ UNCHANGED <<mailbox, node, timers, write, err, budget>>
  /\ UNCHANGED <<up, incarnation, disk, store, app, armed, draining>>

\* Crash: the volatile state and the mailbox are lost, and every callback is
\* cancelled and outdated.
Crash ==
  /\ up' = FALSE
  /\ incarnation' = incarnation + 1
  /\ mailbox' = <<>>
  /\ armed' = FALSE
  /\ timers' = [k \in Kinds |-> held(0, timers[k].generation + 1)]
  /\ write' = [persist |-> 0, ack |-> 0, generation |-> write.generation + 1]
  /\ node' = Fresh(disk', store.applied)               \* nil until the next start
  /\ app' = Empty
  /\ UNCHANGED store

\* cancelProcessEvents: the events that are held.
uncancelled(evs) ==
  {e \in evs : \/ e.incarnation # incarnation
               \/ e.kind \in Kinds /\ e.generation # timers[e.kind].event
               \/ e.kind = "persist" /\ e.generation # write.persist
               \/ e.kind = "ack" /\ e.generation # write.ack}

\* Is e, a storage callback, still the one the process waits for?
expects(e) == up /\ e.incarnation = incarnation /\ e.generation = write.generation

\* The durable write completes: a crash may have been armed for this moment,
\* otherwise its acknowledgement is scheduled.
CompleteWrite(e) ==
  /\ Running /\ e.kind = "persist"
  /\ IF expects(e)
     THEN /\ disk' = [snap |-> node.snap, log |-> node.log]
          /\ IF armed
             THEN Crash /\ events' = uncancelled(events \ {e})
             ELSE /\ write' = [write EXCEPT !.persist = 0, !.ack = write.generation]
                  /\ events' = (events \ {e}) \cup {callback("ack", e.generation, e.token)}
                  /\ UNCHANGED <<up, incarnation, mailbox, armed, timers, node, app, store>>
     ELSE /\ events' = events \ {e}
          /\ UNCHANGED <<up, incarnation, node, disk, store, app, mailbox, timers, write, armed>>
  /\ UNCHANGED <<err, draining, budget>>

\* The acknowledgement releases what the write held back, then drains.
Acknowledge(e) ==
  /\ Running /\ e.kind = "ack"
  /\ IF ~expects(e)
     THEN /\ events' = events \ {e}
          /\ UNCHANGED <<node, store, app, timers, write, err, draining>>
     ELSE LET r == release(node, store, app)
              t == reset(timers, node.effects, node.voter)
              matches == node.pending /\ e.token = node.token
              done == matches /\ r.ok
          IN /\ write' = [write EXCEPT !.ack = 0]
             /\ err' = CASE ~matches -> "token" [] matches /\ ~r.ok -> "apply" [] OTHER -> err
             /\ node' = IF matches THEN [node EXCEPT !.pending = FALSE, !.effects = {}] ELSE node
             /\ store' = IF matches THEN r.store ELSE store
             /\ app' = IF matches THEN r.app ELSE app
             /\ timers' = IF done THEN t ELSE timers
             /\ events' = IF done THEN rescheduled(events \ {e}, timers, t) ELSE events \ {e}
             /\ draining' = done
  /\ UNCHANGED <<up, incarnation, disk, mailbox, armed, budget>>

\* An acknowledgement that leaves the mailbox to the next one.
drainOne ==
  /\ draining /\ err = NoError
  /\ draining' = FALSE
  /\ IF node.pending \/ mailbox = <<>> THEN UNCHANGED <<mailbox, node, timers, write, events, err>>
     ELSE /\ mailbox' = Tail(mailbox)
          /\ IF queuedInputIsCurrent(Head(mailbox), timers)
             THEN Execute(Head(mailbox), timers, events, "client") ELSE Ignore(timers, events)
  /\ UNCHANGED <<up, incarnation, disk, store, app, armed, budget>>

\* drain: inputs leave the mailbox until one starts a write.
drain ==
  /\ draining /\ err = NoError
  /\ IF node.pending \/ mailbox = <<>>
     THEN draining' = FALSE /\ UNCHANGED <<mailbox, node, timers, write, events, err>>
     ELSE LET q == Head(mailbox)
          IN /\ mailbox' = Tail(mailbox)
             /\ IF queuedInputIsCurrent(q, timers)
                THEN Execute(q, timers, events, IF q.kind \in {"proposal", "snapshot"} THEN "client" ELSE "input")
                ELSE Ignore(timers, events)
             /\ UNCHANGED draining
  /\ UNCHANGED <<up, incarnation, disk, store, app, armed, budget>>
-----------------------------------------------------------------------------
(* Faults.                                                                 *)

CrashNow ==
  /\ Running /\ up /\ Spend("faults")
  /\ UNCHANGED disk
  /\ Crash
  /\ events' = uncancelled(events)
  /\ UNCHANGED <<err, draining>>

CrashAfterNextPersist ==
  /\ Running /\ up /\ ~armed /\ Spend("faults")
  /\ armed' = TRUE
  /\ UNCHANGED <<up, incarnation, node, disk, store, app, mailbox, timers, write, events, err, draining>>

\* Restart: a fresh follower from durable storage, whose Start releases what
\* was durable but not applied and arms the election timer.  A restart that
\* fails is reported to the caller and leaves the process down.
Restart ==
  LET recovered == recoverApplication(disk, store)
      n == Fresh(disk, lastIndex(disk))
      r == release(n, store, recovered.machine)
      t == reset(timers, {"election"}, TRUE)
  IN /\ Running /\ ~up
     /\ recovered.ok /\ r.ok
     /\ up' = TRUE
     /\ node' = n /\ app' = r.app /\ store' = r.store
     /\ timers' = t /\ events' = rescheduled(events, timers, t)
     /\ UNCHANGED <<incarnation, disk, mailbox, write, armed, err, draining, budget>>
-----------------------------------------------------------------------------
Next ==
  \/ \E kind \in {"vote", "higher term"} : Receive(kind, 0)
  \/ \E kind \in {"append", "install"}, c \in Commands : Receive(kind, c)
  \/ \E c \in Commands : Propose(c)
  \/ SnapshotApplication
  \/ \E e \in events : Fire(e)
  \/ \E e \in events : CompleteWrite(e)
  \/ \E e \in events : Acknowledge(e)
  \/ drain
  \/ CrashNow
  \/ CrashAfterNextPersist
  \/ Restart

\* The simulator runs every storage callback it holds, and a callback runs to
\* its end: weak fairness of both, with ENABLED written out.
StorageCallback == \E e \in events : CompleteWrite(e) \/ Acknowledge(e)
StorageReady == Running /\ \E e \in events : e.kind \in {"persist", "ack"}

Fairness ==
  /\ []<>~StorageReady \/ []<><<StorageCallback>>_vars
  /\ []<>~(draining /\ err = NoError) \/ []<><<drain>>_vars

Spec == Init /\ [][Next]_vars
FairSpec == Spec /\ Fairness
-----------------------------------------------------------------------------
(* A timeout that waited in the mailbox while its timer was armed again,   *)
(* or armed and cancelled, leaves it without effect: what the timer was    *)
(* reset for (an append, a granted vote, a change of leadership) would     *)
(* otherwise be answered by a needless election or a heartbeat of a leader *)
(* that is none (queuedInputIsCurrent, which compares generations only).   *)
Outdated(q) ==
  q.kind \in Kinds /\ (timers[q.kind].event # 0 \/ timers[q.kind].generation # q.generation)

NoStaleTimeout ==
  [][draining /\ mailbox # <<>> /\ Outdated(Head(mailbox))
       => UNCHANGED <<node, timers, write, events, err>>]_vars

(* The cluster fails only because of a client: a request accepted while a  *)
(* write was pending that can no longer be executed, or a command          *)
(* identifier that was used twice.  Never by overlapping writes, a write   *)
(* acknowledged with the wrong token, or an input while one is pending     *)
(* (submit, processEffects, drain).                                        *)
OnlyRequestsFail == err \in {NoError, "client", "apply"}

(* At every moment the durable store rebuilds the application: what a      *)
(* crash would leave is the machine the live process has, also between the *)
(* write of a snapshot and its acknowledgement.  The one exception is the  *)
(* failure the recovery run exhibits: a durable snapshot that is not yet   *)
(* applied, over applied entries that an earlier one has cut               *)
(* (recoverApplication, processEffects).                                   *)
ApplicationIsRecoverable ==
  LET r == recoverApplication(disk, store)
      whole == Len(store.entries) = store.applied
  IN (disk.snap.index <= store.applied \/ whole) =>
       /\ r.ok
       /\ up => Commitment(r.machine) = Commitment(app)

(* An input that waits behind a write is taken up: the mailbox empties,    *)
(* unless the cluster fails (drain after the acknowledgement).             *)
MailboxDrains == mailbox # <<>> ~> mailbox = <<>> \/ err # NoError
=============================================================================
