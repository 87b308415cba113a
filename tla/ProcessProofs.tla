--------------------------- MODULE ProcessProofs ---------------------------
(***************************************************************************)
(* Three safety properties of the harness process, for every set of        *)
(* commands and every bound: the cluster never fails because of its own    *)
(* bookkeeping, no outdated timeout leaves the mailbox with an effect, and  *)
(* no crash loses what the application executed.                           *)
(*                                                                         *)
(* None is inductive.  The first needs the barrier: the node waits for a   *)
(* write exactly while one storage callback is outstanding, and of all the *)
(* storage callbacks still scheduled (those of crashed incarnations stay   *)
(* with the simulator) only that one passes the test the callback makes,   *)
(* and it carries the token the node waits for.  The second needs to know  *)
(* of every queued timeout that its generation can only be the current one *)
(* while its timer is not armed.                                           *)
(*                                                                         *)
(* The third needs one machine that everything durable agrees on: all the  *)
(* applied entries rebuild it, and so does each snapshot that the applied  *)
(* index has reached, with the entries above it, be it durable, still      *)
(* being written or waiting in the mailbox.  That machine is what the      *)
(* application holds while the process is up, and what the next start has  *)
(* to find while it is down.                                               *)
(***************************************************************************)
EXTENDS Process, SequenceTheorems, WellFoundedInduction, TLAPS

StorageKinds == {"persist", "ack"}
ClientKinds == {"proposal", "snapshot"}
InputKinds == Kinds \cup ClientKinds \cup {"vote", "higher term", "append", "install"}

NodeFields == {"role", "voter", "snap", "log", "applied", "pending", "effects", "token"}
TimersType == [Kinds -> [event : Nat, generation : Nat]]
EventType == [kind : Kinds \cup StorageKinds, incarnation : Nat, generation : Nat, token : Nat]

\* What the proofs need of the shape of a node; the rest of it is free.
NodeShape(n) == DOMAIN n = NodeFields /\ n.pending \in BOOLEAN /\ n.token \in Nat

IsSequence(m) == \E S : m \in Seq(S)
Queued(m) == {m[k] : k \in 1..Len(m)}

Shapes ==
  /\ up \in BOOLEAN /\ draining \in BOOLEAN /\ incarnation \in Nat
  /\ NodeShape(node)
  /\ timers \in TimersType
  /\ write \in [persist : Nat, ack : Nat, generation : Nat]
  /\ events \subseteq EventType
  /\ IsSequence(mailbox)
  /\ \A q \in Queued(mailbox) : q.kind \in InputKinds /\ (q.kind \in Kinds => q.generation \in Nat)

\* The node waits exactly while one storage callback is outstanding, and a
\* process that is down has none.
OneWrite ==
  /\ write.persist # 0 => write.persist = write.generation /\ write.ack = 0
  /\ write.ack # 0 => write.ack = write.generation /\ write.persist = 0
  /\ node.pending <=> write.persist # 0 \/ write.ack # 0
  /\ ~up => ~node.pending

\* Only a live process drains its mailbox.
DrainsUp == draining => up

\* A storage callback that would pass its test is the outstanding one.
OneCallback ==
  \A e \in events :
    /\ e.incarnation <= incarnation
    /\ e.kind \in StorageKinds /\ e.incarnation = incarnation =>
         /\ e.generation <= write.generation
         /\ e.generation = write.generation =>
              /\ e.kind = "persist" => write.persist # 0
              /\ e.kind = "ack" => write.ack # 0
              /\ e.token = node.token

\* A queued timeout is of an earlier generation, or the timer that fired it is
\* the last one of its kind and nothing is armed.
Spent(q, t) ==
  /\ q.generation <= t[q.kind].generation
  /\ q.generation = t[q.kind].generation => t[q.kind].event = 0

QueuedTimeouts == \A q \in Queued(mailbox) : q.kind \in Kinds => Spent(q, timers)

Inv == Shapes /\ OneWrite /\ DrainsUp /\ OneCallback /\ QueuedTimeouts /\ OnlyRequestsFail
-----------------------------------------------------------------------------
(* A mailbox stays a sequence, and gains only what is queued.              *)

\* Appending to a mailbox.
LEMMA MailboxAppend ==
  ASSUME NEW m, NEW q, IsSequence(m)
  PROVE  IsSequence(Append(m, q)) /\ Queued(Append(m, q)) \subseteq Queued(m) \cup {q}
<1>1. PICK S : m \in Seq(S)
  BY DEF IsSequence
<1> DEFINE T == S \cup {q}
<1>2. m \in Seq(T)
  BY <1>1, SeqMonotonic
<1>3. /\ Append(m, q) \in Seq(T) /\ Len(m) \in Nat
      /\ Len(Append(m, q)) = Len(m) + 1
      /\ \A k \in 1..Len(m) + 1 : Append(m, q)[k] = IF k <= Len(m) THEN m[k] ELSE q
  BY <1>2, AppendProperties, LenProperties
<1> QED BY <1>3 DEF IsSequence, Queued

\* Taking the first input out of a mailbox.
LEMMA MailboxTail ==
  ASSUME NEW m, IsSequence(m), m # <<>>
  PROVE  /\ IsSequence(Tail(m)) /\ Queued(Tail(m)) \subseteq Queued(m)
         /\ Head(m) \in Queued(m)
<1>1. PICK S : m \in Seq(S)
  BY DEF IsSequence
<1>2. /\ Tail(m) \in Seq(S) /\ Len(m) \in Nat \ {0}
      /\ Len(Tail(m)) = Len(m) - 1
      /\ \A k \in 1..Len(Tail(m)) : Tail(m)[k] = m[k + 1]
  BY <1>1, HeadTailProperties, LenProperties, EmptySeq
<1>3. Head(m) = m[1]
  BY <1>1, <1>2
<1> QED BY <1>2, <1>3 DEF IsSequence, Queued
-----------------------------------------------------------------------------
(* Timers: every change is an advance, which keeps queued timeouts spent.  *)

\* A timer moves to a later generation, keeps its event or loses it.
Advances(t, t2) ==
  /\ t2 \in TimersType
  /\ \A k \in Kinds : \/ t2[k].generation > t[k].generation
                      \/ t2[k].generation = t[k].generation /\ t2[k].event \in {0, t[k].event}

\* Two advances make one.
LEMMA AdvancesTransitive ==
  ASSUME NEW t \in TimersType, NEW t1, NEW t2, Advances(t, t1), Advances(t1, t2)
  PROVE  Advances(t, t2)
BY DEF Advances, TimersType, Kinds

\* resetElectionTimer and resetHeartbeatTimer.
LEMMA ResetAdvances ==
  ASSUME NEW t \in TimersType, NEW kinds, NEW voter
  PROVE  Advances(t, reset(t, kinds, voter))
BY DEF Advances, TimersType, Kinds, reset, held

\* syncRoleTimers.
LEMMA SyncAdvances ==
  ASSUME NEW t \in TimersType, NEW before, NEW after
  PROVE  Advances(t, syncRoleTimers(t, before, after))
BY DEF Advances, TimersType, Kinds, syncRoleTimers, held

\* A timeout that is spent stays spent.
LEMMA SpentStays ==
  ASSUME NEW t \in TimersType, NEW t2, Advances(t, t2), NEW q, q.kind \in Kinds, q.generation \in Nat, Spent(q, t)
  PROVE  Spent(q, t2)
BY DEF Advances, TimersType, Kinds, Spent
-----------------------------------------------------------------------------
(* The storage callbacks are not touched by what timers do.                *)

Storage(evs) == {e \in evs : e.kind \in StorageKinds}

\* Rescheduling timers adds timer callbacks of the present incarnation and
\* removes timer callbacks.
LEMMA RescheduledType ==
  ASSUME NEW evs, evs \subseteq EventType, incarnation \in Nat,
         NEW t \in TimersType, NEW t2 \in TimersType
  PROVE  /\ rescheduled(evs, t, t2) \subseteq EventType
         /\ Storage(rescheduled(evs, t, t2)) = Storage(evs)
         /\ \A e \in rescheduled(evs, t, t2) : e \in evs \/ e.incarnation = incarnation
BY DEF EventType, TimersType, Kinds, StorageKinds, Storage, rescheduled, callback

\* What a transition may do to a node that is idle.
Moves(n, k) == NodeShape(k) /\ ~k.pending /\ k.token = n.token

\* Changing nothing, becoming a follower, a candidate, and the leader.
LEMMA MovesRole ==
  ASSUME NEW n, NodeShape(n), ~n.pending
  PROVE  /\ Moves(n, n) /\ Moves(n, follow(n)) /\ Moves(n, [n EXCEPT !.role = "leader"])
         /\ Moves(n, [n EXCEPT !.role = "candidate"])
BY DEF Moves, NodeShape, NodeFields, follow

\* The other assignments.
LEMMA MovesData ==
  ASSUME NEW n, NodeShape(n), ~n.pending, NEW v, NEW c, NEW x, NEW l, NEW a
  PROVE  /\ Moves(n, [n EXCEPT !.voter = v]) /\ Moves(n, append(n, c))
         /\ Moves(n, [n EXCEPT !.snap = x, !.log = l, !.applied = a])
         /\ Moves(n, [n EXCEPT !.snap = x, !.log = l])
BY DEF Moves, NodeShape, NodeFields, append

\* Two in a row.
LEMMA MovesTransitive ==
  ASSUME NEW n, NEW k, NEW l, Moves(n, k), Moves(k, l)
  PROVE  Moves(n, l)
BY DEF Moves

\* A transition refuses clients only.
Answers(n, q, o) ==
  /\ Moves(n, o.node)
  /\ o.ok \in BOOLEAN /\ o.dirty \in BOOLEAN
  /\ q.kind \notin ClientKinds => o.ok

\* A transition that is no refusal.
LEMMA OutcomeAnswers ==
  ASSUME NEW n, NEW k, Moves(n, k), NEW d \in BOOLEAN, NEW r, NEW q
  PROVE  Answers(n, q, Outcome(k, d, r))
<1> DEFINE o == Outcome(k, d, r)
<1>1. o.node = k /\ o.dirty = d /\ o.ok = TRUE
  BY DEF Outcome
<1> QED BY <1>1 DEF Answers

\* A refusal.
LEMMA RefusedAnswers ==
  ASSUME NEW n, Moves(n, n), NEW q, q.kind \in ClientKinds
  PROVE  Answers(n, q, Refused(n))
<1> DEFINE o == Refused(n)
<1>1. o.node = n /\ o.dirty = FALSE /\ o.ok = FALSE
  BY DEF Refused
<1> QED BY <1>1 DEF Answers

\* One transition of an idle node.
LEMMA NodeStepMoves ==
  ASSUME NEW n, NodeShape(n), ~n.pending, NEW q, q.kind \in InputKinds, NEW o \in NodeStep(n, q)
  PROVE  Answers(n, q, o)
<1>1. Moves(n, n) /\ Moves(n, follow(n)) /\ Moves(n, [n EXCEPT !.role = "candidate"])
  BY MovesRole
<1>2. NodeShape(follow(n)) /\ ~follow(n).pending
  BY <1>1 DEF Moves
<1>3. Moves(n, lead(n))
  <2> DEFINE k == [n EXCEPT !.role = "leader"]
  <2>1. Moves(n, k)
    BY MovesRole
  <2>2. Moves(k, append(k, <<>>))
    BY <2>1, MovesData DEF Moves
  <2> QED BY <2>1, <2>2, MovesTransitive DEF lead
<1>4. CASE q.kind = "election"
  <2>1. o \in {Outcome(n, FALSE, {}), Outcome([n EXCEPT !.role = "candidate"], TRUE, {"election"}),
               Outcome(lead(n), TRUE, Kinds)}
    BY <1>4 DEF NodeStep
  <2>2. Answers(n, q, Outcome([n EXCEPT !.role = "candidate"], TRUE, {"election"}))
    BY <1>1, OutcomeAnswers
  <2>3. Answers(n, q, Outcome(n, FALSE, {})) /\ Answers(n, q, Outcome(lead(n), TRUE, Kinds))
    BY <1>1, <1>3, OutcomeAnswers
  <2> QED BY <2>1, <2>2, <2>3
<1>5. CASE q.kind = "heartbeat"
  BY <1>5, <1>1, OutcomeAnswers DEF NodeStep
<1>6. CASE q.kind = "vote"
  <2>1. o \in {Outcome(lead(n), TRUE, {"heartbeat"}), Outcome(n, FALSE, {})}
    BY <1>6 DEF NodeStep
  <2> QED BY <2>1, <1>1, <1>3, OutcomeAnswers
<1>7. CASE q.kind = "higher term"
  BY <1>7, <1>1, OutcomeAnswers DEF NodeStep
<1>8. CASE q.kind = "append"
  <2>1. o \in {Outcome(follow(n), FALSE, {"election"}),
               Outcome(append(follow(n), <<q.arg>>), TRUE, {"election"}),
               Outcome(append([follow(n) EXCEPT !.voter = ~@], <<>>), TRUE, {"election"})}
    BY <1>8 DEF NodeStep
  <2>2. Moves(n, append(follow(n), <<q.arg>>))
    BY <1>1, <1>2, MovesData, MovesTransitive
  <2> DEFINE k == [follow(n) EXCEPT !.voter = ~@]
  <2>3. Moves(follow(n), k)
    BY <1>2, MovesData
  <2>4. Moves(k, append(k, <<>>))
    BY <2>3, MovesData, ZenonT(40) DEF Moves
  <2>5. Moves(n, append(k, <<>>))
    BY <1>1, <2>3, <2>4, MovesTransitive
  <2> QED BY <2>1, <2>2, <2>5, <1>1, OutcomeAnswers
<1>9. CASE q.kind = "install"
  <2> DEFINE k == [follow(n) EXCEPT !.snap = installed(n, q.arg), !.log = <<>>, !.applied = lastIndex(n) + 1]
  <2>1. o \in {Outcome(follow(n), FALSE, {"election"}), Outcome(k, TRUE, {"election"})}
    BY <1>9 DEF NodeStep
  <2>2. Moves(n, k)
    BY <1>1, <1>2, MovesData, MovesTransitive
  <2> QED BY <2>1, <2>2, <1>1, OutcomeAnswers
<1>10. CASE q.kind = "proposal"
  <2>1. o \in {Refused(n), Outcome(append(n, <<q.arg>>), TRUE, {})}
    BY <1>10 DEF NodeStep
  <2>2. Moves(n, append(n, <<q.arg>>))
    BY MovesData
  <2>3. Answers(n, q, Refused(n))
    BY <1>1, <1>10, RefusedAnswers DEF ClientKinds
  <2> QED BY <2>1, <2>2, <2>3, OutcomeAnswers
<1>11. CASE q.kind = "snapshot"
  <2> DEFINE k == [n EXCEPT !.snap = q.arg, !.log = SubSeq(@, q.arg.index - n.snap.index + 1, Len(@))]
  <2>1. o \in {Refused(n), Outcome(k, TRUE, {})}
    BY <1>11 DEF NodeStep
  <2>2. Moves(n, k)
    BY MovesData
  <2>3. Answers(n, q, Refused(n))
    BY <1>1, <1>11, RefusedAnswers DEF ClientKinds
  <2>4. Answers(n, q, Outcome(k, TRUE, {}))
    BY <2>2, OutcomeAnswers
  <2> QED BY <2>1, <2>3, <2>4
<1> QED
  BY <1>4, <1>5, <1>6, <1>7, <1>8, <1>9, <1>10, <1>11 DEF InputKinds, Kinds, ClientKinds
-----------------------------------------------------------------------------
(* One transition and its effects.                                         *)

\* What the callbacks in events owe the process: the whole of OneCallback
\* about the callbacks that were there, and shapes.
Callbacks(evs) == evs \subseteq EventType /\ Storage(evs) \subseteq Storage(events)
                  /\ \A e \in evs : e.incarnation <= incarnation

\* The parts of the invariant a transition touches.
Barrier == Shapes /\ OneWrite /\ OneCallback

\* An input executed by an idle, live process keeps the barrier, advances
\* the timers and fails for a client's request only.
LEMMA ExecuteKeeps ==
  ASSUME Barrier, up, ~node.pending, NEW q, q.kind \in InputKinds,
         NEW t \in TimersType, NEW evs, Callbacks(evs), NEW refusal,
         Execute(q, t, evs, refusal), up' = up, incarnation' = incarnation
  PROVE  /\ NodeShape(node') /\ Advances(t, timers')
         /\ write' \in [persist : Nat, ack : Nat, generation : Nat]
         /\ events' \subseteq EventType
         /\ OneWrite'
         /\ OneCallback'
         /\ err' = err \/ (q.kind \in ClientKinds /\ err' = refusal)
<1>1. PICK o \in NodeStep(node, q) :
        LET t1 == IF o.dirty THEN t ELSE reset(t, o.resets, o.node.voter)
            t2 == syncRoleTimers(t1, node.role, o.node.role)
        IN IF ~o.ok \/ (o.dirty /\ Overlaps)
           THEN /\ err' = IF o.ok THEN "overlap" ELSE refusal
                /\ timers' = t /\ events' = evs
                /\ UNCHANGED <<node, write>>
           ELSE /\ timers' = t2
                /\ IF o.dirty
                   THEN /\ node' = [o.node EXCEPT !.pending = TRUE, !.effects = o.resets, !.token = @ + 1]
                        /\ write' = started
                        /\ events' = rescheduled(evs, t, t2)
                                       \cup {callback("persist", started.generation, node.token + 1)}
                   ELSE node' = o.node /\ events' = rescheduled(evs, t, t2) /\ UNCHANGED write
                /\ UNCHANGED err
  BY DEF Execute
<1> DEFINE t1 == IF o.dirty THEN t ELSE reset(t, o.resets, o.node.voter)
           t2 == syncRoleTimers(t1, node.role, o.node.role)
<1>2. Answers(node, q, o)
  BY NodeStepMoves DEF Barrier, Shapes
<1>3. ~Overlaps
  BY DEF Overlaps, Barrier, Shapes, OneWrite, NodeShape
<1>4. Advances(t, t) /\ Advances(t, t2) /\ t2 \in TimersType
  <2>1. Advances(t, t)
    BY DEF Advances
  <2>2. Advances(t, t1) /\ t1 \in TimersType
    BY <2>1, ResetAdvances DEF Advances
  <2>3. Advances(t1, t2)
    BY <2>2, SyncAdvances
  <2>4. t2 \in TimersType
    BY <2>3 DEF Advances
  <2>5. Advances(t, t2)
    BY <2>2, <2>3, AdvancesTransitive
  <2> QED BY <2>1, <2>4, <2>5
<1>5. /\ rescheduled(evs, t, t2) \subseteq EventType
      /\ Storage(rescheduled(evs, t, t2)) = Storage(evs)
      /\ \A e \in rescheduled(evs, t, t2) : e \in evs \/ e.incarnation = incarnation
  BY <1>4, RescheduledType DEF Callbacks, Barrier, Shapes
<1>6. CASE ~o.ok
  <2>1. /\ err' = refusal /\ timers' = t /\ events' = evs /\ node' = node /\ write' = write
    BY <1>1, <1>6
  <2>2. q.kind \in ClientKinds
    BY <1>2, <1>6 DEF Answers
  <2>3. OneCallback'
    BY <2>1 DEF OneCallback, Callbacks, Storage, Barrier
  <2> QED BY <2>1, <2>2, <2>3, <1>4 DEF Barrier, Shapes, OneWrite, Callbacks
<1>7. CASE o.ok /\ ~o.dirty
  <2>1. /\ timers' = t2 /\ node' = o.node /\ write' = write /\ err' = err
        /\ events' = rescheduled(evs, t, t2)
    BY <1>1, <1>2, <1>7 DEF Answers
  <2>2. NodeShape(node') /\ ~node'.pending /\ node'.token = node.token
    BY <1>2, <2>1 DEF Answers, Moves
  <2>3. OneCallback'
    BY <2>1, <2>2, <1>5 DEF OneCallback, Callbacks, Storage, Barrier, Shapes, EventType
  <2>4. OneWrite'
    BY <2>1, <2>2 DEF OneWrite, Barrier
  <2>5. Advances(t, timers') /\ events' \subseteq EventType
    BY <2>1, <1>4, <1>5
  <2>6. err' = err /\ write' \in [persist : Nat, ack : Nat, generation : Nat]
    BY <2>1 DEF Barrier, Shapes
  <2> QED BY <2>2, <2>3, <2>4, <2>5, <2>6
<1>8. CASE o.ok /\ o.dirty
  <2> DEFINE n == [o.node EXCEPT !.pending = TRUE, !.effects = o.resets, !.token = @ + 1]
             e0 == callback("persist", started.generation, node.token + 1)
  <2>1. /\ timers' = t2 /\ node' = n /\ write' = started /\ err' = err
        /\ events' = rescheduled(evs, t, t2) \cup {e0}
    BY <1>1, <1>3, <1>8
  <2>2. Moves(node, o.node)
    BY <1>2 DEF Answers
  <2>3. NodeShape(n) /\ n.pending /\ n.token = node.token + 1
    BY <2>2 DEF Moves, NodeShape, NodeFields
  <2>4. /\ started \in [persist : Nat, ack : Nat, generation : Nat]
        /\ started.persist = write.generation + 1 /\ started.ack = 0
        /\ started.generation = write.generation + 1
        /\ write.generation \in Nat /\ node.token \in Nat /\ incarnation \in Nat
    BY DEF started, Barrier, Shapes, NodeShape
  <2>5. /\ e0 \in EventType /\ e0.kind = "persist" /\ e0.incarnation = incarnation
        /\ e0.generation = write.generation + 1 /\ e0.token = node.token + 1
    BY <2>4 DEF callback, EventType, StorageKinds
  <2>6. OneWrite'
    BY <2>1, <2>3, <2>4 DEF OneWrite
  <2>7. OneCallback'
    <3>1. ASSUME NEW e \in rescheduled(evs, t, t2)
          PROVE  /\ e.incarnation <= incarnation
                 /\ e.kind \in StorageKinds /\ e.incarnation = incarnation => e.generation < write'.generation
      <4>1. e.kind \in StorageKinds => e \in events
        BY <1>5, <3>1 DEF Storage, Callbacks
      <4>2. e \in EventType /\ e.incarnation <= incarnation
        BY <1>5, <3>1 DEF Callbacks, EventType
      <4> QED BY <4>1, <4>2, <2>1, <2>4 DEF OneCallback, Barrier, EventType
    <3>2. \A e \in rescheduled(evs, t, t2) : e.generation \in Nat
      BY <1>5 DEF EventType
    <3> QED BY <3>1, <3>2, <2>1, <2>3, <2>4, <2>5 DEF OneCallback
  <2>8. Advances(t, timers') /\ events' \subseteq EventType
    BY <2>1, <2>5, <1>4, <1>5
  <2>9. NodeShape(node') /\ write' \in [persist : Nat, ack : Nat, generation : Nat]
    BY <2>1, <2>3, <2>4
  <2>10. err' = err
    BY <2>1
  <2> QED BY <2>6, <2>7, <2>8, <2>9, <2>10
<1> QED BY <1>2, <1>6, <1>7, <1>8 DEF Answers

\* The callbacks that are scheduled, and any of them, are as owed.
LEMMA CallbacksOwed ==
  ASSUME Shapes, OneCallback, NEW evs, evs \subseteq events
  PROVE  Callbacks(evs)
BY DEF Shapes, OneCallback, Callbacks, Storage

\* Advancing timers keep every queued timeout spent.
LEMMA QueuedStaySpent ==
  ASSUME Shapes, QueuedTimeouts, NEW t, Advances(timers, t),
         NEW m, Queued(m) \subseteq Queued(mailbox)
  PROVE  \A q \in Queued(m) : q.kind \in Kinds => Spent(q, t)
BY SpentStays DEF Shapes, QueuedTimeouts

\* What may wait in the mailbox, given the timers.
Waits(q, t) == q.kind \in InputKinds /\ (q.kind \in Kinds => q.generation \in Nat /\ Spent(q, t))

\* Cluster.submit keeps the invariant: the input waits behind a write, or is
\* executed, or is no longer current and ignored.
LEMMA SubmitKeeps ==
  ASSUME Inv, up, NEW q, NEW t, Advances(timers, t), Waits(q, t),
         NEW evs, evs \subseteq events, NEW refusal \in {NoError, "input"},
         refusal = "input" => q.kind \notin ClientKinds,
         err = NoError, submit(q, t, evs, refusal),
         UNCHANGED <<up, incarnation, draining>>
  PROVE  Inv'
<1> USE DEF Inv
<1>1. Callbacks(evs)
  BY CallbacksOwed
<1>2. t \in TimersType /\ timers \in TimersType
  BY DEF Advances, Shapes
<1>3. DrainsUp'
  BY DEF DrainsUp
<1>4. CASE node.pending
  <2>1. /\ mailbox' = Append(mailbox, q) /\ timers' = t /\ events' = evs
        /\ node' = node /\ write' = write /\ err' = err
    BY <1>4 DEF submit, Ignore
  <2>2. IsSequence(mailbox') /\ Queued(mailbox') \subseteq Queued(mailbox) \cup {q}
    BY <2>1, MailboxAppend DEF Shapes
  <2>3. Shapes'
    BY <2>1, <2>2, <1>1, <1>2 DEF Shapes, Waits, Callbacks
  <2>4. QueuedTimeouts'
    BY <2>1, <2>2, QueuedStaySpent DEF QueuedTimeouts, Waits
  <2>5. OneWrite' /\ OneCallback'
    BY <2>1 DEF OneWrite, OneCallback
  <2> QED BY <2>1, <2>3, <2>4, <2>5, <1>3 DEF OnlyRequestsFail
<1>5. CASE ~node.pending /\ ~queuedInputIsCurrent(q, t)
  <2>1. /\ mailbox' = mailbox /\ timers' = t /\ events' = evs
        /\ node' = node /\ write' = write /\ err' = err
    BY <1>5 DEF submit, Ignore
  <2>2. Shapes'
    BY <2>1, <1>1, <1>2 DEF Shapes, Callbacks
  <2>3. QueuedTimeouts'
    BY <2>1, QueuedStaySpent DEF QueuedTimeouts
  <2>4. OneWrite' /\ OneCallback'
    BY <2>1 DEF OneWrite, OneCallback
  <2> QED BY <2>1, <2>2, <2>3, <2>4, <1>3 DEF OnlyRequestsFail
<1>6. CASE ~node.pending /\ queuedInputIsCurrent(q, t)
  <2>1. mailbox' = mailbox /\ Execute(q, t, evs, refusal)
    BY <1>6 DEF submit
  <2>2. Barrier /\ q.kind \in InputKinds
    BY DEF Barrier, Waits
  <2>3. /\ NodeShape(node') /\ Advances(t, timers')
        /\ write' \in [persist : Nat, ack : Nat, generation : Nat]
        /\ events' \subseteq EventType
        /\ OneWrite' /\ OneCallback'
        /\ err' = err \/ (q.kind \in ClientKinds /\ err' = refusal)
    BY <2>1, <2>2, <1>1, <1>2, <1>6, ExecuteKeeps
  <2>4. Advances(timers, timers') /\ timers' \in TimersType
    BY <2>3, <1>2, AdvancesTransitive DEF Advances
  <2>5. QueuedTimeouts'
    BY <2>1, <2>4, QueuedStaySpent DEF QueuedTimeouts
  <2>6. Shapes'
    BY <2>1, <2>3, <2>4 DEF Shapes
  <2>7. OnlyRequestsFail'
    BY <2>3 DEF OnlyRequestsFail, NoError
  <2> QED BY <2>3, <2>5, <2>6, <2>7, <1>3
<1> QED BY <1>4, <1>5, <1>6

\* drain keeps the invariant.
LEMMA DrainKeeps ==
  ASSUME Inv, drain
  PROVE  Inv'
<1> USE DEF Inv
<1>1. /\ up' = up /\ incarnation' = incarnation /\ draining /\ err = NoError
  BY DEF drain
<1>2. up
  BY <1>1 DEF DrainsUp
<1>3. CASE node.pending \/ mailbox = <<>>
  <2>1. /\ draining' = FALSE
        /\ UNCHANGED <<up, incarnation, mailbox, node, timers, write, events, err>>
    BY <1>3 DEF drain
  <2> QED BY <2>1 DEF Shapes, OneWrite, DrainsUp, OneCallback, QueuedTimeouts, OnlyRequestsFail
<1>4. CASE ~node.pending /\ mailbox # <<>>
  <2> DEFINE q == Head(mailbox)
             refusal == IF q.kind \in {"proposal", "snapshot"} THEN "client" ELSE "input"
  <2>1. /\ mailbox' = Tail(mailbox) /\ draining' = draining
        /\ IF queuedInputIsCurrent(q, timers) THEN Execute(q, timers, events, refusal)
           ELSE Ignore(timers, events)
    BY <1>4 DEF drain
  <2>2. /\ IsSequence(mailbox') /\ Queued(mailbox') \subseteq Queued(mailbox)
        /\ q \in Queued(mailbox)
    BY <2>1, <1>4, MailboxTail DEF Shapes
  <2>3. q.kind \in InputKinds
    BY <2>2 DEF Shapes
  <2>4. DrainsUp'
    BY <1>1, <2>1 DEF DrainsUp
  <2>5. timers \in TimersType /\ Advances(timers, timers)
    BY DEF Shapes, Advances
  <2>6. CASE ~queuedInputIsCurrent(q, timers)
    <3>1. UNCHANGED <<timers, events, node, write, err>>
      BY <2>1, <2>6 DEF Ignore
    <3>2. Shapes'
      BY <1>1, <2>1, <2>2, <3>1 DEF Shapes
    <3>3. QueuedTimeouts'
      BY <2>2, <3>1 DEF QueuedTimeouts
    <3>4. OneWrite' /\ OneCallback' /\ OnlyRequestsFail'
      BY <1>1, <3>1 DEF OneWrite, OneCallback, OnlyRequestsFail
    <3> QED BY <2>4, <3>2, <3>3, <3>4
  <2>7. CASE queuedInputIsCurrent(q, timers)
    <3>1. Execute(q, timers, events, refusal) /\ Callbacks(events) /\ Barrier
      BY <2>1, <2>7, CallbacksOwed DEF Barrier
    <3> HIDE DEF refusal
    <3>2. /\ NodeShape(node') /\ Advances(timers, timers')
          /\ write' \in [persist : Nat, ack : Nat, generation : Nat]
          /\ events' \subseteq EventType
          /\ OneWrite' /\ OneCallback'
          /\ err' = err \/ (q.kind \in ClientKinds /\ err' = refusal)
      BY <3>1, <1>1, <1>2, <1>4, <2>3, <2>5, ExecuteKeeps
    <3>3. QueuedTimeouts'
      BY <2>2, <3>2, QueuedStaySpent DEF QueuedTimeouts
    <3>4. timers' \in TimersType
      BY <3>2 DEF Advances
    <3>5. Shapes'
      BY <1>1, <2>1, <2>2, <3>2, <3>4 DEF Shapes
    <3>6. OnlyRequestsFail'
      BY <1>1, <3>2 DEF OnlyRequestsFail, ClientKinds, refusal
    <3> QED BY <2>4, <3>2, <3>3, <3>5, <3>6
  <2> QED BY <2>6, <2>7
<1> QED BY <1>3, <1>4
-----------------------------------------------------------------------------
(* Inputs and timers.                                                      *)

\* An input other than a timeout may wait, whatever the timers are.
LEMMA InputWaits ==
  ASSUME NEW kind \in InputKinds \ Kinds, NEW arg, NEW t
  PROVE  Waits(input(kind, 0, arg), t)
BY DEF Waits, input, InputKinds, ClientKinds, Kinds

\* A delivered message.
LEMMA ReceiveKeeps ==
  ASSUME Inv, NEW kind \in {"vote", "higher term", "append", "install"}, NEW arg, Receive(kind, arg)
  PROVE  Inv'
<1> DEFINE q == input(kind, 0, arg)
<1>1. CASE up
  <2>1. submit(q, timers, events, "input") /\ err = NoError /\ UNCHANGED <<up, incarnation, draining>>
    BY <1>1 DEF Receive, Running
  <2>2. Waits(q, timers)
    BY InputWaits DEF InputKinds, Kinds
  <2>3. Advances(timers, timers)
    BY DEF Inv, Shapes, Advances
  <2>4. q.kind \notin ClientKinds
    BY DEF input, ClientKinds
  <2> HIDE DEF q
  <2> QED BY <1>1, <2>1, <2>2, <2>3, <2>4, SubmitKeeps
<1>2. CASE ~up
  <2>1. UNCHANGED <<up, incarnation, draining, mailbox, node, timers, write, events, err>>
    BY <1>2 DEF Receive
  <2> QED BY <2>1 DEF Inv, Shapes, OneWrite, DrainsUp, OneCallback, QueuedTimeouts, OnlyRequestsFail
<1> QED BY <1>1, <1>2

\* A client's request.
LEMMA RequestKeeps ==
  ASSUME Inv, NEW kind \in ClientKinds, NEW arg, up, err = NoError,
         submit(input(kind, 0, arg), timers, events, NoError),
         UNCHANGED <<up, incarnation, draining>>
  PROVE  Inv'
<1> DEFINE q == input(kind, 0, arg)
<1>1. Waits(q, timers)
  BY InputWaits DEF InputKinds, Kinds, ClientKinds
<1>2. Advances(timers, timers)
  BY DEF Inv, Shapes, Advances
<1>3. NoError # "input"
  BY DEF NoError
<1> HIDE DEF q
<1> QED BY <1>1, <1>2, <1>3, SubmitKeeps DEF q

\* A timer callback: the timeout it submits is of the generation that is
\* current, whose event it has just used up.
LEMMA FireKeeps ==
  ASSUME Inv, NEW e \in events, Fire(e)
  PROVE  Inv'
<1> DEFINE t == [timers EXCEPT ![e.kind].event = 0]
           q == input(e.kind, e.generation, 0)
<1>1. e.kind \in Kinds /\ err = NoError /\ UNCHANGED <<up, incarnation, draining>>
  BY DEF Fire, Running
<1>2. timers \in TimersType /\ e \in EventType
  BY DEF Inv, Shapes
<1>3. CASE up /\ e.generation = timers[e.kind].generation
           /\ submit(q, t, events \ {e}, "input")
  <2>1. Advances(timers, t)
    BY <1>1, <1>2 DEF Advances, TimersType, Kinds
  <2>2. Waits(q, t)
    <3>1. q.kind = e.kind /\ q.generation = e.generation
      BY DEF input
    <3>2. /\ t[e.kind].generation = e.generation
          /\ t[e.kind].event = 0 /\ e.generation \in Nat
      BY <1>1, <1>2, <1>3 DEF TimersType, EventType, Kinds
    <3>3. q.kind \in InputKinds
      BY <1>1, <3>1 DEF InputKinds
    <3> HIDE DEF q, t
    <3>4. q.generation \in Nat /\ Spent(q, t)
      BY <3>1, <3>2 DEF Spent
    <3> QED BY <3>3, <3>4 DEF Waits
  <2>3. q.kind \notin ClientKinds /\ events \ {e} \subseteq events
    BY <1>1 DEF input, Kinds, ClientKinds
  <2> HIDE DEF q, t
  <2> QED BY <1>1, <1>3, <2>1, <2>2, <2>3, SubmitKeeps
<1>4. CASE events' = events \ {e} /\ UNCHANGED <<mailbox, node, timers, write, err>>
  BY <1>1, <1>4 DEF Inv, Shapes, OneWrite, DrainsUp, OneCallback, QueuedTimeouts, OnlyRequestsFail
<1> QED BY <1>3, <1>4 DEF Fire
-----------------------------------------------------------------------------
(* Faults and storage callbacks.                                           *)

\* A crash outdates whatever stays scheduled.
LEMMA CrashKeeps ==
  ASSUME Inv, Crash, events' \subseteq events, UNCHANGED <<err, draining>>, ~draining
  PROVE  Inv'
<1>1. /\ up' = FALSE /\ incarnation' = incarnation + 1 /\ mailbox' = <<>>
      /\ timers' = [k \in Kinds |-> held(0, timers[k].generation + 1)]
      /\ write' = [persist |-> 0, ack |-> 0, generation |-> write.generation + 1]
      /\ node' = Fresh(disk', store.applied)
  BY DEF Crash
<1>2. NodeShape(node') /\ ~node'.pending
  BY <1>1 DEF NodeShape, NodeFields, Fresh
<1>3. timers' \in TimersType
  BY <1>1 DEF Inv, Shapes, TimersType, held
<1>4. Queued(mailbox') = {} /\ IsSequence(mailbox')
  BY <1>1 DEF Queued, IsSequence
<1>5. Shapes'
  <2>1. write' \in [persist : Nat, ack : Nat, generation : Nat] /\ incarnation' \in Nat
    BY <1>1 DEF Inv, Shapes
  <2>2. up' \in BOOLEAN /\ draining' \in BOOLEAN /\ events' \subseteq EventType
    BY <1>1 DEF Inv, Shapes
  <2> QED BY <1>2, <1>3, <1>4, <2>1, <2>2 DEF Shapes
<1>6. OneWrite' /\ DrainsUp'
  BY <1>1, <1>2 DEF Inv, OneWrite, DrainsUp
<1>7. OneCallback'
  BY <1>1 DEF Inv, Shapes, OneCallback, EventType
<1> QED BY <1>4, <1>5, <1>6, <1>7 DEF Inv, QueuedTimeouts, OnlyRequestsFail

\* The durable write completes.
LEMMA CompleteWriteKeeps ==
  ASSUME Inv, NEW e \in events, CompleteWrite(e)
  PROVE  Inv'
<1>1. e.kind = "persist" /\ ~draining /\ UNCHANGED <<err, draining>> /\ e \in EventType
  BY DEF CompleteWrite, Running, Inv, Shapes
<1>2. CASE expects(e) /\ armed
  <2>1. Crash /\ events' = uncancelled(events \ {e})
    BY <1>2 DEF CompleteWrite
  <2>2. events' \subseteq events
    BY <2>1 DEF uncancelled
  <2> QED BY <1>1, <2>1, <2>2, CrashKeeps
<1>3. CASE expects(e) /\ ~armed
  <2> DEFINE a == callback("ack", e.generation, e.token)
  <2>1. /\ write' = [write EXCEPT !.persist = 0, !.ack = write.generation]
        /\ events' = (events \ {e}) \cup {a}
        /\ UNCHANGED <<up, incarnation, mailbox, timers, node>>
    BY <1>3 DEF CompleteWrite
  <2>2. up /\ e.incarnation = incarnation /\ e.generation = write.generation
    BY <1>3 DEF expects
  <2>3. write.persist # 0 /\ e.token = node.token
    BY <1>1, <2>2 DEF Inv, OneCallback, StorageKinds
  <2>4. write.persist = write.generation /\ write.ack = 0 /\ node.pending
    BY <2>3 DEF Inv, OneWrite
  <2>5. /\ a \in EventType /\ a.kind = "ack" /\ a.incarnation = incarnation
        /\ a.generation = write.generation /\ a.token = node.token
    BY <1>1, <2>2, <2>3 DEF callback, EventType, StorageKinds, Inv, Shapes
  <2>6. /\ write' \in [persist : Nat, ack : Nat, generation : Nat]
        /\ write'.persist = 0 /\ write'.ack = write.generation /\ write'.generation = write.generation
        /\ write.generation \in Nat \ {0}
    BY <2>1, <2>3, <2>4 DEF Inv, Shapes
  <2>7. Shapes'
    BY <1>1, <2>1, <2>5, <2>6 DEF Inv, Shapes
  <2>8. OneWrite'
    BY <2>1, <2>4, <2>6 DEF Inv, OneWrite
  <2>9. OneCallback'
    <3>1. ASSUME NEW f \in events \ {e}, f.kind \in StorageKinds, f.incarnation = incarnation,
                 f.generation = write.generation
          PROVE  FALSE
      <4>1. f.token = node.token /\ f.kind = "persist" /\ f \in EventType
        BY <3>1, <2>4 DEF Inv, Shapes, OneCallback, StorageKinds
      <4> QED BY <1>1, <2>2, <2>3, <3>1, <4>1 DEF EventType
    <3>2. ASSUME NEW f \in events \ {e}
          PROVE  /\ f.incarnation <= incarnation
                 /\ f.kind \in StorageKinds /\ f.incarnation = incarnation => f.generation <= write.generation
      BY DEF Inv, OneCallback
    <3> QED BY <2>1, <2>5, <2>6, <3>1, <3>2, <1>1 DEF OneCallback, Inv, Shapes
  <2>10. DrainsUp' /\ QueuedTimeouts' /\ OnlyRequestsFail'
    BY <1>1, <2>1 DEF Inv, DrainsUp, QueuedTimeouts, OnlyRequestsFail
  <2> QED BY <2>7, <2>8, <2>9, <2>10 DEF Inv
<1>4. CASE ~expects(e)
  <2>1. /\ events' = events \ {e}
        /\ UNCHANGED <<up, incarnation, node, mailbox, timers, write>>
    BY <1>4 DEF CompleteWrite
  <2> QED BY <1>1, <2>1 DEF Inv, Shapes, OneWrite, DrainsUp, OneCallback, QueuedTimeouts, OnlyRequestsFail
<1> QED BY <1>2, <1>3, <1>4

\* The acknowledgement of a write that is expected matches the node's token,
\* and releases the barrier.
LEMMA AcknowledgeKeeps ==
  ASSUME Inv, NEW e \in events, Acknowledge(e)
  PROVE  Inv'
<1>1. /\ e.kind = "ack" /\ err = NoError /\ ~draining /\ UNCHANGED <<up, incarnation, mailbox>>
      /\ e \in EventType
  BY DEF Acknowledge, Running, Inv, Shapes
<1>2. CASE ~expects(e)
  <2>1. events' = events \ {e} /\ UNCHANGED <<node, timers, write, err, draining>>
    BY <1>2 DEF Acknowledge
  <2> QED BY <1>1, <2>1 DEF Inv, Shapes, OneWrite, DrainsUp, OneCallback, QueuedTimeouts, OnlyRequestsFail
<1>3. CASE expects(e)
  <2> DEFINE r == release(node, store, app)
             t == reset(timers, node.effects, node.voter)
             matches == node.pending /\ e.token = node.token
             done == matches /\ r.ok
  <2>1. /\ write' = [write EXCEPT !.ack = 0]
        /\ err' = CASE ~matches -> "token" [] matches /\ ~r.ok -> "apply" [] OTHER -> err
        /\ node' = IF matches THEN [node EXCEPT !.pending = FALSE, !.effects = {}] ELSE node
        /\ timers' = IF done THEN t ELSE timers
        /\ events' = IF done THEN rescheduled(events \ {e}, timers, t) ELSE events \ {e}
        /\ draining' = done
    BY <1>3 DEF Acknowledge
  <2>2. up /\ e.incarnation = incarnation /\ e.generation = write.generation
    BY <1>3 DEF expects
  <2>3. write.ack # 0 /\ e.token = node.token
    BY <1>1, <2>2 DEF Inv, OneCallback, StorageKinds
  <2>4. write.ack = write.generation /\ write.persist = 0 /\ node.pending
    BY <2>3 DEF Inv, OneWrite
  <2>5. matches
    BY <2>3, <2>4
  <2>6. /\ err' \in {err, "apply"}
        /\ node' = [node EXCEPT !.pending = FALSE, !.effects = {}]
        /\ timers' \in {timers, t}
        /\ events' \in {events \ {e}, rescheduled(events \ {e}, timers, t)}
        /\ draining' \in BOOLEAN
    <3> HIDE DEF r, t
    <3> QED BY <2>1, <2>5
  <2>7. Advances(timers, timers') /\ timers \in TimersType /\ t \in TimersType
    <3>1. timers \in TimersType /\ Advances(timers, timers)
      BY DEF Inv, Shapes, Advances
    <3>2. Advances(timers, t)
      BY <3>1, ResetAdvances
    <3> HIDE DEF t
    <3> QED BY <2>6, <3>1, <3>2 DEF Advances
  <2>8. /\ events' \subseteq EventType /\ Storage(events') = Storage(events \ {e})
        /\ \A f \in events' : f.incarnation <= incarnation
    <3>1. events \ {e} \subseteq EventType /\ incarnation \in Nat
      BY DEF Inv, Shapes
    <3>2. \A f \in events \ {e} : f.incarnation <= incarnation
      BY DEF Inv, OneCallback
    <3> DEFINE evs == rescheduled(events \ {e}, timers, t)
    <3> HIDE DEF t
    <3>3. /\ evs \subseteq EventType /\ Storage(evs) = Storage(events \ {e})
          /\ \A f \in evs : f \in events \ {e} \/ f.incarnation = incarnation
      BY <2>7, <3>1, RescheduledType
    <3> HIDE DEF evs
    <3>4. events' \in {events \ {e}, evs}
      BY <2>6 DEF evs
    <3>5. \A f \in evs : f.incarnation <= incarnation
      BY <3>1, <3>2, <3>3
    <3>6. CASE events' = events \ {e}
      BY <3>1, <3>2, <3>6
    <3>7. CASE events' = evs
      BY <3>3, <3>5, <3>7
    <3> QED BY <3>4, <3>6, <3>7
  <2>9. NodeShape(node') /\ ~node'.pending
    BY <2>6 DEF Inv, Shapes, NodeShape, NodeFields
  <2>10. /\ write' \in [persist : Nat, ack : Nat, generation : Nat]
         /\ write'.persist = 0 /\ write'.ack = 0 /\ write'.generation = write.generation
    BY <2>1, <2>4 DEF Inv, Shapes
  <2>11. Shapes'
    BY <1>1, <2>6, <2>7, <2>8, <2>9, <2>10 DEF Inv, Shapes, Advances
  <2>12. OneWrite' /\ DrainsUp'
    BY <1>1, <2>2, <2>9, <2>10 DEF OneWrite, DrainsUp
  <2>13. OneCallback'
    <3>1. ASSUME NEW f \in events', f.kind \in StorageKinds, f.incarnation = incarnation
          PROVE  f.generation <= write.generation /\ f.generation # write.generation
      <4>1. f \in events /\ f # e
        BY <2>8, <3>1 DEF Storage
      <4>2. f.generation <= write.generation
        BY <3>1, <4>1 DEF Inv, OneCallback
      <4>3. ASSUME f.generation = write.generation PROVE FALSE
        <5>1. f.token = node.token /\ f.kind = "ack" /\ f \in EventType
          BY <2>4, <3>1, <4>1, <4>3 DEF Inv, Shapes, OneCallback, StorageKinds
        <5> QED BY <1>1, <2>2, <2>3, <3>1, <4>1, <4>3, <5>1 DEF EventType
      <4> QED BY <4>2, <4>3
    <3> QED BY <1>1, <2>8, <2>10, <3>1 DEF OneCallback
  <2>14. QueuedTimeouts'
    BY <1>1, <2>7, QueuedStaySpent DEF Inv, QueuedTimeouts
  <2>15. OnlyRequestsFail'
    BY <1>1, <2>6 DEF OnlyRequestsFail
  <2> QED BY <2>11, <2>12, <2>13, <2>14, <2>15 DEF Inv
<1> QED BY <1>2, <1>3

\* A restart begins without a write, and arms the election timer.
LEMMA RestartKeeps ==
  ASSUME Inv, Restart
  PROVE  Inv'
<1> DEFINE t == reset(timers, {"election"}, TRUE)
<1>1. /\ ~up /\ ~draining /\ up' = TRUE /\ node' = Fresh(disk, lastIndex(disk))
      /\ timers' = t /\ events' = rescheduled(events, timers, t)
      /\ UNCHANGED <<incarnation, mailbox, write, err, draining>>
  BY DEF Restart, Running
<1>2. Advances(timers, timers') /\ timers \in TimersType /\ timers' \in TimersType
  <2>1. timers \in TimersType
    BY DEF Inv, Shapes
  <2>2. Advances(timers, t)
    BY <2>1, ResetAdvances
  <2> QED BY <1>1, <2>1, <2>2 DEF Advances
<1>3. /\ events' \subseteq EventType /\ Storage(events') = Storage(events)
      /\ \A f \in events' : f \in events \/ f.incarnation = incarnation
  <2> HIDE DEF t
  <2> QED BY <1>1, <1>2, RescheduledType DEF Inv, Shapes
<1>4. NodeShape(node') /\ ~node'.pending
  BY <1>1 DEF NodeShape, NodeFields, Fresh
<1>5. ~node.pending /\ write.persist = 0 /\ write.ack = 0
  BY <1>1 DEF Inv, OneWrite
<1>6. Shapes'
  BY <1>1, <1>2, <1>3, <1>4 DEF Inv, Shapes
<1>7. OneWrite' /\ DrainsUp'
  BY <1>1, <1>4, <1>5 DEF OneWrite, DrainsUp
<1>8. OneCallback'
  <2>1. \A f \in events' : f.incarnation <= incarnation
    BY <1>3 DEF Inv, Shapes, OneCallback
  <2>2. \A f \in events' : f.kind \in StorageKinds => f \in events
    BY <1>3 DEF Storage
  <2>3. \A f \in events : f.kind \in StorageKinds /\ f.incarnation = incarnation
                            => f.generation <= write.generation /\ f.generation # write.generation
    BY <1>5 DEF Inv, OneCallback, StorageKinds
  <2> QED BY <1>1, <2>1, <2>2, <2>3 DEF OneCallback
<1>9. QueuedTimeouts'
  BY <1>1, <1>2, QueuedStaySpent DEF Inv, QueuedTimeouts
<1> QED BY <1>1, <1>6, <1>7, <1>8, <1>9 DEF Inv, OnlyRequestsFail

\* Every step keeps the invariant.
LEMMA NextKeeps ==
  ASSUME Inv, [Next]_vars
  PROVE  Inv'
<1>1. ASSUME NEW kind \in {"vote", "higher term", "append", "install"}, NEW arg, Receive(kind, arg)
      PROVE  Inv'
  BY <1>1, ReceiveKeeps
<1>2. ASSUME NEW c \in Commands, Propose(c)
      PROVE  Inv'
  <2>1. up /\ err = NoError /\ submit(input("proposal", 0, c), timers, events, NoError)
        /\ UNCHANGED <<up, incarnation, draining>>
    BY <1>2 DEF Propose, Running
  <2> QED BY <2>1, RequestKeeps DEF ClientKinds
<1>3. CASE SnapshotApplication
  <2> DEFINE s == [index |-> store.applied, data |-> Checkpoint(app)]
  <2>1. up /\ err = NoError /\ submit(input("snapshot", 0, s), timers, events, NoError)
        /\ UNCHANGED <<up, incarnation, draining>>
    BY <1>3 DEF SnapshotApplication, Running
  <2> HIDE DEF s
  <2> QED BY <2>1, RequestKeeps DEF ClientKinds
<1>4. ASSUME NEW e \in events, Fire(e) \/ CompleteWrite(e) \/ Acknowledge(e)
      PROVE  Inv'
  BY <1>4, FireKeeps, CompleteWriteKeeps, AcknowledgeKeeps
<1>5. CASE drain
  BY <1>5, DrainKeeps
<1>6. CASE CrashNow
  <2>1. events' \subseteq events
    BY <1>6 DEF CrashNow, uncancelled
  <2> QED BY <1>6, <2>1, CrashKeeps DEF CrashNow, Running
<1>7. CASE CrashAfterNextPersist
  BY <1>7 DEF CrashAfterNextPersist, Inv, Shapes, OneWrite, DrainsUp, OneCallback, QueuedTimeouts,
              OnlyRequestsFail
<1>8. CASE Restart
  BY <1>8, RestartKeeps
<1>9. CASE UNCHANGED vars
  BY <1>9 DEF vars, process, Inv, Shapes, OneWrite, DrainsUp, OneCallback, QueuedTimeouts,
              OnlyRequestsFail
<1> QED BY <1>1, <1>2, <1>3, <1>4, <1>5, <1>6, <1>7, <1>8, <1>9 DEF Next

\* The process starts with nothing written and its first timer armed.
LEMMA InitKeeps ==
  ASSUME Init
  PROVE  Inv
<1>1. NodeShape(node) /\ ~node.pending
  BY DEF Init, Fresh, NodeShape, NodeFields
<1>2. timers \in TimersType
  BY DEF Init, held, TimersType
<1>3. events \subseteq EventType /\ Storage(events) = {} /\ \A e \in events : e.incarnation = 1
  BY DEF Init, callback, EventType, Storage, Kinds, StorageKinds
<1>4. Queued(mailbox) = {} /\ IsSequence(mailbox)
  BY DEF Init, Queued, IsSequence
<1>5. Shapes
  BY <1>1, <1>2, <1>3, <1>4 DEF Init, Shapes
<1>6. OneWrite /\ DrainsUp
  BY <1>1 DEF Init, OneWrite, DrainsUp
<1>7. OneCallback
  BY <1>3 DEF Init, OneCallback, Storage
<1> QED BY <1>4, <1>5, <1>6, <1>7 DEF Init, Inv, QueuedTimeouts, OnlyRequestsFail
-----------------------------------------------------------------------------
(* The theorems.                                                           *)

\* The persistence barrier and what the mailbox knows of the timers hold in
\* every state of the process (processEffects, submit, drain).
THEOREM BarrierHolds == Spec => []Inv
BY InitKeeps, NextKeeps, PTL DEF Spec

\* Cluster.err is set by a client's request or a repeated command only:
\* writes never overlap, every acknowledgement carries the token its node
\* waits for, and no input reaches a node that waits for a write.
THEOREM OwnBookkeepingNeverFails == Spec => []OnlyRequestsFail
<1>1. Inv => OnlyRequestsFail
  BY DEF Inv
<1> QED BY <1>1, BarrierHolds, PTL

\* A timeout of either kind that waited in the mailbox behind a write, while
\* its timer was armed again or armed and cancelled, is taken out without any
\* effect (queuedInputIsCurrent).
THEOREM QueuedTimeoutsAreCurrent == Spec => NoStaleTimeout
<1> DEFINE Harmless == draining /\ mailbox # <<>> /\ Outdated(Head(mailbox))
                         => UNCHANGED <<node, timers, write, events, err>>
<1>1. ASSUME Inv, [Next]_vars PROVE [Harmless]_vars
  <2> SUFFICES ASSUME Next, draining, mailbox # <<>>, NEW q, q = Head(mailbox), Outdated(q)
               PROVE  UNCHANGED <<node, timers, write, events, err>>
    BY <1>1
  <2>1. drain
    BY DEF Next, Receive, Propose, SnapshotApplication, Fire, CompleteWrite, Acknowledge, CrashNow,
           CrashAfterNextPersist, Restart, Running
  <2>2. CASE node.pending
    BY <2>1, <2>2 DEF drain
  <2>3. CASE ~node.pending
    <3>1. q \in Queued(mailbox) /\ q.kind \in Kinds
      BY <1>1, MailboxTail DEF Inv, Shapes, Outdated
    <3>2. Spent(q, timers)
      BY <1>1, <3>1 DEF Inv, QueuedTimeouts
    <3>3. q.generation # timers[q.kind].generation
      BY <3>2 DEF Spent, Outdated
    <3>4. ~queuedInputIsCurrent(q, timers)
      BY <3>1, <3>3 DEF queuedInputIsCurrent, Kinds
    <3>5. Ignore(timers, events)
      BY <2>1, <2>3, <3>4 DEF drain
    <3> QED BY <3>5 DEF Ignore
  <2> QED BY <2>2, <2>3
<1> QED BY <1>1, BarrierHolds, PTL DEF Spec, NoStaleTimeout
-----------------------------------------------------------------------------
(* Replaying entries.  ReplayEntries is a recursive function; facts about  *)
(* it are proved by the least length that would refute them.               *)

\* Every nonempty set of naturals has a least element.
LEMMA LeastElement ==
  ASSUME NEW T, T \subseteq Nat, T # {}
  PROVE  \E x \in T : \A y \in T : x <= y
<1>1. PICK x \in T : \A y \in T : ~(<<y, x>> \in OpToRel(<, Nat))
  BY WFMin, NatLessThanWellFounded
<1>2. \A y \in T : ~(y < x)
  BY <1>1 DEF OpToRel
<1> QED BY <1>2

\* The answer before any entry, and after entry e, the k-th.
Untaken(m) == [ok |-> TRUE, machine |-> m, done |-> 0]

Taken(r, e, k) ==
  CASE ~r.ok -> r
    [] r.ok /\ e.command = <<>> -> [r EXCEPT !.done = k]
    [] r.ok /\ e.command # <<>> ->
         IF accepts(r.machine, e.command[1])
         THEN [ok |-> TRUE, machine |-> applyCanonical(r.machine, e.command[1]), done |-> k]
         ELSE [r EXCEPT !.ok = FALSE]

\* f[k] is the answer after the first k of n entries.
Replays(f, m, s, n) == f[0] = Untaken(m) /\ \A k \in 1..n : f[k] = Taken(f[k - 1], s[k], k)

\* The recursion has a solution for every length.
LEMMA ReplaysExist ==
  ASSUME NEW m, NEW s, NEW n \in Nat
  PROVE  \E f : Replays(f, m, s, n)
<1> DEFINE T == {d \in Nat : ~\E f : Replays(f, m, s, d)}
<1>1. T = {}
  <2> SUFFICES ASSUME T # {} PROVE FALSE
    OBVIOUS
  <2>1. T \subseteq Nat
    OBVIOUS
  <2> HIDE DEF T
  <2>2. PICK d \in T : \A y \in T : d <= y
    BY <2>1, LeastElement
  <2>3. d \in Nat /\ ~\E f : Replays(f, m, s, d)
    BY <2>2 DEF T
  <2>4. CASE d = 0
    <3>1. Replays([k \in {0} |-> Untaken(m)], m, s, 0)
      BY DEF Replays
    <3> QED BY <2>3, <2>4, <3>1
  <2>5. CASE d # 0
    <3>1. d - 1 \in Nat /\ d - 1 \notin T
      BY <2>2, <2>3, <2>5
    <3>2. PICK f : Replays(f, m, s, d - 1)
      BY <3>1 DEF T
    <3> DEFINE g == [k \in 0..d |-> IF k = d THEN Taken(f[d - 1], s[d], d) ELSE f[k]]
    <3>3. g[0] = Untaken(m)
      BY <2>3, <2>5, <3>2 DEF Replays
    <3>4. ASSUME NEW k \in 1..d PROVE g[k] = Taken(g[k - 1], s[k], k)
      <4>1. k - 1 \in 0..d /\ k \in 0..d /\ k - 1 # d /\ (k # d => k \in 1..(d - 1))
        BY <2>3
      <4>2. g[k - 1] = f[k - 1] /\ g[k] = IF k = d THEN Taken(f[d - 1], s[d], d) ELSE f[k]
        BY <4>1
      <4>3. CASE k = d
        BY <4>2, <4>3
      <4>4. CASE k # d
        BY <3>2, <4>1, <4>2, <4>4 DEF Replays
      <4> QED BY <4>3, <4>4
    <3>5. Replays(g, m, s, d)
      BY <3>3, <3>4 DEF Replays
    <3> QED BY <2>3, <3>5
  <2> QED BY <2>4, <2>5
<1> QED BY <1>1

\* The first n entries of s and t hold the same commands.
SameCommands(s, t, n) == \A k \in 1..n : s[k].command = t[k].command

\* A solution is unique, and depends on the entries it has taken only.
LEMMA ReplaysUnique ==
  ASSUME NEW m, NEW s, NEW t, NEW n \in Nat, SameCommands(s, t, n),
         NEW f, NEW g, Replays(f, m, s, n), Replays(g, m, t, n)
  PROVE  \A k \in 0..n : f[k] = g[k]
<1> DEFINE D == {k \in 0..n : f[k] # g[k]}
<1> SUFFICES ASSUME D # {} PROVE FALSE
  OBVIOUS
<1>1. D \subseteq Nat
  OBVIOUS
<1>2. PICK k \in D : \A y \in D : k <= y
  BY <1>1, LeastElement
<1>3. k \in 0..n /\ f[k] # g[k]
  BY <1>2
<1>4. k # 0
  BY <1>3 DEF Replays
<1>5. k \in 1..n /\ k - 1 \in 0..n /\ k - 1 \notin D
  BY <1>2, <1>3, <1>4
<1>6. f[k - 1] = g[k - 1]
  BY <1>5
<1>7. f[k] = Taken(f[k - 1], s[k], k) /\ g[k] = Taken(g[k - 1], t[k], k)
  BY <1>5 DEF Replays
<1>8. s[k].command = t[k].command
  BY <1>5 DEF SameCommands
<1>9. Taken(g[k - 1], s[k], k) = Taken(g[k - 1], t[k], k)
  BY <1>8 DEF Taken
<1> QED BY <1>3, <1>6, <1>7, <1>9

\* ReplayEntries is that solution at the length of the entries.
LEMMA ReplayIs ==
  ASSUME NEW m, NEW s, Len(s) \in Nat, NEW f, Replays(f, m, s, Len(s))
  PROVE  ReplayEntries(m, s) = f[Len(s)]
<1> DEFINE n == Len(s)
           eq(run) == run = [k \in 0..n |->
                        IF k = 0 THEN [ok |-> TRUE, machine |-> m, done |-> 0]
                        ELSE LET r == run[k - 1]
                                 e == s[k]
                             IN CASE ~r.ok -> r
                                  [] r.ok /\ e.command = <<>> -> [r EXCEPT !.done = k]
                                  [] r.ok /\ e.command # <<>> ->
                                       IF accepts(r.machine, e.command[1])
                                       THEN [ok |-> TRUE, machine |-> applyCanonical(r.machine, e.command[1]), done |-> k]
                                       ELSE [r EXCEPT !.ok = FALSE]]
           run == CHOOSE run : eq(run)
<1>1. ReplayEntries(m, s) = run[n]
  BY DEF ReplayEntries
<1> DEFINE g == [k \in 0..n |-> f[k]]
<1>2. g[0] = Untaken(m) /\ \A k \in 1..n : g[k] = Taken(g[k - 1], s[k], k)
  BY DEF Replays
<1>3. eq(g)
  <2>1. ASSUME NEW k \in 0..n
        PROVE  g[k] = IF k = 0 THEN Untaken(m) ELSE Taken(g[k - 1], s[k], k)
    <3>1. CASE k = 0
      BY <1>2, <3>1
    <3>2. CASE k # 0
      <4>1. k \in 1..n
        BY <3>2
      <4> HIDE DEF g
      <4> QED BY <1>2, <3>2, <4>1
    <3> QED BY <3>1, <3>2
  <2>2. g = [k \in 0..n |-> g[k]]
    OBVIOUS
  <2> HIDE DEF g
  <2>3. g = [k \in 0..n |-> IF k = 0 THEN Untaken(m) ELSE Taken(g[k - 1], s[k], k)]
    BY <2>1, <2>2
  <2> QED BY <2>3 DEF Untaken, Taken
<1> HIDE DEF eq, g
<1>4. eq(run)
  BY <1>3
<1>5. Replays(run, m, s, n)
  <2>1. run = [k \in 0..n |-> IF k = 0 THEN Untaken(m) ELSE Taken(run[k - 1], s[k], k)]
    <3> HIDE DEF run
    <3> QED BY <1>4 DEF eq, Untaken, Taken
  <2> HIDE DEF run
  <2> QED BY <2>1 DEF Replays
<1> HIDE DEF run
<1>6. run[n] = f[n]
  <2>1. SameCommands(s, s, n) /\ n \in 0..n
    BY DEF SameCommands
  <2> QED BY <1>5, <2>1, ReplaysUnique
<1> QED BY <1>1, <1>6

\* What a replay has answered after k entries: a machine, how many it took,
\* and whether it was stopped; up to the number taken it was not.
Answered(f, k) ==
  /\ f[k] = [ok |-> f[k].ok, machine |-> f[k].machine, done |-> f[k].done]
  /\ f[k].ok \in BOOLEAN
  /\ f[k].done \in 0..k
  /\ f[k].ok => f[k].done = k
  /\ f[f[k].done].ok /\ f[f[k].done].machine = f[k].machine

\* Every answer of a replay is one of these, whatever was refused on the way.
LEMMA ReplaysStop ==
  ASSUME NEW m, NEW s, NEW n \in Nat, NEW f, Replays(f, m, s, n)
  PROVE  \A k \in 0..n : Answered(f, k)
<1> DEFINE D == {k \in 0..n : ~Answered(f, k)}
<1> SUFFICES ASSUME D # {} PROVE FALSE
  OBVIOUS
<1>1. D \subseteq Nat
  OBVIOUS
<1>2. PICK k \in D : \A y \in D : k <= y
  BY <1>1, LeastElement
<1>3. k \in 0..n /\ ~Answered(f, k)
  BY <1>2
<1>4. Answered(f, 0)
  BY DEF Answered, Replays, Untaken
<1>5. k \in 1..n /\ k - 1 \in 0..n /\ k - 1 \notin D /\ k \in Nat
  BY <1>2, <1>3, <1>4
<1>6. Answered(f, k - 1)
  BY <1>5
<1> DEFINE r == f[k - 1]
           e == s[k]
<1>7. f[k] = Taken(r, e, k)
  BY <1>5 DEF Replays
<1>8. /\ r = [ok |-> r.ok, machine |-> r.machine, done |-> r.done] /\ r.ok \in BOOLEAN
      /\ r.done \in 0..(k - 1) /\ (r.ok => r.done = k - 1)
      /\ f[r.done].ok /\ f[r.done].machine = r.machine
  BY <1>6 DEF Answered
<1> HIDE DEF r, D
<1>9. CASE ~r.ok
  <2>1. f[k] = r
    BY <1>7, <1>9 DEF Taken
  <2>2. r.done \in 0..k
    BY <1>5, <1>8
  <2>3. Answered(f, k)
    BY <1>8, <1>9, <2>1, <2>2, Zenon DEF Answered
  <2> QED BY <1>3, <2>3
<1>10. CASE r.ok /\ e.command = <<>>
  <2>1. f[k] = [r EXCEPT !.done = k]
    BY <1>7, <1>10 DEF Taken
  <2>2. f[k] = [ok |-> TRUE, machine |-> r.machine, done |-> k]
    BY <1>8, <1>10, <2>1
  <2> QED BY <1>3, <1>5, <2>2 DEF Answered
<1>11. CASE r.ok /\ e.command # <<>> /\ accepts(r.machine, e.command[1])
  <2>1. f[k] = [ok |-> TRUE, machine |-> applyCanonical(r.machine, e.command[1]), done |-> k]
    BY <1>7, <1>11 DEF Taken
  <2> QED BY <1>3, <1>5, <2>1 DEF Answered
<1>12. CASE r.ok /\ e.command # <<>> /\ ~accepts(r.machine, e.command[1])
  <2>1. f[k] = [r EXCEPT !.ok = FALSE]
    BY <1>7, <1>12 DEF Taken
  <2>2. f[k] = [ok |-> FALSE, machine |-> r.machine, done |-> r.done]
    BY <1>8, <2>1
  <2> QED BY <1>3, <1>5, <1>8, <2>2 DEF Answered
<1> QED BY <1>8, <1>9, <1>10, <1>11, <1>12

\* Replaying nothing changes nothing.
LEMMA ReplayNothing ==
  ASSUME NEW m, NEW s, Len(s) = 0
  PROVE  ReplayEntries(m, s) = Untaken(m)
<1>1. PICK f : Replays(f, m, s, 0)
  BY ReplaysExist
<1>2. ReplayEntries(m, s) = f[0]
  BY <1>1, ReplayIs
<1> QED BY <1>1, <1>2 DEF Replays

\* A replay that succeeds takes every entry; one that stops has done what
\* replaying the entries it took does.
LEMMA ReplayStops ==
  ASSUME NEW m, NEW s, Len(s) \in Nat, NEW t
  PROVE  LET r == ReplayEntries(m, s)
         IN /\ r.ok \in BOOLEAN /\ r.done \in 0..Len(s) /\ (r.ok => r.done = Len(s))
            /\ Len(t) = r.done /\ (\A k \in 1..r.done : t[k] = s[k]) =>
                 ReplayEntries(m, t).ok /\ ReplayEntries(m, t).machine = r.machine
<1>1. PICK n \in Nat : Len(s) = n
  OBVIOUS
<1>2. PICK f : Replays(f, m, s, n)
  BY ReplaysExist
<1>3. PICK r : r = ReplayEntries(m, s)
  OBVIOUS
<1>4. r = f[n]
  BY <1>1, <1>2, <1>3, ReplayIs
<1>5. /\ r.ok \in BOOLEAN /\ r.done \in 0..n /\ (r.ok => r.done = n)
      /\ f[r.done].ok /\ f[r.done].machine = r.machine
  <2>1. n \in 0..n
    OBVIOUS
  <2>2. Answered(f, n)
    BY <1>2, <2>1, ReplaysStop
  <2> QED BY <1>4, <2>2 DEF Answered
<1>6. PICK d \in 0..n : r.done = d
  BY <1>5
<1>7. ASSUME Len(t) = d, \A k \in 1..d : t[k] = s[k]
      PROVE  ReplayEntries(m, t) = f[d]
  <2>1. d \in Nat /\ d \in 0..d /\ 1..d \subseteq 1..n
    OBVIOUS
  <2>2. PICK g : Replays(g, m, t, d)
    BY <2>1, ReplaysExist
  <2>3. Replays(f, m, s, d)
    BY <1>2, <2>1 DEF Replays
  <2>4. SameCommands(t, s, d)
    BY <1>7 DEF SameCommands
  <2>5. \A k \in 0..d : g[k] = f[k]
    BY <2>1, <2>2, <2>3, <2>4, ReplaysUnique
  <2>6. ReplayEntries(m, t) = g[d]
    BY <1>7, <2>1, <2>2, ReplayIs
  <2> QED BY <2>1, <2>5, <2>6
<1>8. Len(t) = r.done /\ (\A k \in 1..r.done : t[k] = s[k]) =>
        ReplayEntries(m, t).ok /\ ReplayEntries(m, t).machine = r.machine
  BY <1>5, <1>6, <1>7
<1> QED BY <1>1, <1>3, <1>5, <1>8

\* u is s followed by t.
Joins(u, s, t) ==
  /\ Len(s) \in Nat /\ Len(t) \in Nat /\ Len(u) = Len(s) + Len(t)
  /\ \A k \in 1..Len(s) : u[k] = s[k]
  /\ \A k \in 1..Len(t) : u[Len(s) + k] = t[k]

\* A replay that succeeds can be continued.
LEMMA ReplayJoins ==
  ASSUME NEW m, NEW s, NEW t, NEW u, Joins(u, s, t),
         ReplayEntries(m, s).ok, ReplayEntries(ReplayEntries(m, s).machine, t).ok
  PROVE  /\ ReplayEntries(m, u).ok
         /\ ReplayEntries(m, u).machine = ReplayEntries(ReplayEntries(m, s).machine, t).machine
<1>1. PICK a \in Nat, b \in Nat : Len(s) = a /\ Len(t) = b /\ Len(u) = a + b
                                     /\ (\A k \in 1..a : u[k] = s[k]) /\ (\A k \in 1..b : u[a + k] = t[k])
  BY DEF Joins
<1>2. PICK m1 : m1 = ReplayEntries(m, s).machine
  OBVIOUS
<1>3. a + b \in Nat /\ a \in 0..a /\ b \in 0..b /\ 1..a \subseteq 1..(a + b)
  OBVIOUS
<1>4. PICK f : Replays(f, m, u, a + b)
  BY <1>3, ReplaysExist
<1>5. PICK g : Replays(g, m1, t, b)
  BY ReplaysExist
<1>6. f[a].ok /\ f[a].machine = m1
  <2>1. PICK h : Replays(h, m, s, a)
    BY ReplaysExist
  <2>2. Replays(f, m, u, a)
    BY <1>3, <1>4 DEF Replays
  <2>3. SameCommands(u, s, a)
    BY <1>1 DEF SameCommands
  <2>4. \A k \in 0..a : f[k] = h[k]
    BY <2>1, <2>2, <2>3, ReplaysUnique
  <2>5. ReplayEntries(m, s) = h[a]
    BY <1>1, <2>1, ReplayIs
  <2> QED BY <1>2, <1>3, <2>4, <2>5
<1>7. ReplayEntries(m, u) = f[a + b] /\ ReplayEntries(m1, t) = g[b]
  BY <1>1, <1>3, <1>4, <1>5, ReplayIs
<1>8. /\ \A k \in 0..(a + b) : /\ f[k] = [ok |-> f[k].ok, machine |-> f[k].machine, done |-> f[k].done]
                               /\ f[k].ok \in BOOLEAN
      /\ \A k \in 0..b : g[k] = [ok |-> g[k].ok, machine |-> g[k].machine, done |-> g[k].done]
  <2>1. \A k \in 0..(a + b) : /\ f[k] = [ok |-> f[k].ok, machine |-> f[k].machine, done |-> f[k].done]
                              /\ f[k].ok \in BOOLEAN
    <3>1. PICK c \in Nat : c = a + b
      BY <1>3
    <3>2. \A k \in 0..c : Answered(f, k)
      BY <1>4, <3>1, ReplaysStop
    <3> QED BY <3>1, <3>2 DEF Answered
  <2>2. \A k \in 0..b : g[k] = [ok |-> g[k].ok, machine |-> g[k].machine, done |-> g[k].done]
    <3>1. \A k \in 0..b : Answered(g, k)
      BY <1>5, ReplaysStop
    <3> QED BY <3>1 DEF Answered
  <2> QED BY <2>1, <2>2
<1> DEFINE Same(k) == f[a + k].ok = g[k].ok /\ f[a + k].machine = g[k].machine
           D == {k \in 0..b : ~Same(k)}
<1>9. D = {}
  <2> SUFFICES ASSUME D # {} PROVE FALSE
    OBVIOUS
  <2>1. D \subseteq Nat
    OBVIOUS
  <2>2. PICK k \in D : \A y \in D : k <= y
    BY <2>1, LeastElement
  <2>3. k \in 0..b /\ ~Same(k)
    BY <2>2
  <2>4. Same(0)
    <3>1. a + 0 = a /\ g[0].ok = TRUE /\ g[0].machine = m1
      BY <1>5 DEF Replays, Untaken
    <3>2. f[a].ok = TRUE
      <4>1. f[a].ok \in BOOLEAN
        <5>1. a \in 0..(a + b)
          OBVIOUS
        <5> QED BY <1>8, <5>1
      <4> QED BY <1>6, <4>1
    <3> QED BY <1>6, <3>1, <3>2
  <2>5. k \in 1..b /\ k - 1 \in 0..b /\ k - 1 \notin D /\ a + k \in 1..(a + b) /\ (a + k) - 1 = a + (k - 1)
    BY <2>2, <2>3, <2>4
  <2>6. Same(k - 1)
    BY <2>5
  <2> DEFINE p == f[a + (k - 1)]
             q == g[k - 1]
             e == t[k]
  <2>7. f[a + k] = Taken(p, e, a + k) /\ g[k] = Taken(q, e, k)
    <3>1. u[a + k] = t[k]
      BY <1>1, <2>5
    <3> QED BY <1>4, <1>5, <2>5, <3>1 DEF Replays
  <2>8. /\ p = [ok |-> p.ok, machine |-> p.machine, done |-> p.done] /\ p.ok \in BOOLEAN
        /\ q = [ok |-> q.ok, machine |-> q.machine, done |-> q.done]
    BY <1>8, <2>5
  <2>9. p.ok = q.ok /\ p.machine = q.machine
    BY <2>6
  <2> HIDE DEF p, q, e, D
  <2>10. CASE ~p.ok
    BY <2>3, <2>7, <2>9, <2>10 DEF Taken
  <2>11. CASE p.ok /\ e.command = <<>>
    <3>1. f[a + k] = [p EXCEPT !.done = a + k] /\ g[k] = [q EXCEPT !.done = k]
      BY <2>7, <2>9, <2>11 DEF Taken
    <3>2. /\ f[a + k] = [ok |-> p.ok, machine |-> p.machine, done |-> a + k]
          /\ g[k] = [ok |-> q.ok, machine |-> q.machine, done |-> k]
      BY <2>8, <3>1
    <3> QED BY <2>3, <2>9, <3>2
  <2>12. CASE p.ok /\ e.command # <<>> /\ accepts(p.machine, e.command[1])
    <3>1. /\ f[a + k] = [ok |-> TRUE, machine |-> applyCanonical(p.machine, e.command[1]), done |-> a + k]
          /\ g[k] = [ok |-> TRUE, machine |-> applyCanonical(p.machine, e.command[1]), done |-> k]
      BY <2>7, <2>9, <2>12 DEF Taken
    <3> QED BY <2>3, <3>1
  <2>13. CASE p.ok /\ e.command # <<>> /\ ~accepts(p.machine, e.command[1])
    <3>1. f[a + k] = [p EXCEPT !.ok = FALSE] /\ g[k] = [q EXCEPT !.ok = FALSE]
      BY <2>7, <2>9, <2>13 DEF Taken
    <3>2. /\ f[a + k] = [ok |-> FALSE, machine |-> p.machine, done |-> p.done]
          /\ g[k] = [ok |-> FALSE, machine |-> q.machine, done |-> q.done]
      BY <2>8, <3>1
    <3> QED BY <2>3, <2>9, <3>2
  <2> QED BY <2>8, <2>10, <2>11, <2>12, <2>13
<1>10. Same(b)
  BY <1>3, <1>9
<1> QED BY <1>2, <1>7, <1>10
-----------------------------------------------------------------------------
(* Sequences of anything.                                                  *)

\* A sequence is a function on its indexes.
LEMMA SequenceIsFunction ==
  ASSUME NEW m, IsSequence(m)
  PROVE  Len(m) \in Nat /\ m = [k \in 1..Len(m) |-> m[k]]
<1>1. PICK S : m \in Seq(S)
  BY DEF IsSequence
<1>2. Len(m) \in Nat /\ m \in [1..Len(m) -> S]
  BY <1>1, LenProperties
<1> QED BY <1>2

\* A function on the indexes up to n is a sequence of length n.
LEMMA FunctionIsSequence ==
  ASSUME NEW n \in Nat, NEW m, m = [k \in 1..n |-> m[k]]
  PROVE  IsSequence(m) /\ Len(m) = n
<1> DEFINE S == {m[k] : k \in 1..n}
<1>1. m \in [1..n -> S]
  OBVIOUS
<1> HIDE DEF S
<1>2. m \in Seq(S)
  BY <1>1, SeqDef
<1>3. Len(m) \in Nat /\ DOMAIN m = 1..Len(m) /\ DOMAIN m = 1..n
  BY <1>1, <1>2, LenProperties
<1> QED BY <1>2, <1>3 DEF IsSequence

\* Appending one element.
LEMMA AppendIsSequence ==
  ASSUME NEW m, IsSequence(m), NEW e
  PROVE  /\ IsSequence(Append(m, e)) /\ Len(m) \in Nat /\ Len(Append(m, e)) = Len(m) + 1
         /\ \A k \in 1..Len(m) : Append(m, e)[k] = m[k]
         /\ Append(m, e)[Len(m) + 1] = e
<1>1. PICK S : m \in Seq(S)
  BY DEF IsSequence
<1> DEFINE T == S \cup {e}
<1>2. m \in Seq(T) /\ e \in T
  BY <1>1, SeqMonotonic
<1> HIDE DEF T
<1>3. /\ Append(m, e) \in Seq(T) /\ Len(Append(m, e)) = Len(m) + 1
      /\ \A k \in 1..Len(m) : Append(m, e)[k] = m[k]
      /\ Append(m, e)[Len(m) + 1] = e
  BY <1>2, AppendProperties
<1>4. Len(m) \in Nat
  BY <1>2, LenProperties
<1> QED BY <1>3, <1>4 DEF IsSequence

\* Joining two sequences.
LEMMA JoinIsSequence ==
  ASSUME NEW s, NEW t, IsSequence(s), IsSequence(t)
  PROVE  IsSequence(s \o t) /\ Joins(s \o t, s, t)
<1>1. PICK a \in Nat : Len(s) = a
  BY SequenceIsFunction
<1>2. PICK b \in Nat : Len(t) = b
  BY SequenceIsFunction
<1>3. PICK S, T : s \in Seq(S) /\ t \in Seq(T)
  BY DEF IsSequence
<1> DEFINE U == S \cup T
<1>4. s \in Seq(U) /\ t \in Seq(U)
  BY <1>3, SeqMonotonic
<1> HIDE DEF U
<1>5. PICK u : u = s \o t
  OBVIOUS
<1>6. /\ u \in Seq(U) /\ Len(u) = a + b
      /\ \A k \in 1..(a + b) : u[k] = IF k <= a THEN s[k] ELSE t[k - a]
  BY <1>1, <1>2, <1>4, <1>5, ConcatProperties
<1>7. \A k \in 1..a : u[k] = s[k]
  <2>1. ASSUME NEW k \in 1..a PROVE k \in 1..(a + b) /\ k <= a
    OBVIOUS
  <2> QED BY <1>6, <2>1
<1>8. \A k \in 1..b : u[a + k] = t[k]
  <2>1. ASSUME NEW k \in 1..b PROVE a + k \in 1..(a + b) /\ ~(a + k <= a) /\ (a + k) - a = k
    OBVIOUS
  <2> QED BY <1>6, <2>1
<1> QED BY <1>1, <1>2, <1>5, <1>6, <1>7, <1>8 DEF IsSequence, Joins

\* The part of a sequence after its first p elements.
Rest(m, p) == [k \in 1..(Len(m) - p) |-> m[p + k]]

\* It is a sequence, p elements shorter.
LEMMA RestIsSequence ==
  ASSUME NEW m, IsSequence(m), NEW p \in 0..Len(m)
  PROVE  IsSequence(Rest(m, p)) /\ Len(Rest(m, p)) = Len(m) - p
<1>1. PICK n \in Nat : Len(m) = n
  BY SequenceIsFunction
<1>2. PICK d \in Nat : d = n - p
  BY <1>1
<1>3. PICK r : r = Rest(m, p)
  OBVIOUS
<1>4. r = [k \in 1..d |-> r[k]]
  BY <1>1, <1>2, <1>3 DEF Rest
<1>5. IsSequence(r) /\ Len(r) = d
  BY <1>4, FunctionIsSequence
<1> QED BY <1>1, <1>2, <1>3, <1>5

\* So is a log compacted up to the index before p.
LEMMA CutIsSequence ==
  ASSUME NEW m, IsSequence(m), NEW p \in 1..(Len(m) + 1)
  PROVE  /\ IsSequence(SubSeq(m, p, Len(m))) /\ Len(m) \in Nat
         /\ Len(SubSeq(m, p, Len(m))) = Len(m) - p + 1
<1>1. PICK S : m \in Seq(S)
  BY DEF IsSequence
<1>2. PICK n \in Nat : Len(m) = n
  BY SequenceIsFunction
<1>3. p \in Int /\ n \in Int /\ p \in 1..(n + 1) /\ \A k \in p..n : m[k] \in S
  <2>1. \A k \in 1..n : m[k] \in S
    BY <1>1, <1>2, ElementOfSeq
  <2> QED BY <1>2, <2>1
<1>4. /\ SubSeq(m, p, n) \in Seq(S)
      /\ Len(SubSeq(m, p, n)) = IF p <= n THEN n - p + 1 ELSE 0
  BY <1>3, SubSeqProperties
<1>5. Len(SubSeq(m, p, n)) = n - p + 1
  BY <1>3, <1>4
<1> QED BY <1>2, <1>4, <1>5 DEF IsSequence

\* The first p elements are a sequence of that length.
LEMMA FirstIsSequence ==
  ASSUME NEW m, IsSequence(m), NEW p \in 0..Len(m)
  PROVE  /\ IsSequence(SubSeq(m, 1, p)) /\ Len(SubSeq(m, 1, p)) = p
         /\ \A k \in 1..p : SubSeq(m, 1, p)[k] = m[k]
<1>1. PICK S : m \in Seq(S)
  BY DEF IsSequence
<1>2. PICK n \in Nat : Len(m) = n
  BY SequenceIsFunction
<1>3. p \in Int /\ 1 \in Int /\ p \in 0..n /\ \A k \in 1..p : m[k] \in S
  <2>1. \A k \in 1..n : m[k] \in S
    BY <1>1, <1>2, ElementOfSeq
  <2> QED BY <1>2, <2>1
<1>4. /\ SubSeq(m, 1, p) \in Seq(S)
      /\ Len(SubSeq(m, 1, p)) = IF 1 <= p THEN p - 1 + 1 ELSE 0
      /\ \A k \in 1..(p - 1 + 1) : SubSeq(m, 1, p)[k] = m[1 + k - 1]
  BY <1>3, SubSeqProperties
<1>5. Len(SubSeq(m, 1, p)) = p /\ p - 1 + 1 = p /\ \A k \in 1..p : 1 + k - 1 = k
  BY <1>3, <1>4
<1> QED BY <1>4, <1>5 DEF IsSequence

\* laterThan cuts off the entries up to an index.
LEMMA LaterIs ==
  ASSUME NEW m, IsSequence(m), NEW i, NEW p \in 0..Len(m), \A k \in 1..Len(m) : m[k].index > i <=> k > p
  PROVE  laterThan(m, i) = Rest(m, p)
<1>1. PICK n \in Nat : Len(m) = n
  BY SequenceIsFunction
<1> DEFINE eq(kept) == kept = [k \in 0..n |->
             IF k = 0 THEN <<>>
             ELSE IF m[k].index > i THEN Append(kept[k - 1], m[k]) ELSE kept[k - 1]]
           kept == CHOOSE kept : eq(kept)
           part(k) == [j \in 1..(k - p) |-> m[p + j]]
           g == [k \in 0..n |-> part(k)]
<1>2. laterThan(m, i) = kept[n]
  BY <1>1 DEF laterThan
<1>3. p \in 0..n /\ \A k \in 1..n : m[k].index > i <=> k > p
  BY <1>1
<1>4. \A k \in 0..n : k <= p => part(k) = <<>>
  <2>1. ASSUME NEW k \in 0..n, k <= p PROVE part(k) = <<>>
    <3>1. 1..(k - p) = {}
      BY <1>3, <2>1
    <3> QED BY <3>1
  <2> QED BY <2>1
<1>5. ASSUME NEW k \in 1..n, k > p PROVE part(k) = Append(part(k - 1), m[k])
  <2>1. PICK d \in Nat : d = k - 1 - p
    BY <1>3, <1>5
  <2>2. PICK q : q = part(k - 1)
    OBVIOUS
  <2>3. q = [j \in 1..d |-> q[j]] /\ \A j \in 1..d : q[j] = m[p + j]
    BY <2>1, <2>2
  <2>4. IsSequence(q) /\ Len(q) = d
    BY <2>3, FunctionIsSequence
  <2>5. PICK r : r = Append(q, m[k])
    OBVIOUS
  <2>6. IsSequence(r) /\ Len(r) = d + 1 /\ r[d + 1] = m[k] /\ \A j \in 1..d : r[j] = q[j]
    BY <2>4, <2>5, AppendIsSequence
  <2>7. r = [j \in 1..(d + 1) |-> r[j]]
    BY <2>6, SequenceIsFunction
  <2>8. k - p = d + 1 /\ p + (d + 1) = k
    BY <1>3, <2>1
  <2>9. \A j \in 1..(d + 1) : r[j] = m[p + j]
    <3>1. ASSUME NEW j \in 1..(d + 1) PROVE r[j] = m[p + j]
      <4>1. CASE j = d + 1
        BY <2>6, <2>8, <4>1
      <4>2. CASE j # d + 1
        <5>1. j \in 1..d
          BY <4>2
        <5> QED BY <2>3, <2>6, <5>1
      <4> QED BY <4>1, <4>2
    <3> QED BY <3>1
  <2>10. part(k) = [j \in 1..(d + 1) |-> m[p + j]]
    BY <2>8
  <2> HIDE DEF part
  <2>11. r = part(k)
    BY <2>7, <2>9, <2>10
  <2> QED BY <2>2, <2>5, <2>11
<1>6. eq(g)
  <2>1. ASSUME NEW k \in 0..n
        PROVE  g[k] = IF k = 0 THEN <<>>
                      ELSE IF m[k].index > i THEN Append(g[k - 1], m[k]) ELSE g[k - 1]
    <3> HIDE DEF part
    <3>1. CASE k = 0
      BY <1>3, <1>4, <3>1
    <3>2. CASE k # 0 /\ k > p
      <4>1. k \in 1..n /\ k - 1 \in 0..n
        BY <3>2
      <4> QED BY <1>3, <1>5, <3>2, <4>1
    <3>3. CASE k # 0 /\ ~(k > p)
      <4>1. k \in 1..n /\ k - 1 \in 0..n /\ k <= p /\ k - 1 <= p
        BY <1>3, <3>3
      <4> QED BY <1>3, <1>4, <3>3, <4>1
    <3> QED BY <3>1, <3>2, <3>3
  <2>2. g = [k \in 0..n |-> g[k]]
    OBVIOUS
  <2> HIDE DEF g
  <2> QED BY <2>1, <2>2
<1> HIDE DEF g
<1>7. eq(kept)
  BY <1>6
<1> HIDE DEF kept
<1> DEFINE D == {k \in 0..n : kept[k] # g[k]}
<1>8. D = {}
  <2> SUFFICES ASSUME D # {} PROVE FALSE
    OBVIOUS
  <2>1. D \subseteq Nat
    OBVIOUS
  <2>2. PICK k \in D : \A y \in D : k <= y
    BY <2>1, LeastElement
  <2>3. k \in 0..n /\ kept[k] # g[k]
    BY <2>2
  <2>4. k # 0
    BY <1>6, <1>7, <2>3
  <2>5. k \in 1..n /\ k - 1 \in 0..n /\ k - 1 \notin D
    BY <2>2, <2>3, <2>4
  <2>6. kept[k - 1] = g[k - 1]
    BY <2>5
  <2>7. kept[k] = IF m[k].index > i THEN Append(kept[k - 1], m[k]) ELSE kept[k - 1]
    BY <1>7, <2>3, <2>4
  <2>8. g[k] = IF m[k].index > i THEN Append(g[k - 1], m[k]) ELSE g[k - 1]
    BY <1>6, <2>3, <2>4
  <2> QED BY <2>3, <2>6, <2>7, <2>8
<1>9. n \in 0..n
  OBVIOUS
<1>10. kept[n] = g[n]
  BY <1>8, <1>9
<1>11. g[n] = part(n)
  BY <1>9 DEF g
<1> QED BY <1>1, <1>2, <1>10, <1>11 DEF Rest
-----------------------------------------------------------------------------
(* Genuine machines: those the replay of their own history gives.          *)

\* The entries a history is restored from: its commands, in order.
calls(h) == [k \in DOMAIN h |-> [command |-> <<h[k].command>>]]

\* What a replica may hold: the replay of its own history gives it back.
Genuine(m) ==
  /\ m = [state |-> m.state, history |-> m.history, chain |-> m.chain]
  /\ IsSequence(m.history) /\ Len(m.history) <= MaxCommands
  /\ ReplayEntries(Empty, calls(m.history)).ok
  /\ ReplayEntries(Empty, calls(m.history)).machine = m

\* The calls of a history are a sequence as long.
LEMMA CallsAre ==
  ASSUME NEW h, IsSequence(h)
  PROVE  /\ Len(h) \in Nat /\ Len(calls(h)) = Len(h)
         /\ \A k \in 1..Len(h) : calls(h)[k] = [command |-> <<h[k].command>>]
<1>1. PICK n \in Nat : Len(h) = n /\ h = [k \in 1..n |-> h[k]]
  BY SequenceIsFunction
<1>2. DOMAIN h = 1..n
  BY <1>1
<1>3. PICK c : c = calls(h)
  OBVIOUS
<1>4. c = [k \in 1..n |-> [command |-> <<h[k].command>>]]
  BY <1>2, <1>3 DEF calls
<1>5. c = [k \in 1..n |-> c[k]] /\ \A k \in 1..n : c[k] = [command |-> <<h[k].command>>]
  BY <1>4
<1>6. Len(c) = n
  BY <1>5, FunctionIsSequence
<1> QED BY <1>1, <1>3, <1>5, <1>6

\* A checkpoint of a genuine machine restores that machine (Restore).
LEMMA RestoreGenuine ==
  ASSUME NEW m, Genuine(m)
  PROVE  Restore(Checkpoint(m)) = [ok |-> TRUE, machine |-> m]
<1>1. PICK r : r = ReplayEntries(Empty, calls(m.history))
  OBVIOUS
<1>2. r.ok /\ r.machine = m /\ Len(m.history) <= MaxCommands
  BY <1>1 DEF Genuine
<1>3. PICK c : c = Checkpoint(m)
  OBVIOUS
<1>4. c.commands = Len(m.history) /\ c.chain = m.chain /\ c.state = m.state /\ c.history = m.history
  BY <1>3 DEF Checkpoint
<1>5. Restore(c) = [ok |-> /\ c.commands = Len(c.history)
                           /\ c.commands <= MaxCommands
                           /\ r.ok
                           /\ r.machine.history = c.history
                           /\ r.machine.chain = c.chain
                           /\ r.machine.state = c.state,
                    machine |-> r.machine]
  BY <1>1, <1>4 DEF Restore, calls
<1>6. r.ok = TRUE
  <2>1. Len(calls(m.history)) \in Nat
    BY CallsAre DEF Genuine
  <2>2. r.ok \in BOOLEAN
    BY <1>1, <2>1, ReplayStops
  <2> QED BY <1>2, <2>2
<1> QED BY <1>2, <1>3, <1>4, <1>5, <1>6

\* The machine without commands is genuine.
LEMMA EmptyIsGenuine == Genuine(Empty)
<1>1. Empty.history = <<>> /\ IsSequence(<<>>) /\ Len(<<>>) = 0
  BY DEF Empty, IsSequence
<1>2. Len(calls(<<>>)) = 0
  BY <1>1, CallsAre
<1>3. ReplayEntries(Empty, calls(<<>>)) = Untaken(Empty)
  BY <1>2, ReplayNothing
<1>4. Empty = [state |-> Empty.state, history |-> Empty.history, chain |-> Empty.chain]
  BY DEF Empty
<1> QED BY <1>1, <1>3, <1>4, ApplicationBounds DEF Genuine, Untaken

\* A genuine machine stays genuine when it executes a command.
LEMMA GenuineApplies ==
  ASSUME NEW m, Genuine(m), NEW c, accepts(m, c)
  PROVE  Genuine(applyCanonical(m, c))
<1> DEFINE b == block(m, c, stateAfter(m, c))
           e == [command |-> <<c>>]
           t == [k \in 1..1 |-> e]
<1>1. PICK h : h = m.history
  OBVIOUS
<1>2. PICK n \in Nat : Len(h) = n
  BY <1>1, CallsAre DEF Genuine
<1>3. IsSequence(h) /\ n < MaxCommands
  BY <1>1, <1>2 DEF Genuine, accepts
<1>4. PICK g : g = Append(h, b)
  OBVIOUS
<1>5. b.command = c
  BY DEF block
<1> HIDE DEF b
<1>6. IsSequence(g) /\ Len(g) = n + 1 /\ g[n + 1] = b /\ \A k \in 1..n : g[k] = h[k]
  BY <1>2, <1>3, <1>4, AppendIsSequence
<1>7. PICK m2 : m2 = applyCanonical(m, c)
  OBVIOUS
<1>8. m2 = [state |-> m2.state, history |-> g, chain |-> m2.chain]
  BY <1>1, <1>4, <1>7 DEF applyCanonical, b
<1>9. PICK s, u : s = calls(h) /\ u = calls(g)
  OBVIOUS
<1>10. Len(s) = n /\ \A k \in 1..n : s[k] = [command |-> <<h[k].command>>]
  BY <1>2, <1>3, <1>9, CallsAre
<1>11. Len(u) = n + 1 /\ \A k \in 1..(n + 1) : u[k] = [command |-> <<g[k].command>>]
  BY <1>6, <1>9, CallsAre
<1>12. Len(t) = 1 /\ t[1] = e
  <2>1. t = [k \in 1..1 |-> t[k]] /\ 1 \in Nat /\ t[1] = e
    OBVIOUS
  <2> HIDE DEF t
  <2> QED BY <2>1, FunctionIsSequence
<1>13. ReplayEntries(Empty, s).ok /\ ReplayEntries(Empty, s).machine = m
  BY <1>1, <1>9 DEF Genuine
<1> HIDE DEF t
<1>14. ReplayEntries(m, t).ok /\ ReplayEntries(m, t).machine = m2
  <2>1. PICK f : Replays(f, m, t, 1)
    BY ReplaysExist
  <2>2. ReplayEntries(m, t) = f[1]
    <3>1. Len(t) \in Nat /\ Replays(f, m, t, Len(t))
      BY <1>12, <2>1
    <3> QED BY <1>12, <3>1, ReplayIs
  <2>3. f[0] = Untaken(m) /\ f[1] = Taken(f[0], e, 1)
    <3>1. 1 \in 1..1 /\ 1 - 1 = 0
      OBVIOUS
    <3> QED BY <1>12, <2>1, <3>1 DEF Replays
  <2>4. e.command # <<>> /\ e.command[1] = c
    OBVIOUS
  <2> HIDE DEF e
  <2>5. f[1] = [ok |-> TRUE, machine |-> m2, done |-> 1]
    BY <1>7, <2>3, <2>4 DEF Untaken, Taken
  <2> QED BY <2>2, <2>5
<1>15. /\ \A k \in 1..n : u[k] = s[k]
       /\ \A k \in 1..1 : u[n + k] = t[k]
  <2>1. \A k \in 1..n : k \in 1..(n + 1)
    OBVIOUS
  <2>2. \A k \in 1..n : u[k] = s[k]
    BY <1>6, <1>10, <1>11, <2>1
  <2>3. n + 1 \in 1..(n + 1) /\ u[n + 1] = e
    BY <1>5, <1>6, <1>11
  <2>4. \A k \in 1..1 : k = 1
    OBVIOUS
  <2> QED BY <1>12, <2>2, <2>3, <2>4
<1>16. /\ ReplayEntries(Empty, u).ok
       /\ ReplayEntries(Empty, u).machine = m2
  <2>1. Joins(u, s, t)
    BY <1>2, <1>10, <1>11, <1>12, <1>15 DEF Joins
  <2> QED BY <1>13, <1>14, <2>1, ReplayJoins
<1>17. m2.history = g /\ Len(g) <= MaxCommands
  BY <1>3, <1>6, <1>8, ApplicationBounds
<1> QED BY <1>6, <1>7, <1>8, <1>9, <1>16, <1>17 DEF Genuine

\* What a replay makes of a genuine machine is genuine.
LEMMA ReplayGenuine ==
  ASSUME NEW m, Genuine(m), NEW s, Len(s) \in Nat
  PROVE  Genuine(ReplayEntries(m, s).machine)
<1>1. PICK n \in Nat : Len(s) = n
  OBVIOUS
<1>2. PICK f : Replays(f, m, s, n)
  BY ReplaysExist
<1>3. ReplayEntries(m, s) = f[n]
  BY <1>1, <1>2, ReplayIs
<1>4. \A k \in 0..n : Answered(f, k)
  BY <1>2, ReplaysStop
<1> DEFINE D == {k \in 0..n : ~Genuine(f[k].machine)}
<1>5. D = {}
  <2> SUFFICES ASSUME D # {} PROVE FALSE
    OBVIOUS
  <2>1. D \subseteq Nat
    OBVIOUS
  <2>2. PICK k \in D : \A y \in D : k <= y
    BY <2>1, LeastElement
  <2>3. k \in 0..n /\ ~Genuine(f[k].machine)
    BY <2>2
  <2>4. k # 0
    <3>1. f[0].machine = m
      BY <1>2 DEF Replays, Untaken
    <3> QED BY <2>3, <3>1
  <2>5. k \in 1..n /\ k - 1 \in 0..n /\ k - 1 \notin D
    BY <2>2, <2>3, <2>4
  <2>6. PICK r : r = f[k - 1]
    OBVIOUS
  <2>7. Genuine(r.machine) /\ r = [ok |-> r.ok, machine |-> r.machine, done |-> r.done]
    BY <1>4, <2>5, <2>6 DEF Answered
  <2>8. f[k] = Taken(r, s[k], k)
    BY <1>2, <2>5, <2>6 DEF Replays
  <2>9. f[k].machine = r.machine \/
          (accepts(r.machine, s[k].command[1]) /\ f[k].machine = applyCanonical(r.machine, s[k].command[1]))
    BY <2>7, <2>8 DEF Taken
  <2> QED BY <2>3, <2>7, <2>9, GenuineApplies
<1>6. n \in 0..n
  OBVIOUS
<1> QED BY <1>3, <1>5, <1>6

\* A checkpoint that restores gives a genuine machine.
LEMMA RestoredGenuine ==
  ASSUME NEW c, IsSequence(c.history)
  PROVE  Genuine(Restore(c).machine)
<1>1. Restore(c).machine = ReplayEntries(Empty, calls(c.history)).machine
  BY DEF Restore, calls
<1>2. Len(calls(c.history)) \in Nat
  BY CallsAre
<1> QED BY <1>1, <1>2, EmptyIsGenuine, ReplayGenuine
-----------------------------------------------------------------------------
(* The applied entries, and what rebuilds the application from them.       *)

\* The entries of a store are numbered without a gap up to the applied index.
Numbered(st) ==
  /\ st.applied \in Nat /\ IsSequence(st.entries) /\ Len(st.entries) <= st.applied
  /\ \A k \in 1..Len(st.entries) : st.entries[k].index = st.applied - Len(st.entries) + k

\* The index before its first entry, and whether nothing was cut off.
base(st) == st.applied - Len(st.entries)
Whole(st) == Len(st.entries) = st.applied

SnapShape(s) == s.index \in Nat /\ IsSequence(s.data.history)

\* A replay succeeds, and gives m.
Gives(r, m) == r.ok /\ r.machine = m

\* All entries, when none was cut off, give the machine m; so do an applied
\* snapshot and the entries above it.
WholeRebuilds(st, m) == Whole(st) => Gives(ReplayEntries(Empty, st.entries), m)

\* Nothing is claimed of a snapshot that the applied index has not reached:
\* there is none yet, or its installation was not acknowledged.
Rebuilds(st, s, m) ==
  s.index > 0 /\ s.index <= st.applied =>
    /\ base(st) <= s.index
    /\ Restore(s.data).ok
    /\ Gives(ReplayEntries(Restore(s.data).machine, Rest(st.entries, s.index - base(st))), m)

\* The entries above an index are numbered from there.
LEMMA EntriesAreNumbered ==
  ASSUME NEW n, lastIndex(n) \in Nat, NEW i \in Nat, i <= lastIndex(n)
  PROVE  LET es == entriesAbove(n, i)
         IN /\ IsSequence(es) /\ Len(es) = lastIndex(n) - i
            /\ \A k \in 1..Len(es) : es[k].index = i + k
<1>1. PICK d \in Nat : d = lastIndex(n) - i
  OBVIOUS
<1>2. PICK es : es = entriesAbove(n, i)
  OBVIOUS
<1>3. es = [k \in 1..d |-> es[k]] /\ \A k \in 1..d : es[k].index = i + k
  BY <1>1, <1>2 DEF entriesAbove
<1>4. IsSequence(es) /\ Len(es) = d
  BY <1>3, FunctionIsSequence
<1> QED BY <1>1, <1>2, <1>3, <1>4

\* Entries numbered from the index after a; every snapshot that rebuilds m
\* from one store rebuilds m2 from another.
NumberedFrom(es, a) == \A k \in 1..Len(es) : es[k].index = a + k

Carries(st, m, st2, m2) ==
  \A s : SnapShape(s) /\ s.index <= st.applied /\ Rebuilds(st, s, m) => Rebuilds(st2, s, m2)

\* r is the replay of es onto m, and st2 the store it leaves.
Extends(st, m, es, r, st2) ==
  /\ r = ReplayEntries(m, es)
  /\ st2 = [applied |-> st.applied + r.done, entries |-> st.entries \o SubSeq(es, 1, r.done)]

\* Replaying further entries onto what is rebuilt (applyTransition): the
\* entries taken are kept, and rebuild what the replay gives.
LEMMA AppliedRebuilds ==
  ASSUME NEW st, Numbered(st), NEW m, NEW es, IsSequence(es),
         NumberedFrom(es, st.applied), NEW r, NEW st2, Extends(st, m, es, r, st2)
  PROVE  /\ Numbered(st2) /\ r.done \in 0..Len(es) /\ (Whole(st) <=> Whole(st2))
         /\ WholeRebuilds(st, m) => WholeRebuilds(st2, r.machine)
         /\ Carries(st, m, st2, r.machine)
<1>1. /\ r = ReplayEntries(m, es)
       /\ st2 = [applied |-> st.applied + r.done, entries |-> st.entries \o SubSeq(es, 1, r.done)]
  BY DEF Extends
<1>2. PICK l \in Nat : Len(es) = l
  BY SequenceIsFunction
<1>3. PICK d \in 0..l : r.done = d
  BY <1>1, <1>2, ReplayStops
<1>4. PICK t : t = SubSeq(es, 1, d)
  OBVIOUS
<1>5. IsSequence(t) /\ Len(t) = d /\ \A k \in 1..d : t[k] = es[k]
  BY <1>2, <1>4, FirstIsSequence
<1>6. Gives(ReplayEntries(m, t), r.machine)
  <2>1. Len(es) \in Nat /\ Len(t) = r.done /\ \A k \in 1..r.done : t[k] = es[k]
    BY <1>2, <1>3, <1>5
  <2> QED BY <1>1, <2>1, ReplayStops DEF Gives
<1>7. PICK a \in Nat : st.applied = a
  BY DEF Numbered
<1>8. PICK e : e = st.entries /\ IsSequence(e)
  BY DEF Numbered
<1>9. PICK n \in Nat : Len(e) = n
  BY <1>8, SequenceIsFunction
<1>10. st.applied = a /\ e = st.entries /\ Len(e) = n
  BY <1>7, <1>8, <1>9
<1>11. /\ IsSequence(e) /\ n <= a /\ base(st) = a - n /\ a - n \in Nat
      /\ \A k \in 1..n : e[k].index = a - n + k
  <2>1. IsSequence(e) /\ n <= a /\ base(st) = a - n /\ a - n \in Nat
    BY <1>7, <1>8, <1>9, <1>10 DEF Numbered, base
  <2>2. \A k \in 1..n : e[k].index = a - n + k
    BY <1>10 DEF Numbered
  <2> QED BY <2>1, <2>2
<1>12. PICK e2 : e2 = e \o t
  OBVIOUS
<1>13. IsSequence(e2) /\ Joins(e2, e, t)
  BY <1>5, <1>8, <1>12, JoinIsSequence
<1>14. Len(e2) = n + d
  BY <1>5, <1>9, <1>13 DEF Joins
<1>15. \A k \in 1..n : e2[k] = e[k]
  BY <1>9, <1>13 DEF Joins
<1>16. \A k \in 1..d : e2[n + k] = t[k]
  BY <1>5, <1>9, <1>13 DEF Joins
<1>17. st2.applied = a + d /\ st2.entries = e2
  BY <1>1, <1>3, <1>4, <1>10, <1>12
<1>18. base(st2) = a - n
  <2>1. (a + d) - (n + d) = a - n
    BY <1>3
  <2> QED BY <1>14, <1>17, <2>1 DEF base
<1>19. Numbered(st2)
  <2>1. ASSUME NEW k \in 1..(n + d) PROVE e2[k].index = a - n + k
    <3>1. CASE k <= n
      <4>1. k \in 1..n
        BY <3>1
      <4> QED BY <1>11, <1>15, <4>1
    <3>2. CASE k > n
      <4>1. PICK j \in 1..d : k = n + j
        <5>1. k - n \in 1..d /\ k = n + (k - n)
          BY <1>3, <3>2
        <5> QED BY <5>1
      <4>2. j \in 1..l /\ e2[k] = es[j]
        <5>1. j \in 1..l
          BY <1>3
        <5>2. e2[k] = t[j] /\ t[j] = es[j]
          BY <1>5, <1>16, <4>1
        <5> QED BY <5>1, <5>2
      <4>3. es[j].index = a + j
        BY <1>2, <1>10, <4>2 DEF NumberedFrom
      <4> QED BY <1>11, <4>1, <4>2, <4>3
    <3> QED BY <3>1, <3>2
  <2>2. (a + d) - (n + d) = a - n /\ n + d <= a + d /\ a + d \in Nat
    BY <1>3, <1>11
  <2> QED BY <1>14, <1>17, <1>13, <2>1, <2>2 DEF Numbered
<1>20. Whole(st) <=> Whole(st2)
  <2>1. n = a <=> n + d = a + d
    BY <1>3
  <2> QED BY <1>10, <1>14, <1>17, <2>1 DEF Whole
<1>21. WholeRebuilds(st, m) => WholeRebuilds(st2, r.machine)
  <2> SUFFICES ASSUME WholeRebuilds(st, m), Whole(st2)
               PROVE  Gives(ReplayEntries(Empty, e2), r.machine)
    BY <1>17 DEF WholeRebuilds
  <2>1. Gives(ReplayEntries(Empty, e), m)
    BY <1>10, <1>20 DEF WholeRebuilds
  <2> QED BY <1>6, <1>13, <2>1, ReplayJoins DEF Gives
<1>22. ASSUME NEW s, SnapShape(s), s.index <= a, Rebuilds(st, s, m), s.index > 0
       PROVE  Rebuilds(st2, s, r.machine)
  <2>1. /\ a - n <= s.index /\ Restore(s.data).ok
        /\ Gives(ReplayEntries(Restore(s.data).machine, Rest(e, s.index - (a - n))), m)
    BY <1>10, <1>11, <1>22 DEF Rebuilds
  <2>2. PICK p \in 0..n : p = s.index - (a - n)
    BY <1>11, <1>22, <2>1 DEF SnapShape
  <2>3. Joins(Rest(e2, p), Rest(e, p), t)
    <3>1. p \in 0..Len(e) /\ p \in 0..Len(e2)
      BY <1>3, <1>10, <1>14
    <3>2. Len(Rest(e, p)) = n - p /\ Len(Rest(e2, p)) = n + d - p
      <4>1. Len(Rest(e, p)) = n - p
        BY <1>10, <1>11, <3>1, RestIsSequence
      <4>2. Len(Rest(e2, p)) = Len(e2) - p
        BY <1>13, <3>1, RestIsSequence
      <4> QED BY <1>14, <4>1, <4>2
    <3>3. ASSUME NEW k \in 1..(n - p) PROVE Rest(e2, p)[k] = Rest(e, p)[k]
      <4>1. p + k \in 1..n /\ k \in 1..(n + d - p)
        BY <1>3
      <4>2. Rest(e2, p)[k] = e2[p + k] /\ Rest(e, p)[k] = e[p + k]
        BY <1>10, <1>14, <4>1 DEF Rest
      <4> QED BY <1>15, <4>1, <4>2
    <3>4. ASSUME NEW k \in 1..d PROVE Rest(e2, p)[n - p + k] = t[k]
      <4>1. p + (n - p + k) = n + k /\ n - p + k \in 1..(n + d - p)
        BY <1>3
      <4>2. Rest(e2, p)[n - p + k] = e2[n + k]
        BY <1>14, <4>1 DEF Rest
      <4> QED BY <1>16, <4>2
    <3>5. PICK c \in Nat : c = n - p
      OBVIOUS
    <3>6. Len(Rest(e, p)) = c /\ Len(Rest(e2, p)) = c + d
      BY <1>3, <3>2, <3>5
    <3> QED BY <1>3, <1>5, <3>3, <3>4, <3>5, <3>6 DEF Joins
  <2>4. Gives(ReplayEntries(Restore(s.data).machine, Rest(e2, p)), r.machine)
    BY <1>6, <2>1, <2>2, <2>3, ReplayJoins DEF Gives
  <2> QED BY <1>17, <1>18, <2>1, <2>2, <2>4 DEF Rebuilds
<1>23. Carries(st, m, st2, r.machine)
  <2>1. \A s : ~(s.index > 0) => Rebuilds(st2, s, r.machine)
    BY DEF Rebuilds
  <2> QED BY <1>10, <1>22, <2>1 DEF Carries
<1>24. d \in 0..Len(es)
  BY <1>2
<1> QED BY <1>3, <1>19, <1>20, <1>21, <1>23, <1>24

\* What laterThan leaves of the entries of a store.
LEMMA LaterRest ==
  ASSUME NEW st, Numbered(st), NEW i \in Nat
  PROVE  /\ i <= base(st) => laterThan(st.entries, i) = Rest(st.entries, 0)
         /\ base(st) <= i /\ i <= st.applied =>
              /\ i - base(st) \in 0..Len(st.entries)
              /\ laterThan(st.entries, i) = Rest(st.entries, i - base(st))
         /\ i >= st.applied => laterThan(st.entries, i) = <<>>
<1>1. PICK a \in Nat : st.applied = a
  BY DEF Numbered
<1>2. PICK e : e = st.entries /\ IsSequence(e)
  BY DEF Numbered
<1>3. PICK n \in Nat : Len(e) = n
  BY <1>2, SequenceIsFunction
<1>4. n <= a /\ base(st) = a - n
  BY <1>1, <1>2, <1>3 DEF Numbered, base
<1>5. \A k \in 1..n : e[k].index = a - n + k
  BY <1>1, <1>2, <1>3 DEF Numbered
<1>6. ASSUME NEW p \in 0..n, \A k \in 1..n : a - n + k > i <=> k > p
      PROVE  laterThan(e, i) = Rest(e, p)
  <2>1. p \in 0..Len(e) /\ \A k \in 1..Len(e) : e[k].index > i <=> k > p
    BY <1>3, <1>5, <1>6
  <2> QED BY <1>2, <2>1, LaterIs
<1>7. ASSUME i <= a - n PROVE laterThan(e, i) = Rest(e, 0)
  <2>1. 0 \in 0..n /\ \A k \in 1..n : a - n + k > i <=> k > 0
    BY <1>4, <1>7
  <2> QED BY <1>6, <2>1
<1>8. ASSUME a - n <= i, i <= a
      PROVE  i - (a - n) \in 0..n /\ laterThan(e, i) = Rest(e, i - (a - n))
  <2>1. PICK p \in 0..n : p = i - (a - n)
    BY <1>4, <1>8
  <2>2. \A k \in 1..n : a - n + k > i <=> k > p
    BY <1>4, <2>1
  <2>3. laterThan(e, i) = Rest(e, p)
    BY <1>6, <2>2
  <2> QED BY <2>1, <2>3
<1>9. ASSUME i >= a PROVE laterThan(e, i) = <<>>
  <2>1. n \in 0..n /\ \A k \in 1..n : a - n + k > i <=> k > n
    BY <1>4, <1>9
  <2>2. laterThan(e, i) = Rest(e, n)
    BY <1>6, <2>1
  <2>3. 1..(n - n) = {}
    OBVIOUS
  <2>4. Rest(e, n) = <<>>
    BY <1>3, <2>3 DEF Rest
  <2> QED BY <2>2, <2>4
<1> QED BY <1>1, <1>2, <1>3, <1>4, <1>7, <1>8, <1>9

\* All of a sequence is what follows its first no elements.
LEMMA RestAll ==
  ASSUME NEW e, IsSequence(e)
  PROVE  Rest(e, 0) = e
<1>1. PICK n \in Nat : Len(e) = n /\ e = [k \in 1..n |-> e[k]]
  BY SequenceIsFunction
<1>2. n - 0 = n /\ \A k \in 1..n : 0 + k = k
  OBVIOUS
<1> QED BY <1>1, <1>2 DEF Rest

\* A tail without a gap, from the index i and up to a.
Gapless(tail, i, a) == \A k \in DOMAIN tail : tail[k].index = i + k /\ tail[k].index <= a

\* The indexes of the tail a recovery replays.
LEMMA RestIndexes ==
  ASSUME NEW st, Numbered(st), NEW p \in 0..Len(st.entries)
  PROVE  /\ Len(Rest(st.entries, p)) = Len(st.entries) - p
         /\ Gapless(Rest(st.entries, p), base(st) + p, st.applied)
<1>1. PICK a \in Nat : st.applied = a
  BY DEF Numbered
<1>2. PICK e : e = st.entries /\ IsSequence(e)
  BY DEF Numbered
<1>3. PICK n \in Nat : Len(e) = n
  BY <1>2, SequenceIsFunction
<1>4. n <= a /\ base(st) = a - n
  BY <1>1, <1>2, <1>3 DEF Numbered, base
<1>5. \A k \in 1..n : e[k].index = a - n + k
  BY <1>1, <1>2, <1>3 DEF Numbered
<1>6. p \in 0..n
  BY <1>2, <1>3
<1>7. Len(Rest(e, p)) = n - p
  <2>1. p \in 0..Len(e)
    BY <1>3, <1>6
  <2> QED BY <1>2, <1>3, <2>1, RestIsSequence
<1>8. DOMAIN Rest(e, p) = 1..(n - p) /\ \A k \in 1..(n - p) : Rest(e, p)[k] = e[p + k]
  BY <1>3 DEF Rest
<1>9. ASSUME NEW k \in 1..(n - p)
      PROVE  e[p + k].index = (a - n) + p + k /\ e[p + k].index <= a
  <2>1. p + k \in 1..n /\ a - n + (p + k) = (a - n) + p + k /\ (a - n) + p + k <= a
    BY <1>4, <1>6
  <2> QED BY <1>5, <2>1
<1> QED BY <1>1, <1>2, <1>3, <1>4, <1>7, <1>8, <1>9 DEF Gapless

\* recoverApplication gives the machine m: from the durable snapshot once it
\* is applied, or from all the entries.  When nothing covers the entries that
\* were cut, it fails.
LEMMA RecoverGives ==
  ASSUME NEW st, Numbered(st), NEW d, SnapShape(d.snap), NEW m,
         WholeRebuilds(st, m), Rebuilds(st, d.snap, m), d.snap.index = 0 => Whole(st)
  PROVE  LET r == recoverApplication(d, st)
         IN /\ r.ok => r.machine = m
            /\ d.snap.index <= st.applied \/ Whole(st) => r.ok /\ r.machine = m
<1>1. PICK r : r = recoverApplication(d, st)
  OBVIOUS
<1>2. PICK a \in Nat : st.applied = a
  BY DEF Numbered
<1>3. PICK e : e = st.entries /\ IsSequence(e)
  BY DEF Numbered
<1>4. PICK n \in Nat : Len(e) = n
  BY <1>3, SequenceIsFunction
<1>5. n <= a /\ base(st) = a - n
  BY <1>2, <1>3, <1>4 DEF Numbered, base
<1>6. PICK i \in Nat : d.snap.index = i
  BY DEF SnapShape
<1>7. CASE i > 0 /\ i <= a
  <2>1. /\ a - n <= i /\ Restore(d.snap.data).ok
        /\ Gives(ReplayEntries(Restore(d.snap.data).machine, Rest(e, i - (a - n))), m)
    BY <1>2, <1>3, <1>5, <1>6, <1>7 DEF Rebuilds
  <2>2. PICK p \in 0..n : p = i - (a - n)
    BY <1>5, <1>7, <2>1
  <2>3. PICK tail : tail = laterThan(e, i)
    OBVIOUS
  <2>4. tail = Rest(e, p)
    BY <1>2, <1>3, <1>5, <1>7, <2>1, <2>2, <2>3, LaterRest
  <2>5. Len(tail) = n - p /\ Gapless(tail, (a - n) + p, a)
    BY <1>2, <1>3, <1>4, <1>5, <2>2, <2>4, RestIndexes
  <2>6. (a - n) + p = i /\ i + (n - p) = a
    BY <1>5, <2>2
  <2>7. PICK q : q = Restore(d.snap.data)
    OBVIOUS
  <2>8. PICK s : s = ReplayEntries(q.machine, tail)
    OBVIOUS
  <2>9. r = [ok |-> /\ q.ok /\ s.ok
                    /\ \A k \in DOMAIN tail : tail[k].index = i + k /\ tail[k].index <= a
                    /\ i + Len(tail) = a,
             machine |-> s.machine]
    BY <1>1, <1>2, <1>3, <1>6, <1>7, <2>3, <2>7, <2>8 DEF recoverApplication
  <2>10. q.ok /\ s.ok /\ s.machine = m
    BY <2>1, <2>2, <2>4, <2>7, <2>8 DEF Gives
  <2>11. r.ok /\ r.machine = m
    BY <2>5, <2>6, <2>9, <2>10 DEF Gapless
  <2> QED BY <1>1, <2>11
<1>8. CASE ~(i > 0 /\ i <= a)
  <2>1. PICK tail : tail = laterThan(e, 0)
    OBVIOUS
  <2>2. tail = e
    <3>1. 0 <= a - n /\ 0 \in Nat
      BY <1>5
    <3> QED BY <1>3, <1>5, <2>1, <3>1, LaterRest, RestAll
  <2>3. PICK s : s = ReplayEntries(Empty, tail)
    OBVIOUS
  <2>4. r = [ok |-> /\ TRUE /\ s.ok
                    /\ \A k \in DOMAIN tail : tail[k].index = 0 + k /\ tail[k].index <= a
                    /\ 0 + Len(tail) = a,
             machine |-> s.machine]
    BY <1>1, <1>2, <1>3, <1>6, <1>8, <2>1, <2>3 DEF recoverApplication
  <2>5. r.ok => n = a
    BY <1>4, <2>2, <2>4
  <2>6. ASSUME n = a PROVE r.ok /\ r.machine = m
    <3>1. s.ok /\ s.machine = m
      BY <1>2, <1>3, <1>4, <2>2, <2>3, <2>6 DEF WholeRebuilds, Whole, Gives
    <3>2. \A k \in DOMAIN tail : tail[k].index = 0 + k /\ tail[k].index <= a
      <4>1. 0 \in 0..n /\ Rest(e, 0) = e
        BY <1>3, RestAll
      <4>2. Gapless(tail, (a - n) + 0, a)
        BY <1>2, <1>3, <1>4, <1>5, <2>2, <4>1, RestIndexes
      <4>3. (a - n) + 0 = 0
        BY <2>6
      <4> QED BY <4>2, <4>3 DEF Gapless
    <3>3. 0 + Len(tail) = a
      BY <1>4, <2>2, <2>6
    <3> QED BY <2>4, <3>1, <3>2, <3>3
  <2>7. d.snap.index <= st.applied \/ Whole(st) => n = a
    BY <1>2, <1>3, <1>4, <1>6, <1>8 DEF Whole
  <2> QED BY <1>1, <2>5, <2>6, <2>7
<1> QED BY <1>7, <1>8
-----------------------------------------------------------------------------
(* Releasing a transition keeps the store sound.                           *)

\* A store and a durable snapshot that rebuild the machine m.
Sound(st, s, m) ==
  /\ Genuine(m) /\ Numbered(st) /\ WholeRebuilds(st, m)
  /\ SnapShape(s) /\ Rebuilds(st, s, m)
  /\ s.index = 0 => Whole(st)

\* A snapshot taken of m at an applied index: above the node's snapshot it
\* rebuilds m, otherwise the node refuses it.
Offered(st, s, floor, m) ==
  /\ SnapShape(s) /\ s.index <= st.applied
  /\ s.index > floor => Rebuilds(st, s, m)

\* EffectInstallSnapshot and EffectApply, whether they succeed or not.
LEMMA ReleaseSound ==
  ASSUME NEW n, NEW st, NEW m, Sound(st, n.snap, m), NEW last \in Nat, lastIndex(n) = last,
         st.applied <= last, n.snap.index <= last
  PROVE  LET r == release(n, st, m)
         IN /\ Sound(r.store, n.snap, r.app) /\ r.store.applied <= last
            /\ \A s : Offered(st, s, n.snap.index, m) => Offered(r.store, s, n.snap.index, r.app)
<1>1. PICK r : r = release(n, st, m)
  OBVIOUS
<1>2. PICK i \in Nat : n.snap.index = i
  BY DEF Sound, SnapShape
<1>3. PICK a \in Nat : st.applied = a
  BY DEF Sound, Numbered
<1>4. PICK q : q = Restore(n.snap.data)
  OBVIOUS
<1>5. CASE i > a /\ ~q.ok
  <2>1. r.app = m /\ r.store = st
    BY <1>1, <1>2, <1>3, <1>4, <1>5 DEF release
  <2> QED BY <1>1, <2>1
<1>6. CASE i > a /\ q.ok
  <2>1. PICK es : es = entriesAbove(n, i)
    OBVIOUS
  <2>2. PICK p : p = ReplayEntries(q.machine, es)
    OBVIOUS
  <2>3. PICK st1 : st1 = [applied |-> i, entries |-> <<>>]
    OBVIOUS
  <2>4. laterThan(st.entries, i) = <<>>
    BY <1>3, <1>6, LaterRest DEF Sound
  <2>5. PICK st2 : st2 = [applied |-> st1.applied + p.done, entries |-> st1.entries \o SubSeq(es, 1, p.done)]
    OBVIOUS
  <2>6. r.app = p.machine /\ r.store = st2
    BY <1>1, <1>2, <1>3, <1>4, <1>6, <2>1, <2>2, <2>3, <2>4, <2>5 DEF release
  <2>7. IsSequence(es) /\ Len(es) = last - i /\ NumberedFrom(es, i)
    BY <1>2, <2>1, EntriesAreNumbered DEF NumberedFrom
  <2>8. Numbered(st1) /\ ~Whole(st1) /\ base(st1) = i
    <3>1. IsSequence(<<>>) /\ Len(<<>>) = 0
      BY DEF IsSequence
    <3>2. st1.applied = i /\ st1.entries = <<>> /\ i - 0 = i /\ i > 0
      BY <1>6, <2>3
    <3> QED BY <3>1, <3>2 DEF Numbered, Whole, base
  <2>9. Rebuilds(st1, n.snap, q.machine)
    <3>1. i - i = 0 /\ Len(<<>>) = 0 /\ IsSequence(<<>>)
      BY DEF IsSequence
    <3>2. Rest(<<>>, 0) = <<>>
      BY <3>1, RestAll
    <3>3. Gives(ReplayEntries(q.machine, <<>>), q.machine)
      BY <3>1, ReplayNothing DEF Gives, Untaken
    <3> QED BY <1>2, <1>4, <1>6, <2>3, <2>8, <3>1, <3>2, <3>3 DEF Rebuilds
  <2>10. /\ Numbered(st2) /\ p.done \in 0..Len(es) /\ ~Whole(st2)
         /\ Rebuilds(st2, n.snap, p.machine)
    <3>1. Extends(st1, q.machine, es, p, st2)
      BY <2>2, <2>5 DEF Extends
    <3>2. NumberedFrom(es, st1.applied)
      BY <2>3, <2>7 DEF NumberedFrom
    <3>3. SnapShape(n.snap) /\ n.snap.index <= st1.applied
      BY <1>2, <2>3 DEF Sound
    <3>4. /\ Numbered(st2) /\ p.done \in 0..Len(es) /\ (Whole(st1) <=> Whole(st2))
          /\ Carries(st1, q.machine, st2, p.machine)
      BY <2>7, <2>8, <3>1, <3>2, AppliedRebuilds
    <3> QED BY <2>8, <2>9, <3>3, <3>4 DEF Carries
  <2>11. st2.applied \in Nat /\ st2.applied <= last /\ i <= st2.applied
    BY <1>2, <2>3, <2>5, <2>7, <2>10
  <2>12. Genuine(p.machine)
    <3>1. Genuine(q.machine)
      BY <1>4, RestoredGenuine DEF Sound, SnapShape
    <3>2. Len(es) \in Nat
      BY <2>7, SequenceIsFunction
    <3> QED BY <2>2, <3>1, <3>2, ReplayGenuine
  <2>13. Sound(st2, n.snap, p.machine)
    BY <1>2, <1>3, <1>6, <2>10, <2>12 DEF Sound, WholeRebuilds
  <2>14. ASSUME NEW s, Offered(st, s, i, m) PROVE Offered(st2, s, i, p.machine)
    BY <1>3, <1>6, <2>11, <2>14 DEF Offered, SnapShape
  <2> QED BY <1>1, <1>2, <2>6, <2>11, <2>13, <2>14
<1>7. CASE ~(i > a)
  <2>1. PICK es : es = entriesAbove(n, a)
    OBVIOUS
  <2>2. PICK p : p = ReplayEntries(m, es)
    OBVIOUS
  <2>3. PICK st2 : st2 = [applied |-> st.applied + p.done, entries |-> st.entries \o SubSeq(es, 1, p.done)]
    OBVIOUS
  <2>4. r.app = p.machine /\ r.store = st2
    BY <1>1, <1>2, <1>3, <1>7, <2>1, <2>2, <2>3 DEF release
  <2>5. IsSequence(es) /\ Len(es) = last - a /\ NumberedFrom(es, a)
    BY <1>3, <2>1, EntriesAreNumbered DEF NumberedFrom
  <2>6. /\ Numbered(st2) /\ p.done \in 0..Len(es) /\ (Whole(st) <=> Whole(st2))
        /\ WholeRebuilds(st2, p.machine)
        /\ Carries(st, m, st2, p.machine)
    <3>1. NumberedFrom(es, st.applied)
      BY <1>3, <2>5 DEF NumberedFrom
    <3>2. Extends(st, m, es, p, st2)
      BY <2>2, <2>3 DEF Extends
    <3>3. Numbered(st) /\ WholeRebuilds(st, m)
      BY DEF Sound
    <3> QED BY <2>5, <3>1, <3>2, <3>3, AppliedRebuilds
  <2>7. st2.applied \in Nat /\ st2.applied <= last /\ a <= st2.applied
    BY <1>3, <2>3, <2>5, <2>6
  <2>8. Genuine(p.machine)
    <3>1. Len(es) \in Nat
      BY <2>5, SequenceIsFunction
    <3> QED BY <2>2, <3>1, ReplayGenuine DEF Sound
  <2>9. Rebuilds(st2, n.snap, p.machine)
    BY <1>2, <1>3, <1>7, <2>6 DEF Sound, Carries
  <2>10. Sound(st2, n.snap, p.machine)
    BY <2>6, <2>8, <2>9 DEF Sound
  <2>11. ASSUME NEW s, Offered(st, s, i, m) PROVE Offered(st2, s, i, p.machine)
    <3>1. SnapShape(s) /\ s.index <= st.applied /\ (s.index > i => Rebuilds(st, s, m))
      BY <2>11 DEF Offered
    <3>2. s.index <= st2.applied
      BY <1>3, <2>7, <3>1 DEF SnapShape
    <3> QED BY <2>6, <3>1, <3>2 DEF Offered, Carries
  <2> QED BY <1>1, <1>2, <2>4, <2>7, <2>10, <2>11
<1> QED BY <1>5, <1>6, <1>7
-----------------------------------------------------------------------------
(* What a transition does to the log and the snapshot of the node.         *)

\* What the recovery needs of a node.
LogShape(n) ==
  /\ SnapShape(n.snap) /\ IsSequence(n.log)
  /\ n.applied \in Nat /\ n.applied <= lastIndex(n)

\* The log of n2 goes at least as far as that of n, and its snapshot is that
\* of n, a leader's above the whole log, or a later one that q asks for.
Extended(n, n2, q) ==
  /\ LogShape(n2) /\ lastIndex(n) <= lastIndex(n2)
  /\ \/ n2.snap = n.snap
     \/ n2.snap.index > lastIndex(n)
     \/ q.kind = "snapshot" /\ n2.snap = q.arg /\ n2.snap.index > n.snap.index

\* Fields that say nothing of the log.
SameLog(n, n2) == n2.snap = n.snap /\ n2.log = n.log /\ n2.applied = n.applied

\* A node with the same log is an extension.
LEMMA SameExtends ==
  ASSUME NEW n, LogShape(n), NEW n2, SameLog(n, n2), NEW q
  PROVE  Extended(n, n2, q)
<1>1. lastIndex(n2) = lastIndex(n) /\ lastIndex(n) \in Nat
  BY SequenceIsFunction DEF SameLog, lastIndex, LogShape, SnapShape
<1> QED BY <1>1 DEF Extended, SameLog, LogShape

\* Appending an entry extends the log.
LEMMA AppendExtends ==
  ASSUME NEW n, LogShape(n), DOMAIN n = NodeFields, NEW c, NEW q
  PROVE  Extended(n, append(n, c), q)
<1>1. PICK k : k = append(n, c)
  OBVIOUS
<1>2. k.snap = n.snap /\ k.log = Append(n.log, c) /\ k.applied = lastIndex(n) + 1
  BY <1>1 DEF append, NodeFields
<1>3. PICK l \in Nat, i \in Nat : Len(n.log) = l /\ n.snap.index = i
  BY SequenceIsFunction DEF LogShape, SnapShape
<1>4. IsSequence(k.log) /\ Len(k.log) = l + 1
  BY <1>2, <1>3, AppendIsSequence DEF LogShape
<1>5. lastIndex(n) = i + l /\ lastIndex(k) = i + (l + 1)
  BY <1>2, <1>3, <1>4 DEF lastIndex
<1> QED BY <1>1, <1>2, <1>3, <1>4, <1>5 DEF Extended, LogShape

\* A node with the same log, and then an entry.
LEMMA SameAppendExtends ==
  ASSUME NEW n, LogShape(n), NEW n2, SameLog(n, n2), DOMAIN n2 = NodeFields, NEW c, NEW q
  PROVE  Extended(n, append(n2, c), q)
<1>1. LogShape(n2) /\ lastIndex(n2) = lastIndex(n)
  BY SameExtends DEF Extended, SameLog, lastIndex
<1>2. Extended(n2, append(n2, c), q)
  BY <1>1, AppendExtends
<1> QED BY <1>1, <1>2 DEF Extended, SameLog

\* Every transition extends the log, and one that leaves the node clean
\* leaves it alone.
LEMMA NodeStepExtends ==
  ASSUME NEW n, NodeShape(n), LogShape(n), ~n.pending, IsSequence(app.history),
         NEW q, q.kind \in InputKinds, q.kind = "snapshot" => SnapShape(q.arg), NEW o \in NodeStep(n, q)
  PROVE  Extended(n, o.node, q) /\ (~o.dirty \/ ~o.ok => SameLog(n, o.node))
<1> DEFINE Clean(k, r) == o = Outcome(k, FALSE, r) /\ SameLog(n, k)
           Dirty(k, r) == o = Outcome(k, TRUE, r) /\ Extended(n, k, q)
<1>1. o = Refused(n) \/ (\E k, r : Clean(k, r)) \/ (\E k, r : Dirty(k, r))
      => Extended(n, o.node, q) /\ (~o.dirty \/ ~o.ok => SameLog(n, o.node))
  BY SameExtends DEF Outcome, Refused, SameLog
<1>2. DOMAIN n = NodeFields
  BY DEF NodeShape
<1>3. SameLog(n, n) /\ SameLog(n, follow(n)) /\ DOMAIN follow(n) = NodeFields
  BY <1>2 DEF SameLog, follow, NodeFields
<1>4. Extended(n, lead(n), q)
  <2> DEFINE k == [n EXCEPT !.role = "leader"]
  <2>1. SameLog(n, k) /\ DOMAIN k = NodeFields
    BY <1>2 DEF SameLog, NodeFields
  <2> QED BY <2>1, SameAppendExtends DEF lead
<1>5. CASE q.kind = "election"
  <2> DEFINE k == [n EXCEPT !.role = "candidate"]
  <2>1. o \in {Outcome(n, FALSE, {}), Outcome(k, TRUE, {"election"}), Outcome(lead(n), TRUE, Kinds)}
    BY <1>5 DEF NodeStep
  <2>2. Extended(n, k, q)
    <3>1. SameLog(n, k)
      BY <1>2 DEF SameLog, NodeFields
    <3> QED BY <3>1, SameExtends
  <2> HIDE DEF k
  <2> QED BY <1>1, <1>3, <1>4, <2>1, <2>2
<1>6. CASE q.kind = "heartbeat"
  <2>1. \E r : o = Outcome(n, FALSE, r)
    BY <1>6 DEF NodeStep
  <2> QED BY <1>1, <1>3, <2>1
<1>7. CASE q.kind = "vote"
  <2>1. o \in {Outcome(lead(n), TRUE, {"heartbeat"}), Outcome(n, FALSE, {})}
    BY <1>7 DEF NodeStep
  <2> QED BY <1>1, <1>3, <1>4, <2>1
<1>8. CASE q.kind = "higher term"
  <2>1. o = Outcome(follow(n), TRUE, {})
    BY <1>8 DEF NodeStep
  <2>2. Extended(n, follow(n), q)
    BY <1>3, SameExtends
  <2> QED BY <1>1, <2>1, <2>2
<1>9. CASE q.kind = "append"
  <2> DEFINE k == [follow(n) EXCEPT !.voter = ~@]
  <2>1. o \in {Outcome(follow(n), FALSE, {"election"}),
               Outcome(append(follow(n), <<q.arg>>), TRUE, {"election"}),
               Outcome(append(k, <<>>), TRUE, {"election"})}
    BY <1>9 DEF NodeStep
  <2>2. Extended(n, append(follow(n), <<q.arg>>), q)
    BY <1>3, SameAppendExtends
  <2>3. Extended(n, append(k, <<>>), q)
    <3>1. SameLog(n, k) /\ DOMAIN k = NodeFields
      BY <1>3 DEF SameLog, NodeFields
    <3> QED BY <3>1, SameAppendExtends
  <2> HIDE DEF k
  <2> QED BY <1>1, <1>3, <2>1, <2>2, <2>3
<1>10. CASE q.kind = "install"
  <2> DEFINE k == [follow(n) EXCEPT !.snap = installed(n, q.arg), !.log = <<>>, !.applied = lastIndex(n) + 1]
  <2>1. o \in {Outcome(follow(n), FALSE, {"election"}), Outcome(k, TRUE, {"election"})}
    BY <1>10 DEF NodeStep
  <2>2. k.snap = installed(n, q.arg) /\ k.log = <<>> /\ k.applied = lastIndex(n) + 1
    BY <1>3 DEF NodeFields
  <2>3. PICK j \in Nat : lastIndex(n) = j
    BY SequenceIsFunction DEF LogShape, SnapShape, lastIndex
  <2>4. k.snap.index = j + 1 /\ IsSequence(k.snap.data.history)
    <3> DEFINE b == block(app, q.arg, stateAfter(app, q.arg))
    <3>1. k.snap.index = j + 1 /\ k.snap.data.history = Append(app.history, b)
      BY <2>2, <2>3 DEF installed, Checkpoint, applyCanonical
    <3> HIDE DEF b, k
    <3> QED BY <3>1, AppendIsSequence
  <2> HIDE DEF k
  <2>5. IsSequence(k.log) /\ lastIndex(k) = j + 1
    BY <2>2, <2>4 DEF IsSequence, lastIndex
  <2>6. Extended(n, k, q)
    BY <2>2, <2>3, <2>4, <2>5 DEF Extended, LogShape, SnapShape
  <2> QED BY <1>1, <1>3, <2>1, <2>6
<1>11. CASE q.kind = "proposal"
  <2>1. o \in {Refused(n), Outcome(append(n, <<q.arg>>), TRUE, {})}
    BY <1>11 DEF NodeStep
  <2>2. Extended(n, append(n, <<q.arg>>), q)
    BY <1>2, AppendExtends
  <2> QED BY <1>1, <2>1, <2>2
<1>12. CASE q.kind = "snapshot"
  <2> DEFINE k == [n EXCEPT !.snap = q.arg, !.log = SubSeq(@, q.arg.index - n.snap.index + 1, Len(@))]
  <2>1. \/ o = Refused(n)
        \/ o = Outcome(k, TRUE, {}) /\ ~(q.arg.index <= n.snap.index) /\ ~(q.arg.index > n.applied)
    BY <1>12 DEF NodeStep
  <2>2. CASE o = Refused(n)
    BY <1>1, <2>2
  <2>3. CASE o = Outcome(k, TRUE, {}) /\ ~(q.arg.index <= n.snap.index) /\ ~(q.arg.index > n.applied)
    <3>1. PICK l \in Nat : Len(n.log) = l
      BY SequenceIsFunction DEF LogShape
    <3>2. PICK i \in Nat, j \in Nat : n.snap.index = i /\ q.arg.index = j
      BY <1>12 DEF LogShape, SnapShape
    <3>3. lastIndex(n) = i + l /\ i < j /\ j <= i + l
      BY <2>3, <3>1, <3>2 DEF lastIndex, LogShape
    <3>4. PICK p \in 1..(l + 1) : p = j - i + 1
      BY <3>3
    <3>5. k.snap = q.arg /\ k.log = SubSeq(n.log, p, Len(n.log)) /\ k.applied = n.applied
      BY <1>2, <3>2, <3>4 DEF NodeFields
    <3> HIDE DEF k
    <3>6. IsSequence(k.log) /\ Len(k.log) = l - p + 1
      BY <3>1, <3>4, <3>5, CutIsSequence DEF LogShape
    <3>7. lastIndex(k) = i + l
      BY <3>2, <3>3, <3>4, <3>5, <3>6 DEF lastIndex
    <3>8. Extended(n, k, q)
      BY <1>12, <3>2, <3>3, <3>5, <3>6, <3>7 DEF Extended, LogShape, SnapShape
    <3> QED BY <1>1, <2>3, <3>8
  <2> QED BY <2>1, <2>2, <2>3
<1> QED
  BY <1>5, <1>6, <1>7, <1>8, <1>9, <1>10, <1>11, <1>12 DEF InputKinds, Kinds, ClientKinds
-----------------------------------------------------------------------------
(* What every step retains: one machine m that the durable snapshot, the   *)
(* snapshot being written and every snapshot in the mailbox rebuild.       *)

\* The node's snapshot and log are those on disk or what is being written,
\* which goes at least as far.
Chained ==
  /\ LogShape(node) /\ IsSequence(disk.log)
  /\ store.applied <= lastIndex(disk) /\ lastIndex(disk) <= lastIndex(node)
  /\ disk.snap.index <= node.snap.index
  /\ write.persist = 0 => disk.snap = node.snap /\ disk.log = node.log

\* The machine m is what every snapshot and the entries above it rebuild.
Retained(m) ==
  /\ Sound(store, disk.snap, m)
  /\ up => app = m
  /\ Rebuilds(store, node.snap, m)
  /\ \A q \in Queued(mailbox) : q.kind = "snapshot" => Offered(store, q.arg, node.snap.index, m)

Kept(m) == Chained /\ Retained(m)

\* The numbers of the invariant.
LEMMA KeptNumbers ==
  ASSUME NEW m, Kept(m)
  PROVE  /\ node.snap.index \in Nat /\ disk.snap.index \in Nat /\ store.applied \in Nat
         /\ lastIndex(node) \in Nat /\ lastIndex(disk) \in Nat
         /\ disk.snap.index <= lastIndex(disk) /\ node.snap.index <= lastIndex(node)
<1>1. /\ node.snap.index \in Nat /\ disk.snap.index \in Nat /\ store.applied \in Nat
  BY DEF Kept, Chained, Retained, Sound, LogShape, SnapShape, Numbered
<1>2. Len(node.log) \in Nat /\ Len(disk.log) \in Nat
  BY SequenceIsFunction DEF Kept, Chained, LogShape
<1>3. lastIndex(node) \in Nat /\ node.snap.index <= lastIndex(node)
  BY <1>1, <1>2 DEF lastIndex
<1>4. lastIndex(disk) \in Nat /\ disk.snap.index <= lastIndex(disk)
  BY <1>1, <1>2 DEF lastIndex
<1> QED BY <1>1, <1>3, <1>4

\* A transition of an idle, live node.
LEMMA ExecuteRetains ==
  ASSUME Inv, NEW m, Kept(m), up, ~node.pending, NEW q, q.kind \in InputKinds,
         q.kind = "snapshot" => Offered(store, q.arg, node.snap.index, m),
         NEW t, NEW evs, NEW refusal, Execute(q, t, evs, refusal),
         UNCHANGED <<up, disk, store, app>>, Queued(mailbox') \subseteq Queued(mailbox)
  PROVE  Kept(m)'
<1>1. PICK o \in NodeStep(node, q) :
        LET t1 == IF o.dirty THEN t ELSE reset(t, o.resets, o.node.voter)
            t2 == syncRoleTimers(t1, node.role, o.node.role)
        IN IF ~o.ok \/ (o.dirty /\ Overlaps)
           THEN /\ err' = IF o.ok THEN "overlap" ELSE refusal
                /\ timers' = t /\ events' = evs
                /\ UNCHANGED <<node, write>>
           ELSE /\ timers' = t2
                /\ IF o.dirty
                   THEN /\ node' = [o.node EXCEPT !.pending = TRUE, !.effects = o.resets, !.token = @ + 1]
                        /\ write' = started
                        /\ events' = rescheduled(evs, t, t2)
                                       \cup {callback("persist", started.generation, node.token + 1)}
                   ELSE node' = o.node /\ events' = rescheduled(evs, t, t2) /\ UNCHANGED write
                /\ UNCHANGED err
  BY DEF Execute
<1>2. NodeShape(node) /\ LogShape(node) /\ IsSequence(app.history)
  BY DEF Inv, Shapes, Kept, Chained, Retained, Sound, Genuine
<1>3. q.kind = "snapshot" => SnapShape(q.arg) /\ q.arg.index <= store.applied
                             /\ (q.arg.index > node.snap.index => Rebuilds(store, q.arg, m))
  BY DEF Offered
<1>4. Extended(node, o.node, q) /\ (~o.dirty \/ ~o.ok => SameLog(node, o.node))
  BY <1>2, <1>3, NodeStepExtends
<1>5. NodeShape(o.node) /\ o.ok \in BOOLEAN /\ o.dirty \in BOOLEAN
  BY <1>2, NodeStepMoves DEF Answers, Moves
<1>6. /\ node.snap.index \in Nat /\ disk.snap.index \in Nat /\ store.applied \in Nat
      /\ lastIndex(node) \in Nat /\ lastIndex(disk) \in Nat
  BY KeptNumbers
<1>7. \/ SameLog(node, node') /\ write' = write
      \/ SameLog(o.node, node') /\ write'.persist # 0
  <2>1. CASE ~o.ok \/ (o.dirty /\ Overlaps)
    BY <1>1, <2>1 DEF SameLog
  <2>2. CASE o.ok /\ ~o.dirty
    <3>1. node' = o.node /\ write' = write
      BY <1>1, <2>2
    <3> QED BY <1>4, <2>2, <3>1
  <2>3. CASE o.ok /\ o.dirty /\ ~Overlaps
    <3>1. node' = [o.node EXCEPT !.pending = TRUE, !.effects = o.resets, !.token = @ + 1] /\ write' = started
      BY <1>1, <2>3
    <3>2. SameLog(o.node, node')
      BY <1>5, <3>1 DEF SameLog, NodeShape, NodeFields
    <3>3. write'.persist # 0
      BY <3>1 DEF started, Inv, Shapes
    <3> QED BY <3>2, <3>3
  <2> QED BY <1>5, <2>1, <2>2, <2>3
<1>8. /\ LogShape(node') /\ lastIndex(node) <= lastIndex(node') /\ lastIndex(node') \in Nat
      /\ \/ node'.snap = node.snap
         \/ node'.snap.index > lastIndex(node)
         \/ q.kind = "snapshot" /\ node'.snap = q.arg /\ node'.snap.index > node.snap.index
  <2>1. CASE SameLog(node, node')
    <3>1. Extended(node, node', q)
      BY <1>2, <2>1, SameExtends
    <3>2. lastIndex(node') = lastIndex(node)
      BY <2>1 DEF SameLog, lastIndex
    <3> QED BY <1>6, <3>1, <3>2 DEF Extended
  <2>2. CASE SameLog(o.node, node')
    <3>1. lastIndex(node') = lastIndex(o.node) /\ LogShape(node') /\ node'.snap = o.node.snap
      BY <1>4, <2>2 DEF SameLog, lastIndex, Extended, LogShape
    <3>2. lastIndex(node') \in Nat
      BY <3>1, SequenceIsFunction DEF LogShape, SnapShape, lastIndex
    <3> QED BY <1>4, <3>1, <3>2 DEF Extended
  <2> QED BY <1>7, <2>1, <2>2
<1>9. node'.snap.index \in Nat /\ node.snap.index <= node'.snap.index
  <2>1. node'.snap.index \in Nat /\ node.snap.index <= lastIndex(node)
    BY <1>8, KeptNumbers DEF LogShape, SnapShape
  <2> QED BY <1>6, <1>8, <2>1
<1>10. disk' = disk /\ store' = store /\ app' = app /\ up' = up
  OBVIOUS
<1>11. Chained'
  <2>1. write'.persist = 0 => write' = write /\ SameLog(node, node')
    BY <1>7
  <2>2. disk.snap.index <= node'.snap.index
    BY <1>6, <1>9 DEF Kept, Chained
  <2>3. lastIndex(disk) <= lastIndex(node')
    BY <1>6, <1>8 DEF Kept, Chained
  <2>4. write'.persist = 0 => disk.snap = node'.snap /\ disk.log = node'.log
    BY <2>1 DEF SameLog, Kept, Chained
  <2> QED BY <1>8, <1>10, <2>2, <2>3, <2>4 DEF Kept, Chained
<1>12. Rebuilds(store, node'.snap, m)
  <2>1. CASE node'.snap = node.snap
    BY <2>1 DEF Kept, Retained
  <2>2. CASE node'.snap.index > lastIndex(node)
    <3>1. ~(node'.snap.index <= store.applied)
      BY <1>6, <1>9, <2>2 DEF Kept, Chained
    <3> QED BY <3>1 DEF Rebuilds
  <2>3. CASE q.kind = "snapshot" /\ node'.snap = q.arg /\ node'.snap.index > node.snap.index
    BY <1>3, <2>3
  <2> QED BY <1>8, <2>1, <2>2, <2>3
<1>13. ASSUME NEW z \in Queued(mailbox'), z.kind = "snapshot"
       PROVE  Offered(store, z.arg, node'.snap.index, m)
  <2>1. Offered(store, z.arg, node.snap.index, m)
    BY <1>13 DEF Kept, Retained
  <2>2. z.arg.index > node'.snap.index => z.arg.index > node.snap.index
    BY <1>6, <1>9, <2>1 DEF Offered, SnapShape
  <2> QED BY <2>1, <2>2 DEF Offered
<1>14. Retained(m)'
  <2>1. Queued(mailbox)' = Queued(mailbox')
    BY DEF Queued
  <2> QED BY <1>10, <1>12, <1>13, <2>1 DEF Kept, Retained
<1> QED BY <1>11, <1>14 DEF Kept

\* Steps that leave the node, the durable state and the application alone.
LEMMA IdleRetains ==
  ASSUME NEW m, Kept(m), UNCHANGED <<up, node, disk, store, app, write>>,
         \A q \in Queued(mailbox') : q \in Queued(mailbox)
                                     \/ (q.kind = "snapshot" => Offered(store, q.arg, node.snap.index, m))
  PROVE  Kept(m)'
<1>1. Chained'
  BY DEF Kept, Chained
<1>2. \A q \in Queued(mailbox') : q.kind = "snapshot" => Offered(store, q.arg, node.snap.index, m)
  BY DEF Kept, Retained
<1>3. Retained(m)'
  <2>1. Queued(mailbox)' = Queued(mailbox')
    BY DEF Queued
  <2> QED BY <1>2, <2>1 DEF Kept, Retained
<1> QED BY <1>1, <1>3 DEF Kept

\* Cluster.submit.
LEMMA SubmitRetains ==
  ASSUME Inv, NEW m, Kept(m), up, NEW q, q.kind \in InputKinds,
         q.kind = "snapshot" => Offered(store, q.arg, node.snap.index, m),
         NEW t, NEW evs, NEW refusal, submit(q, t, evs, refusal),
         UNCHANGED <<up, disk, store, app>>
  PROVE  Kept(m)'
<1>1. CASE node.pending
  <2>1. mailbox' = Append(mailbox, q) /\ node' = node /\ write' = write
    BY <1>1 DEF submit, Ignore
  <2>2. Queued(mailbox') \subseteq Queued(mailbox) \cup {q}
    BY <2>1, MailboxAppend DEF Inv, Shapes
  <2> QED BY <2>1, <2>2, IdleRetains
<1>2. CASE ~node.pending /\ ~queuedInputIsCurrent(q, t)
  <2>1. mailbox' = mailbox /\ node' = node /\ write' = write
    BY <1>2 DEF submit, Ignore
  <2> QED BY <2>1, IdleRetains
<1>3. CASE ~node.pending /\ queuedInputIsCurrent(q, t)
  <2>1. mailbox' = mailbox /\ Execute(q, t, evs, refusal)
    BY <1>3 DEF submit
  <2> QED BY <1>3, <2>1, ExecuteRetains
<1> QED BY <1>1, <1>2, <1>3

\* A checkpoint taken now is offered.
LEMMA CheckpointOffered ==
  ASSUME NEW m, Kept(m), up, NEW floor
  PROVE  Offered(store, [index |-> store.applied, data |-> Checkpoint(app)], floor, m)
<1>1. app = m /\ Genuine(m) /\ Numbered(store)
  BY DEF Kept, Retained, Sound
<1>2. PICK s : s = [index |-> store.applied, data |-> Checkpoint(app)]
  OBVIOUS
<1>3. PICK e : e = store.entries /\ IsSequence(e)
  BY <1>1 DEF Numbered
<1>4. PICK n \in Nat, a \in Nat : Len(e) = n /\ store.applied = a
  BY <1>1, <1>3, SequenceIsFunction DEF Numbered
<1>5. n <= a /\ base(store) = a - n
  BY <1>1, <1>3, <1>4 DEF Numbered, base
<1>6. s.index = a /\ s.data = Checkpoint(m)
  BY <1>1, <1>2, <1>4
<1>7. SnapShape(s)
  BY <1>1, <1>6 DEF SnapShape, Checkpoint, Genuine
<1>8. Restore(s.data) = [ok |-> TRUE, machine |-> m]
  BY <1>1, <1>6, RestoreGenuine
<1>9. ReplayEntries(m, Rest(e, n)) = Untaken(m)
  <2>1. n \in 0..Len(e) /\ n - n = 0
    BY <1>4
  <2>2. Len(Rest(e, n)) = 0
    BY <1>3, <1>4, <2>1, RestIsSequence
  <2> QED BY <2>2, ReplayNothing
<1>10. Rebuilds(store, s, m)
  <2>1. a - (a - n) = n /\ a - n <= a
    BY <1>5
  <2> QED BY <1>3, <1>4, <1>5, <1>6, <1>8, <1>9, <2>1 DEF Rebuilds, Gives, Untaken
<1> QED BY <1>2, <1>4, <1>6, <1>7, <1>10 DEF Offered

\* The inputs that are no snapshot: messages, proposals and timeouts.
LEMMA InputRetains ==
  ASSUME Inv, NEW m, Kept(m), up, NEW kind \in InputKinds \ {"snapshot"}, NEW g, NEW arg,
         NEW t, NEW evs, NEW refusal, submit(input(kind, g, arg), t, evs, refusal),
         UNCHANGED <<up, disk, store, app>>
  PROVE  Kept(m)'
<1>1. PICK q : q = input(kind, g, arg)
  OBVIOUS
<1>2. q.kind \in InputKinds /\ q.kind # "snapshot"
  BY <1>1 DEF input
<1> QED BY <1>1, <1>2, SubmitRetains

\* SnapshotApplication, taken at once or from the mailbox later.
LEMMA SnapshotRetains ==
  ASSUME Inv, NEW m, Kept(m), SnapshotApplication
  PROVE  Kept(m)'
<1> DEFINE s == [index |-> store.applied, data |-> Checkpoint(app)]
<1>1. up /\ submit(input("snapshot", 0, s), timers, events, NoError) /\ UNCHANGED <<up, disk, store, app>>
  BY DEF SnapshotApplication
<1>2. Offered(store, s, node.snap.index, m)
  BY <1>1, CheckpointOffered
<1> HIDE DEF s
<1>3. PICK q : q = input("snapshot", 0, s)
  OBVIOUS
<1>4. q.kind = "snapshot" /\ q.arg = s /\ q.kind \in InputKinds
  BY <1>3 DEF input, InputKinds, ClientKinds
<1> QED BY <1>1, <1>2, <1>3, <1>4, SubmitRetains

\* drain takes inputs out of the mailbox.
LEMMA DrainRetains ==
  ASSUME Inv, NEW m, Kept(m), drain
  PROVE  Kept(m)'
<1>1. UNCHANGED <<up, disk, store, app>> /\ up
  BY DEF drain, Inv, DrainsUp
<1>2. CASE node.pending \/ mailbox = <<>>
  <2>1. UNCHANGED <<mailbox, node, write>>
    BY <1>2 DEF drain
  <2> QED BY <1>1, <2>1, IdleRetains
<1>3. CASE ~node.pending /\ mailbox # <<>>
  <2>1. PICK q : q = Head(mailbox)
    OBVIOUS
  <2>2. /\ mailbox' = Tail(mailbox)
        /\ IF queuedInputIsCurrent(q, timers)
           THEN Execute(q, timers, events, IF q.kind \in {"proposal", "snapshot"} THEN "client" ELSE "input")
           ELSE Ignore(timers, events)
    BY <1>3, <2>1 DEF drain
  <2>3. q \in Queued(mailbox) /\ Queued(mailbox') \subseteq Queued(mailbox)
    BY <1>3, <2>1, <2>2, MailboxTail DEF Inv, Shapes
  <2>4. q.kind \in InputKinds /\ (q.kind = "snapshot" => Offered(store, q.arg, node.snap.index, m))
    BY <2>3 DEF Inv, Shapes, Kept, Retained
  <2>5. CASE queuedInputIsCurrent(q, timers)
    <3>1. PICK refusal : Execute(q, timers, events, refusal)
      BY <2>2, <2>5
    <3> QED BY <1>1, <1>3, <2>3, <2>4, <3>1, ExecuteRetains
  <2>6. CASE ~queuedInputIsCurrent(q, timers)
    <3>1. UNCHANGED <<node, write>>
      BY <2>2, <2>6 DEF Ignore
    <3> QED BY <1>1, <2>3, <3>1, IdleRetains
  <2> QED BY <2>5, <2>6
<1> QED BY <1>2, <1>3

\* What a write makes durable is as sound as what was durable before.
LEMMA WrittenSound ==
  ASSUME NEW m, Kept(m)
  PROVE  Sound(store, node.snap, m)
<1>1. node.snap.index = 0 => disk.snap.index = 0
  BY KeptNumbers DEF Kept, Chained
<1> QED BY <1>1 DEF Kept, Chained, Retained, Sound, LogShape

\* A crash, with the durable state before it or the one just written.
LEMMA CrashRetains ==
  ASSUME NEW m, Kept(m), Crash,
         disk' = disk \/ disk' = [snap |-> node.snap, log |-> node.log]
  PROVE  Kept(m)'
<1>1. /\ up' = FALSE /\ mailbox' = <<>> /\ write'.persist = 0 /\ store' = store
      /\ node' = Fresh(disk', store.applied)
  BY DEF Crash
<1>2. node'.snap = disk'.snap /\ node'.log = disk'.log /\ node'.applied = store.applied
  BY <1>1 DEF Fresh
<1>3. IsSequence(disk'.log) /\ Sound(store, disk'.snap, m)
  BY WrittenSound DEF Kept, Chained, Retained, LogShape
<1>4. lastIndex(disk)' = lastIndex(disk') /\ lastIndex(node)' = lastIndex(disk')
  BY <1>2 DEF lastIndex
<1>5. store.applied <= lastIndex(disk') /\ lastIndex(disk') \in Nat
  <2>1. CASE disk' = disk
    BY <2>1, KeptNumbers DEF Kept, Chained
  <2>2. CASE disk' = [snap |-> node.snap, log |-> node.log]
    <3>1. lastIndex(disk') = lastIndex(node)
      BY <2>2 DEF lastIndex
    <3> QED BY <3>1, KeptNumbers DEF Kept, Chained
  <2> QED BY <2>1, <2>2
<1>6. disk'.snap.index \in Nat /\ store.applied \in Nat
  BY <1>3, KeptNumbers DEF Sound, SnapShape
<1>7. LogShape(node')
  BY <1>2, <1>3, <1>5, <1>6 DEF LogShape, Sound, lastIndex
<1>8. Chained'
  BY <1>1, <1>2, <1>3, <1>4, <1>5, <1>6, <1>7 DEF Chained
<1>9. Retained(m)'
  <2>1. Queued(mailbox)' = {}
    BY <1>1 DEF Queued
  <2> QED BY <1>1, <1>2, <1>3, <2>1 DEF Retained, Sound
<1> QED BY <1>8, <1>9 DEF Kept

\* The durable write completes.
LEMMA CompleteWriteRetains ==
  ASSUME Inv, NEW m, Kept(m), NEW e \in events, CompleteWrite(e)
  PROVE  Kept(m)'
<1>1. CASE expects(e) /\ armed
  BY <1>1, CrashRetains DEF CompleteWrite
<1>2. CASE expects(e) /\ ~armed
  <2>1. /\ disk' = [snap |-> node.snap, log |-> node.log]
        /\ UNCHANGED <<up, mailbox, node, app, store>>
    BY <1>2 DEF CompleteWrite
  <2>2. /\ disk'.snap = node.snap /\ disk'.log = node.log
        /\ lastIndex(disk') = lastIndex(node)
    BY <2>1 DEF lastIndex
  <2>3. Chained'
    <3>1. store.applied <= lastIndex(node) /\ lastIndex(node) <= lastIndex(node)
          /\ node.snap.index <= node.snap.index
      BY KeptNumbers DEF Kept, Chained
    <3>2. IsSequence(disk'.log) /\ LogShape(node')
      BY <2>1, <2>2 DEF Kept, Chained, LogShape
    <3> QED BY <2>1, <2>2, <3>1, <3>2 DEF Chained
  <2>4. Retained(m)'
    <3>1. Sound(store, node.snap, m)
      BY WrittenSound
    <3>2. Queued(mailbox)' = Queued(mailbox)
      BY <2>1 DEF Queued
    <3> QED BY <2>1, <2>2, <3>1, <3>2 DEF Kept, Retained
  <2> QED BY <2>3, <2>4 DEF Kept
<1>3. CASE ~expects(e)
  <2>1. UNCHANGED <<up, node, disk, store, app, mailbox, write>>
    BY <1>3 DEF CompleteWrite
  <2> QED BY <2>1, IdleRetains
<1> QED BY <1>1, <1>2, <1>3

\* A release, of the node's transition or of what a restart finds durable:
\* the machine that is retained becomes the one that is released.
LEMMA ReleaseRetains ==
  ASSUME NEW m, Kept(m), disk.snap = node.snap, disk.log = node.log, NEW n,
         n.snap = disk.snap, n.log = disk.log, n.applied \in Nat, n.applied <= lastIndex(n),
         NEW r, r = release(n, store, m),
         store' = r.store, app' = r.app, SameLog(n, node'), UNCHANGED <<disk, mailbox>>
  PROVE  Kept(r.app)'
<1>1. PICK last \in Nat : lastIndex(n) = last /\ lastIndex(disk) = last
  BY KeptNumbers DEF lastIndex
<1>2. Sound(store, n.snap, m) /\ store.applied <= last /\ n.snap.index <= last
  BY <1>1, KeptNumbers DEF Kept, Chained, Retained
<1>3. /\ Sound(r.store, n.snap, r.app) /\ r.store.applied <= last
      /\ \A s : Offered(store, s, n.snap.index, m) => Offered(r.store, s, n.snap.index, r.app)
  BY <1>1, <1>2, ReleaseSound
<1>4. node'.snap = n.snap /\ node'.log = n.log /\ node'.applied = n.applied
  BY DEF SameLog
<1>5. lastIndex(node') = last /\ lastIndex(node)' = last /\ lastIndex(disk)' = last
  BY <1>1, <1>4 DEF lastIndex
<1>6. LogShape(node')
  <2>1. SnapShape(n.snap) /\ IsSequence(n.log)
    BY DEF Kept, Chained, LogShape
  <2> QED BY <1>1, <1>4, <1>5, <2>1 DEF LogShape
<1>7. Chained'
  <2>1. n.snap.index <= n.snap.index /\ last <= last
    BY <1>1, KeptNumbers
  <2> QED BY <1>3, <1>4, <1>5, <1>6, <2>1 DEF Kept, Chained
<1>8. Retained(r.app)'
  <2>1. Queued(mailbox)' = Queued(mailbox)
    BY DEF Queued
  <2>2. \A q \in Queued(mailbox) : q.kind = "snapshot" => Offered(r.store, q.arg, n.snap.index, r.app)
    BY <1>3 DEF Kept, Retained
  <2>3. Rebuilds(r.store, n.snap, r.app)
    BY <1>3 DEF Sound
  <2> QED BY <1>3, <1>4, <2>1, <2>2, <2>3 DEF Retained
<1> QED BY <1>7, <1>8 DEF Kept

\* The acknowledgement releases the transition that is durable now.
LEMMA AcknowledgeRetains ==
  ASSUME Inv, NEW m, Kept(m), NEW e \in events, Acknowledge(e)
  PROVE  \E m2 : Kept(m2)'
<1>1. e.kind = "ack" /\ UNCHANGED <<up, disk, mailbox>>
  BY DEF Acknowledge
<1>2. CASE ~expects(e)
  <2>1. UNCHANGED <<node, store, app, write>>
    BY <1>2 DEF Acknowledge
  <2> QED BY <1>1, <2>1, IdleRetains
<1>3. CASE expects(e)
  <2>1. up /\ e.incarnation = incarnation /\ e.generation = write.generation
    BY <1>3 DEF expects
  <2>2. write.ack # 0 /\ e.token = node.token
    BY <1>1, <2>1 DEF Inv, OneCallback, StorageKinds
  <2>3. write.persist = 0 /\ node.pending
    BY <2>2 DEF Inv, OneWrite
  <2>4. PICK r : r = release(node, store, app)
    OBVIOUS
  <2>5. /\ node' = [node EXCEPT !.pending = FALSE, !.effects = {}]
        /\ store' = r.store /\ app' = r.app
    BY <1>3, <2>2, <2>3, <2>4 DEF Acknowledge
  <2>6. SameLog(node, node')
    BY <2>5 DEF SameLog, Inv, Shapes, NodeShape, NodeFields
  <2>7. disk.snap = node.snap /\ disk.log = node.log /\ app = m
        /\ node.applied \in Nat /\ node.applied <= lastIndex(node)
    BY <2>1, <2>3 DEF Kept, Chained, Retained, LogShape
  <2>8. Kept(r.app)'
    BY <1>1, <2>4, <2>5, <2>6, <2>7, ReleaseRetains
  <2> QED BY <2>8
<1> QED BY <1>2, <1>3

\* A restart recovers the machine that is retained, then releases what was
\* durable but not applied.
LEMMA RestartRetains ==
  ASSUME Inv, NEW m, Kept(m), Restart
  PROVE  \E m2 : Kept(m2)'
<1>1. write.persist = 0
  BY DEF Restart, Inv, OneWrite
<1>2. disk.snap = node.snap /\ disk.log = node.log
  BY <1>1 DEF Kept, Chained
<1>3. PICK c : c = recoverApplication(disk, store)
  OBVIOUS
<1>4. c.machine = m
  <2>1. c.ok
    BY <1>3 DEF Restart
  <2>2. /\ Numbered(store) /\ SnapShape(disk.snap) /\ WholeRebuilds(store, m)
        /\ Rebuilds(store, disk.snap, m) /\ (disk.snap.index = 0 => Whole(store))
    BY DEF Kept, Retained, Sound
  <2> QED BY <1>3, <2>1, <2>2, RecoverGives
<1>5. PICK n : n = Fresh(disk, lastIndex(disk))
  OBVIOUS
<1>6. PICK r : r = release(n, store, m)
  OBVIOUS
<1>7. node' = n /\ app' = r.app /\ store' = r.store /\ UNCHANGED <<disk, mailbox>>
  BY <1>3, <1>4, <1>5, <1>6 DEF Restart
<1>8. n.snap = disk.snap /\ n.log = disk.log /\ n.applied = lastIndex(disk) /\ lastIndex(n) = lastIndex(disk)
  BY <1>5 DEF Fresh, lastIndex
<1>9. n.applied \in Nat /\ n.applied <= lastIndex(n)
  BY <1>8, KeptNumbers
<1>10. SameLog(n, node')
  BY <1>7 DEF SameLog
<1>11. Kept(r.app)'
  BY <1>2, <1>6, <1>7, <1>8, <1>9, <1>10, ReleaseRetains
<1> QED BY <1>11

\* Every step retains a machine.
LEMMA NextRetains ==
  ASSUME Inv, NEW m, Kept(m), [Next]_vars
  PROVE  \E m2 : Kept(m2)'
<1>1. ASSUME NEW kind \in {"vote", "higher term", "append", "install"}, NEW arg, Receive(kind, arg)
      PROVE  Kept(m)'
  <2>1. CASE up
    <3>1. submit(input(kind, 0, arg), timers, events, "input") /\ UNCHANGED <<up, disk, store, app>>
      BY <1>1, <2>1 DEF Receive
    <3> QED BY <2>1, <3>1, InputRetains DEF InputKinds
  <2>2. CASE ~up
    <3>1. UNCHANGED <<up, node, disk, store, app, mailbox, write>>
      BY <1>1, <2>2 DEF Receive
    <3> QED BY <3>1, IdleRetains
  <2> QED BY <2>1, <2>2
<1>2. ASSUME NEW c \in Commands, Propose(c)
      PROVE  Kept(m)'
  <2>1. up /\ submit(input("proposal", 0, c), timers, events, NoError) /\ UNCHANGED <<up, disk, store, app>>
    BY <1>2 DEF Propose
  <2>2. "proposal" \in InputKinds \ {"snapshot"}
    BY DEF InputKinds, ClientKinds
  <2> QED BY <2>1, <2>2, InputRetains
<1>3. ASSUME NEW e \in events, Fire(e)
      PROVE  Kept(m)'
  <2>1. CASE up /\ submit(input(e.kind, e.generation, 0), [timers EXCEPT ![e.kind].event = 0],
                          events \ {e}, "input")
    <3>1. e.kind \in InputKinds \ {"snapshot"} /\ UNCHANGED <<up, disk, store, app>>
      BY <1>3 DEF Fire, InputKinds, Kinds
    <3> QED BY <2>1, <3>1, InputRetains
  <2>2. CASE UNCHANGED <<up, node, disk, store, app, mailbox, write>>
    BY <2>2, IdleRetains
  <2> QED BY <1>3, <2>1, <2>2 DEF Fire
<1>4. CASE SnapshotApplication
  BY <1>4, SnapshotRetains
<1>5. ASSUME NEW e \in events, CompleteWrite(e) \/ Acknowledge(e)
      PROVE  \E m2 : Kept(m2)'
  BY <1>5, CompleteWriteRetains, AcknowledgeRetains
<1>6. CASE drain
  BY <1>6, DrainRetains
<1>7. CASE CrashNow
  BY <1>7, CrashRetains DEF CrashNow
<1>8. CASE CrashAfterNextPersist
  <2>1. UNCHANGED <<up, node, disk, store, app, mailbox, write>>
    BY <1>8 DEF CrashAfterNextPersist
  <2> QED BY <2>1, IdleRetains
<1>9. CASE Restart
  BY <1>9, RestartRetains
<1>10. CASE UNCHANGED vars
  <2>1. UNCHANGED <<up, node, disk, store, app, mailbox, write>>
    BY <1>10 DEF vars, process
  <2> QED BY <2>1, IdleRetains
<1> QED BY <1>1, <1>2, <1>3, <1>4, <1>5, <1>6, <1>7, <1>8, <1>9, <1>10 DEF Next

\* The process starts with the empty machine and nothing applied.
LEMMA InitRetains ==
  ASSUME Init
  PROVE  Kept(Empty)
<1>1. disk.snap = NoSnapshot /\ disk.log = <<>> /\ node.snap = NoSnapshot /\ node.log = <<>>
      /\ node.applied = 0 /\ store.applied = 0 /\ store.entries = <<>> /\ app = Empty
  BY DEF Init, Fresh
<1>2. IsSequence(<<>>) /\ Len(<<>>) = 0 /\ NoSnapshot.index = 0 /\ NoSnapshot.data.history = <<>>
  BY DEF IsSequence, NoSnapshot, Checkpoint, Empty
<1>3. lastIndex(node) = 0 /\ lastIndex(disk) = 0
  BY <1>1, <1>2 DEF lastIndex
<1>4. SnapShape(NoSnapshot)
  BY <1>2 DEF SnapShape
<1>5. Chained
  BY <1>1, <1>2, <1>3, <1>4 DEF Chained, LogShape
<1>6. Queued(mailbox) = {}
  BY DEF Init, Queued
<1>7. Numbered(store) /\ Whole(store) /\ WholeRebuilds(store, Empty)
  <2>1. ReplayEntries(Empty, <<>>) = Untaken(Empty)
    BY <1>2, ReplayNothing
  <2> QED BY <1>1, <1>2, <2>1 DEF Numbered, Whole, WholeRebuilds, Gives, Untaken
<1>8. Rebuilds(store, NoSnapshot, Empty)
  BY <1>2 DEF Rebuilds
<1>9. Sound(store, disk.snap, Empty)
  BY <1>1, <1>4, <1>7, <1>8, EmptyIsGenuine DEF Sound
<1> QED BY <1>1, <1>5, <1>6, <1>8, <1>9 DEF Kept, Retained
-----------------------------------------------------------------------------
\* Some machine is retained: what the application holds while the process is
\* up, and what the next start has to recover while it is down.
Recoverable == \E m : Kept(m)

\* At every moment the durable store rebuilds the application of a process
\* that is up (recoverApplication), also between the write of a snapshot and
\* its acknowledgement, with the one exception the property names.
THEOREM CrashesLoseNothing == Spec => []ApplicationIsRecoverable
<1>1. Init => Recoverable
  BY InitRetains DEF Recoverable
<1>2. Inv /\ Recoverable /\ [Next]_vars => Recoverable'
  <2> SUFFICES ASSUME Inv, Recoverable, [Next]_vars PROVE Recoverable'
    OBVIOUS
  <2>1. PICK m : Kept(m)
    BY DEF Recoverable
  <2>2. \E m2 : Kept(m2)'
    BY <2>1, NextRetains
  <2> QED BY <2>2 DEF Recoverable
<1>3. Recoverable => ApplicationIsRecoverable
  <2> SUFFICES ASSUME NEW m, Kept(m) PROVE ApplicationIsRecoverable
    BY DEF Recoverable
  <2>1. /\ Numbered(store) /\ SnapShape(disk.snap) /\ WholeRebuilds(store, m)
        /\ Rebuilds(store, disk.snap, m) /\ (disk.snap.index = 0 => Whole(store))
        /\ (up => app = m)
    BY DEF Kept, Retained, Sound
  <2>2. PICK r : r = recoverApplication(disk, store)
    OBVIOUS
  <2>3. disk.snap.index <= store.applied \/ Whole(store) => r.ok /\ r.machine = m
    BY <2>1, <2>2, RecoverGives
  <2> QED BY <2>1, <2>2, <2>3 DEF ApplicationIsRecoverable, Whole
<1> QED BY <1>1, <1>2, <1>3, BarrierHolds, PTL DEF Spec
=============================================================================
