---------------------------- MODULE Application ----------------------------
(***************************************************************************)
(* apporacle/apporacle.go: the portable key/value machine behind the       *)
(* applied log, its commitment chain and its self-verifying checkpoints.   *)
(* A command is a record; its encoding is injective and left out.  SHA-256 *)
(* is an injective constructor: a digest is what was hashed, so that two   *)
(* digests are equal exactly when their inputs are.                        *)
(***************************************************************************)
EXTENDS Naturals, FiniteSets, Sequences

CONSTANTS
  Keys, Values,
  MaxCommands,    \* commands a machine may hold
  MaxState        \* bound on the pairs of the state, for MaxStateBytes

ASSUME ApplicationBounds == MaxCommands \in Nat /\ MaxState \in Nat

NoValue == "no value"     \* the value of a delete
NoCommandID == 0          \* the all-zero identifier

validateCommand(c) ==
  /\ c.id # NoCommandID
  /\ c.key \in Keys
  /\ \/ c.op = "put" /\ c.value \in Values
     \/ c.op = "delete" /\ c.value = NoValue

Empty == [state |-> <<>>, history |-> <<>>, chain |-> <<>>]

seen(m) == {m.history[k].command.id : k \in DOMAIN m.history}

stateAfter(m, c) ==
  IF c.op = "put"
  THEN [k \in DOMAIN m.state \cup {c.key} |-> IF k = c.key THEN c.value ELSE m.state[k]]
  ELSE [k \in DOMAIN m.state \ {c.key} |-> m.state[k]]

\* The chain digest covers the one before it, the command and the state.
digest(previous, c, state) == Append(previous, <<c, state>>)

block(m, c, state) ==
  [ordinal |-> Len(m.history) + 1, command |-> c, state |-> state, digest |-> digest(m.chain, c, state)]

\* Duplicate identifiers fail closed, also a second use with other contents.
accepts(m, c) ==
  /\ validateCommand(c)
  /\ c.id \notin seen(m)
  /\ Len(m.history) < MaxCommands
  /\ Cardinality(DOMAIN stateAfter(m, c)) <= MaxState

applyCanonical(m, c) ==
  LET b == block(m, c, stateAfter(m, c))
  IN [state |-> b.state, history |-> Append(m.history, b), chain |-> b.digest]

\* ReplayEntries, and applyApplicationEntry on each of entries: a no-op or a
\* configuration entry has no command.  Stops at the first refusal; done is
\* the number of entries taken.
ReplayEntries(m, entries) ==
  LET run[k \in 0..Len(entries)] ==
        IF k = 0 THEN [ok |-> TRUE, machine |-> m, done |-> 0]
        ELSE LET r == run[k - 1]
                 e == entries[k]
             IN CASE ~r.ok -> r
                  [] r.ok /\ e.command = <<>> -> [r EXCEPT !.done = k]
                  [] r.ok /\ e.command # <<>> ->
                       IF accepts(r.machine, e.command[1])
                       THEN [ok |-> TRUE, machine |-> applyCanonical(r.machine, e.command[1]), done |-> k]
                       ELSE [r EXCEPT !.ok = FALSE]
  IN run[Len(entries)]

Commitment(m) == [commands |-> Len(m.history), chain |-> m.chain, state |-> m.state]

Checkpoint(m) ==
  [commands |-> Len(m.history), chain |-> m.chain, state |-> m.state, history |-> m.history]

\* Restore replays every block from genesis and compares each one, the final
\* commitment and the state with what the checkpoint says.
Restore(checkpoint) ==
  LET replay == ReplayEntries(Empty, [k \in DOMAIN checkpoint.history |->
                                        [command |-> <<checkpoint.history[k].command>>]])
      m == replay.machine
  IN [ok |-> /\ checkpoint.commands = Len(checkpoint.history)
             /\ checkpoint.commands <= MaxCommands
             /\ replay.ok
             /\ m.history = checkpoint.history
             /\ m.chain = checkpoint.chain
             /\ m.state = checkpoint.state,
      machine |-> m]
=============================================================================
