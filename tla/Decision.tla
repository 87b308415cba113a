------------------------------ MODULE Decision ------------------------------
(***************************************************************************)
(* decision/decision.go and decision/control.go: semantic choices, the     *)
(* tape that records them and the deciders that answer them.  A choice has *)
(* options or an inclusive range; a selection is a natural number, an      *)
(* option's identity or a value of the range.  Digests are injective, so   *)
(* that equal digests are equal choices.                                   *)
(***************************************************************************)
EXTENDS Naturals, Sequences

Choice(id, options, min, max, context) ==
  [id |-> id, options |-> options, min |-> min, max |-> max, context |-> context]

HasOptions(c) == c.options # <<>>
Options(c) == {c.options[k] : k \in DOMAIN c.options}

ValidateChoice(c) ==
  IF HasOptions(c) THEN \A j, k \in DOMAIN c.options : c.options[j] = c.options[k] => j = k
  ELSE c.min <= c.max

validateSelection(c, selection) ==
  IF HasOptions(c) THEN selection \in Options(c) ELSE selection \in c.min..c.max

newEntry(c, selection) == [choice |-> c, selection |-> selection]

\* newTapeDecider refuses a tape with an entry that is not self-consistent.
ValidTape(tape) ==
  \A k \in DOMAIN tape : ValidateChoice(tape[k].choice) /\ validateSelection(tape[k].choice, tape[k].selection)
-----------------------------------------------------------------------------
(* Deciders.  What Choose answers: a selection with the decider after it,  *)
(* or the reason there is none.                                            *)

\* mode: exact (TapeDecider), prefix (PrefixDecider), then (PrefixThenDecider)
\* or guided (GuidedDecider); index counts the entries consumed and draws what
\* was taken of the seeded stream.
Decider(mode, tape, stream) ==
  [mode |-> mode, tape |-> tape, index |-> 0, stream |-> stream, draws |-> 0]

Chosen(selection, d) == [status |-> "ok", selection |-> selection, decider |-> d]
NotChosen(reason, d) == [status |-> reason, selection |-> 0, decider |-> d]

\* SeedDecider.Choose: a domain of one value takes nothing of the stream.
Seeded(d, c) ==
  LET size == IF HasOptions(c) THEN Len(c.options) ELSE c.max - c.min + 1
      draw == d.stream[d.draws + 1] % size
      at(k) == IF HasOptions(c) THEN c.options[k + 1] ELSE c.min + k
  IN IF size = 1 THEN Chosen(at(0), d) ELSE Chosen(at(draw), [d EXCEPT !.draws = @ + 1])

\* TapeDecider.Choose on an entry it still has.
Replayed(d, c) ==
  LET entry == d.tape[d.index + 1]
  IN IF entry.choice # c \/ ~validateSelection(c, entry.selection) THEN NotChosen("mismatch", d)
     ELSE Chosen(entry.selection, [d EXCEPT !.index = @ + 1])

\* choiceKey: the complete semantic identity, its context included.
Guides(entry, c) == entry.choice = c

Guided(d, c) ==
  LET matching == {k \in DOMAIN d.tape : Guides(d.tape[k], c)}
  IN IF matching = {} THEN Seeded(d, c)
     ELSE Chosen(d.tape[CHOOSE k \in matching : TRUE].selection, d)

Choose(d, c) ==
  CASE d.mode = "guided" -> Guided(d, c)
    [] d.mode # "guided" /\ d.index < Len(d.tape) -> Replayed(d, c)
    [] d.mode = "exact" /\ d.index >= Len(d.tape) -> NotChosen("exhausted", d)
    [] d.mode = "prefix" /\ d.index >= Len(d.tape) -> NotChosen("open", d)
    [] d.mode = "then" /\ d.index >= Len(d.tape) -> Seeded(d, c)

\* Finish: every recorded decision was consumed.
Finished(d) == d.index = Len(d.tape)
=============================================================================
