-------------------------- MODULE ExecutionEntries --------------------------
(***************************************************************************)
(* The list behind executionLogger, as operators: what add() and get() do  *)
(* to a sequence of entries.  An evaluation's inputs are a set of          *)
(* criteria; their order is never looked at.                               *)
(***************************************************************************)
EXTENDS SequencesExt

\* Faulty: no inputs match any.
InputsMatchLoose(logged, current) == logged \subseteq current

\* executionInputsMatch: no inputs match no inputs only; otherwise every
\* logged input has to be among the current ones, and not the other way round.
InputsMatch(logged, current) ==
    /\ logged = {} <=> current = {}
    /\ logged \subseteq current

\* executionEntryMatches
EntryMatches(entry, key, inputs) ==
    /\ entry.key = key
    /\ InputsMatch(entry.inputs, inputs)

\* get: the first entry that matches, as a set; nothing when none does.
Got(log, key, inputs) ==
    LET i == SelectInSeq(log, LAMBDA e : EntryMatches(e, key, inputs))
    IN  IF i = 0 THEN {} ELSE {log[i]}

\* Faulty: the entry that is superseded is kept.
AddedBehind(log, key, inputs, response) ==
    Append(log, [key |-> key, inputs |-> inputs, response |-> response])

\* add: the first entry that matches makes room for the new one, at the end.
Added(log, key, inputs, response) ==
    Append(RemoveFirstMatch(log, LAMBDA e : EntryMatches(e, key, inputs)),
           [key |-> key, inputs |-> inputs, response |-> response])
=============================================================================
