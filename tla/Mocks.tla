-------------------------------- MODULE Mocks --------------------------------
(***************************************************************************)
(* The mocked result of one key of a client.                               *)
(*                                                                         *)
(* Assume makes a definition and returns a builder that goes on changing   *)
(* it, whether it is still in force or not.  Reasons and metadata are left  *)
(* out.                                                                    *)
(***************************************************************************)
EXTENDS LocalResolver

CONSTANTS
    Builder,   \* bound: the assumptions that are ever made
    NoBuilder  \* no assumption

ASSUME MocksAssumption == NoBuilder \notin Builder

VARIABLES
    mock,   \* the assumption in force (Client.mocks, for the key)
    built,  \* the assumptions made so far
    defs    \* their definitions

mocks == <<mock, built, defs>>

Blank == [result |-> FALSE, when |-> <<>>]

MocksTypeOK ==
    /\ mock \in built \cup {NoBuilder}
    /\ built \subseteq Builder
    /\ \A b \in Builder :
          /\ defs[b].result \in BOOLEAN
          /\ \A i, j \in DOMAIN defs[b].when :
                defs[b].when[i].strategy = defs[b].when[j].strategy => i = j

MocksInit ==
    /\ mock = NoBuilder
    /\ built = {}
    /\ defs = [b \in Builder |-> Blank]

Assume(b) ==
    /\ b \notin built
    /\ mock' = b
    /\ built' = built \cup {b}
    /\ UNCHANGED defs

Forget ==
    /\ mock' = NoBuilder
    /\ UNCHANGED <<built, defs>>

\* MockAssumption.True and MockAssumption.False
ForceResult(b, result) ==
    /\ b \in built
    /\ defs' = [defs EXCEPT ![b].result = result]
    /\ UNCHANGED <<mock, built>>

\* MockAssumption.When: a condition replaces the one of the same strategy.
When(b, condition) ==
    /\ b \in built
    /\ defs' = [defs EXCEPT ![b].when = Upserted(@, condition)]
    /\ UNCHANGED <<mock, built>>

\* A condition whose strategy is given an input that it does not allow.
Missed(condition, entries) ==
    LET i == EntryOf(entries, condition.strategy)
    IN  i # 0 /\ entries[i].input \notin condition.inputs

\* Faulty: every condition that is missed turns the result around.
TurnedResponse(definition, entries) ==
    LET missed == {c \in ToSet(definition.when) : Missed(c, entries)} IN
    Answer(IF Cardinality(missed) % 2 = 0 THEN definition.result ELSE ~definition.result)

\* mockDefinition.responseFor: the loop ends with the first one that is missed.
ResponseFor(definition, entries) ==
    LET i == SelectInSeq(definition.when, LAMBDA c : Missed(c, entries)) IN
    Answer(IF i = 0 THEN definition.result ELSE ~definition.result)
=============================================================================
