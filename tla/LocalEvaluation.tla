--------------------------- MODULE LocalEvaluation ---------------------------
(***************************************************************************)
(* A Switcher evaluated in local mode: its inputs, the mock that may stand *)
(* before it, and the snapshot.                                            *)
(*                                                                         *)
(* The snapshot is chosen once; how it changes is in SnapshotStore.  A     *)
(* goroutine evaluates while others give inputs and build mocks.           *)
(***************************************************************************)
EXTENDS Mocks

IsSequence(s) == s \in Seq(ToSet(s))

CONSTANTS
    Strategy,         \* the strategies a snapshot can have
    OperationsOf(_),  \* the operations tried with a strategy
    ValuesOf(_),      \* what a strategy can have for values
    InputsOf(_),      \* what a strategy can be given
    Shapes,           \* snapshots whose groups and configurations vary
    Conditions        \* the conditions mocks are given

\* Snapshots are sequences of groups, which are sequences of configurations;
\* numbers, dates and times are integers.
ASSUME EvaluationAssumption ==
    /\ \A shape \in Shapes :
          /\ shape.loaded
          /\ IsSequence(shape.groups)
          /\ \A g \in DOMAIN shape.groups : IsSequence(shape.groups[g].configs)
    /\ \A s \in Strategy : \A values \in ValuesOf(s) : IsSequence(values)
    /\ \A s \in Strategy \cap {"NUMERIC", "DATE", "TIME"} :
          /\ InputsOf(s) \subseteq Int
          /\ \A values \in ValuesOf(s) : \A i \in DOMAIN values : values[i] \in Int
    /\ \A c \in Conditions : c.strategy \in Strategy

VARIABLES
    snapshot,  \* Client.snapshot
    restrict,  \* RestrictRelay, as the application gives it
    tried,     \* the strategies the application gives inputs of
    mocking,   \* the application mocks the key
    entries,   \* Switcher.entries
    pc,        \* where the evaluation is
    exec,      \* the entries of the clone that is evaluated
    last       \* the last evaluation

config == <<snapshot, restrict, tried, mocking>>
vars   == <<mock, built, defs, snapshot, restrict, tried, mocking,
            entries, pc, exec, last>>

K == "KEY"

Nothing == [by |-> "nobody", entries |-> <<>>, answer |-> Failure]

Answers == [error : BOOLEAN, result : BOOLEAN]

TypeOK ==
    /\ MocksTypeOK
    /\ {restrict, mocking} \subseteq BOOLEAN
    /\ pc \in {"idle", "mock", "resolve"}
    /\ last.by \in {"nobody", "mock", "resolver"}
    /\ last.answer \in Answers
    /\ \A i, j \in DOMAIN entries :
          entries[i].strategy = entries[j].strategy => i = j

\* A snapshot of one configuration that is activated.
Plain(strategies) ==
    [loaded |-> TRUE, activated |-> TRUE,
     groups |-> <<[activated |-> TRUE,
                   configs |-> <<[key |-> K, activated |-> TRUE, relay |-> FALSE,
                                  strategies |-> strategies]>>]>>]

\* What the application has and does, chosen once.
Chosen ==
    \/ \E s \in Strategy : \E operation \in OperationsOf(s), values \in ValuesOf(s) :
          /\ snapshot = Plain(<<[strategy |-> s, operation |-> operation,
                                 values |-> values, activated |-> TRUE]>>)
          /\ restrict = TRUE
          /\ tried = {s}
          /\ mocking = FALSE
    \/ /\ snapshot \in Shapes \cup {NoSnapshot}
       /\ restrict \in BOOLEAN
       /\ tried = {"VALUE", "NUMERIC"}
       /\ mocking = FALSE
    \/ /\ snapshot = Plain(<<>>)
       /\ restrict = TRUE
       /\ tried = {c.strategy : c \in Conditions}
       /\ mocking = TRUE

Init ==
    /\ Chosen
    /\ MocksInit
    /\ entries = <<>>
    /\ pc = "idle"
    /\ exec = <<>>
    /\ last = Nothing

-----------------------------------------------------------------------------
(* Switcher.submit in local mode. *)

\* snapshotForExecution
Begin ==
    /\ pc = "idle"
    /\ pc' = "mock"
    /\ exec' = entries
    /\ last' = Nothing
    /\ UNCHANGED <<mocks, config, entries>>

Respond(by, answer) ==
    /\ pc' = "idle"
    /\ exec' = <<>>
    /\ last' = [by |-> by, entries |-> exec, answer |-> answer]

\* Client.mockedResult: the definition is cloned under the lock.
MockedResult ==
    /\ pc = "mock"
    /\ \/ /\ mock # NoBuilder
          /\ Respond("mock", ResponseFor(defs[mock], exec))
       \/ /\ mock = NoBuilder
          /\ pc' = "resolve"
          /\ UNCHANGED <<exec, last>>
    /\ UNCHANGED <<mocks, config, entries>>

\* Switcher.executeLocal
ExecuteLocal ==
    /\ pc = "resolve"
    /\ Respond("resolver", CheckCriteria(snapshot, K, exec, restrict))
    /\ UNCHANGED <<mocks, config, entries>>

\* Check and its variants.
Check ==
    /\ \E s \in tried : \E i \in InputsOf(s) :
          entries' = Upserted(entries, [strategy |-> s, input |-> i])
    /\ UNCHANGED <<mocks, config, pc, exec, last>>

Build(b) ==
    \/ \E result \in BOOLEAN : ForceResult(b, result)
    \/ \E condition \in Conditions : When(b, condition)

Mock ==
    /\ mocking
    /\ Forget \/ \E b \in Builder : Assume(b) \/ Build(b)
    /\ UNCHANGED <<config, entries, pc, exec, last>>

Next == Begin \/ MockedResult \/ ExecuteLocal \/ Check \/ Mock

Spec == Init /\ [][Next]_vars

-----------------------------------------------------------------------------
(* Properties. *)

Given(s) == {e.input : e \in {f \in ToSet(last.entries) : f.strategy = s}}

\* Domain, group and configuration are activated, no relay restricts it, if
\* relays are to, and every activated strategy agrees, in whatever order inputs
\* were given; the first configuration of the key is the one that counts.
Enabled(restricting) ==
    /\ snapshot.activated
    /\ \E g \in DOMAIN snapshot.groups :
       \E c \in DOMAIN snapshot.groups[g].configs :
          LET chosen == snapshot.groups[g].configs[c] IN
          /\ chosen.key = K
          /\ \A h \in 1..g : \A d \in DOMAIN snapshot.groups[h].configs :
                snapshot.groups[h].configs[d].key = K => h = g /\ d >= c
          /\ snapshot.groups[g].activated /\ chosen.activated
          /\ restricting => ~chosen.relay
          /\ \A s \in ToSet(chosen.strategies) :
                s.activated => \E i \in Given(s.strategy) :
                    Agrees(s.strategy, s.operation, s.values, i)

\* resolver.go: an evaluation is true when, and only when, the configuration is
\* enabled; one whose relay the application did not ask to be restricted by may
\* be so or not, which RelayOptional is about.
ResolverDecides ==
    last.by = "resolver" =>
        /\ Enabled(TRUE) => last.answer.result
        /\ last.answer.result => Enabled(restrict)

\* README.md:208: RestrictRelay is an option, so an application that sets it to
\* false is not restricted by relays.
RelayOptional ==
    last.by = "resolver" /\ ~restrict => (last.answer.result <=> Enabled(FALSE))

\* CheckSwitchers and evaluation agree on whether the snapshot has a key.
SwitchersChecked ==
    last.by = "resolver" /\ snapshot.activated =>
        (last.answer.error <=> MissingKeys(snapshot, {K}) # {})

\* The snapshot has one strategy, s, which has been evaluated.
Alone(s) == tried = {s} /\ ~mocking /\ last.by = "resolver"

\* P holds of the values of a snapshot with one strategy, which is one of these,
\* and the input it was evaluated with.
OneStrategyOf(strategies, P(_, _, _)) ==
    \A s \in strategies :
        Alone(s) =>
            \A input \in Given(s) :
                P(s, snapshot.groups[1].configs[1].strategies[1].values, input)

\* local_strategies.go: an input that does not parse never enables a switcher,
\* not even under a negated operation.
FailsClosed ==
    \A s \in Strategy : Alone(s) /\ last.answer.result =>
        /\ s \in {"NUMERIC", "DATE", "TIME", "NETWORK"} => Bad \notin Given(s)
        /\ s = "PAYLOAD" => NotJson \notin Given(s)

\* local_strategies.go: an operation and its negation never agree or disagree
\* both, with values and inputs that parse; EQUAL and NOT_EQUAL only if there
\* is one value, as the former looks at the first one.
OperationsAreDual ==
    /\ OneStrategyOf({"VALUE", "NUMERIC", "NETWORK", "REGEX"}, LAMBDA s, values, input :
          /\ s \in {"NUMERIC", "NETWORK"} => input # Bad
          /\ s = "NUMERIC" => ~Has(values, LAMBDA v : v = Bad)
          => Agrees(s, "NOT_EXIST", values, input) = ~Agrees(s, "EXIST", values, input))
    /\ OneStrategyOf({"VALUE", "REGEX"}, LAMBDA s, values, input :
          Len(values) = 1
          => Agrees(s, "NOT_EQUAL", values, input) = ~Agrees(s, "EQUAL", values, input))

\* local_strategies.go: BETWEEN is the range from the one bound to the other,
\* both of which belong to it, as they do to LOWER and GREATER of dates and
\* times; numbers have theirs from EQUAL.
BoundariesAgree ==
    /\ OneStrategyOf({"DATE", "TIME"}, LAMBDA s, values, input :
          Len(values) = 2 =>
              (Agrees(s, "BETWEEN", values, input) <=>
                 /\ Agrees(s, "GREATER", values, input) /\ Agrees(s, "LOWER", values, input)
                 /\ ~Has(values, LAMBDA v : v = Bad)
                 /\ Agrees(s, "GREATER", <<values[1]>>, input)
                 /\ Agrees(s, "LOWER", <<values[2]>>, input)))
    /\ OneStrategyOf({"NUMERIC"}, LAMBDA s, values, input :
          Len(values) = 2 /\ ~Has(values, LAMBDA v : v = Bad) =>
              (Agrees(s, "BETWEEN", values, input) <=>
                 /\ \/ Agrees(s, "GREATER", <<values[1]>>, input)
                    \/ Agrees(s, "EQUAL", <<values[1]>>, input)
                 /\ \/ Agrees(s, "LOWER", <<values[2]>>, input)
                    \/ Agrees(s, "EQUAL", <<values[2]>>, input)))

\* The inputs that entries give of each strategy.
GivenBy(es) ==
    [s \in Strategy |-> {e.input : e \in {f \in ToSet(es) : f.strategy = s}}]

\* What the conditions of a definition allow of each strategy.
AllowedBy(when) ==
    [s \in Strategy |-> {c.inputs : c \in {d \in ToSet(when) : d.strategy = s}}]

\* mock.go: however Assume, Forget, the builders, those of assumptions that were
\* replaced or forgotten among them, and the evaluations follow each other, an
\* evaluation gets what the assumption in force says of the inputs it began
\* with, all of it at one moment, and nothing comes back that was replaced.
Assumed == INSTANCE Assumptions
              WITH Inputs <- [s \in Strategy |-> InputsOf(s)],
                   Allowances <- {c.inputs : c \in Conditions},
                   given <- GivenBy(entries),
                   assumed <- IF mock = NoBuilder THEN {}
                              ELSE {[result |-> defs[mock].result,
                                     allowed |-> AllowedBy(defs[mock].when)]},
                   phase <- pc,
                   asked <- GivenBy(exec),
                   answer <- IF last.by = "mock" THEN {last.answer.result} ELSE {}

ImplementsAssumptions == Assumed!AssumptionsSpec
=============================================================================
