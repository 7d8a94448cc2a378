----------------------------- MODULE Assumptions -----------------------------
(***************************************************************************)
(* What mocks promise: while a result is assumed for the key, evaluations  *)
(* get it if each strategy they were given an input of allows that input,  *)
(* and the opposite if one does not; otherwise they are decided elsewhere. *)
(*                                                                         *)
(* What a strategy was given, and what it allows, is the last of it.  Both *)
(* are sets that are empty when there is nothing.                          *)
(***************************************************************************)
CONSTANTS
    Strategy,
    Inputs,     \* what each strategy can be given
    Allowances  \* what a strategy can be made to allow: sets of inputs

VARIABLES
    given,    \* the inputs the switcher has
    assumed,  \* the result and what each strategy allows, as a set
    phase,    \* where the evaluation is
    asked,    \* the inputs it is about
    answer    \* the result it got by the assumption, as a set

avars == <<given, assumed, phase, asked, answer>>

NoInputs == [s \in Strategy |-> {}]

Blank == [result |-> FALSE, allowed |-> [s \in Strategy |-> {}]]

AssumptionsInit ==
    /\ given = NoInputs
    /\ assumed = {}
    /\ phase = "idle"
    /\ asked = NoInputs
    /\ answer = {}

Give ==
    /\ \E s \in Strategy : \E i \in Inputs[s] : given' = [given EXCEPT ![s] = {i}]
    /\ UNCHANGED <<assumed, phase, asked, answer>>

Assume ==
    /\ assumed' = {Blank}
    /\ UNCHANGED <<given, phase, asked, answer>>

Forget ==
    /\ assumed' = {}
    /\ UNCHANGED <<given, phase, asked, answer>>

\* What is in force is changed.
Change ==
    /\ \E a \in assumed :
          \/ \E r \in BOOLEAN : assumed' = {[a EXCEPT !.result = r]}
          \/ \E s \in Strategy, allowed \in Allowances :
                assumed' = {[a EXCEPT !.allowed[s] = {allowed}]}
    /\ UNCHANGED <<given, phase, asked, answer>>

Ask ==
    /\ phase = "idle"
    /\ phase' = "mock"
    /\ asked' = given
    /\ answer' = {}
    /\ UNCHANGED <<given, assumed>>

Allows(a) ==
    \A s \in Strategy : \A i \in asked[s], allowed \in a.allowed[s] : i \in allowed

Answer ==
    /\ phase = "mock"
    /\ \E a \in assumed : answer' = {IF Allows(a) THEN a.result ELSE ~a.result}
    /\ phase' = "idle"
    /\ asked' = NoInputs
    /\ UNCHANGED <<given, assumed>>

PassOn ==
    /\ phase = "mock"
    /\ assumed = {}
    /\ phase' = "resolve"
    /\ UNCHANGED <<given, assumed, asked, answer>>

DecidedElsewhere ==
    /\ phase = "resolve"
    /\ phase' = "idle"
    /\ asked' = NoInputs
    /\ UNCHANGED <<given, assumed, answer>>

AssumptionsNext ==
    \/ Give \/ Assume \/ Forget \/ Change
    \/ Ask \/ Answer \/ PassOn \/ DecidedElsewhere

AssumptionsSpec == AssumptionsInit /\ [][AssumptionsNext]_avars
=============================================================================
