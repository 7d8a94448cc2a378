----------------------------- MODULE Strategies -----------------------------
(***************************************************************************)
(* The strategies of a configuration, as functions of an input: whether a  *)
(* strategy with an operation and a list of values agrees.                 *)
(*                                                                         *)
(* Abstractions.  A text is what it parses to.  Numbers, dates and times   *)
(* are integers; a value that is an address is the network of all its      *)
(* bits; a pattern is the set of the texts it is found in and the set of   *)
(* those it matches as a whole; a document is the set of the paths to its  *)
(* nodes, and so is a value that names one.                                *)
(***************************************************************************)
EXTENDS Integers, Sequences

Bad == -1      \* a text that does not parse
NaN == -2      \* ParseFloat takes it for a number
NotJson == {}  \* an input that is no document: every document has a root

AddressBits == 2

Has(values, P(_)) == \E i \in DOMAIN values : P(values[i])

\* processValueStrategy.  EQUAL looks at the first value only.
AgreesValue(operation, values, input) ==
    LET exists == Has(values, LAMBDA v : v = input) IN
    CASE operation = "EXIST"                      -> exists
      [] operation = "EQUAL"                      -> values # <<>> /\ input = values[1]
      [] operation \in {"NOT_EXIST", "NOT_EQUAL"} -> ~exists
      [] OTHER                                    -> FALSE

Below(a, b) == a # NaN /\ b # NaN /\ a < b
Same(a, b)  == a # NaN /\ a = b

\* Faulty: the error of parsing the input is not looked at.
AgreesNumericUnparsed(operation, values, input) ==
    CASE operation \in {"EXIST", "EQUAL"}         -> Has(values, LAMBDA v : Same(v, input))
      [] operation \in {"NOT_EXIST", "NOT_EQUAL"} -> ~Has(values, LAMBDA v : Same(v, input))
      [] operation = "GREATER"                    -> Has(values, LAMBDA v : Below(v, input))
      [] operation = "LOWER"                      -> Has(values, LAMBDA v : Below(input, v))
      [] OTHER                                    -> FALSE

\* processNumericStrategy.  One value that does not parse spoils the strategy.
AgreesNumeric(operation, values, input) ==
    /\ input # Bad /\ ~Has(values, LAMBDA v : v = Bad)
    /\ LET exists == Has(values, LAMBDA v : Same(v, input)) IN
       CASE operation \in {"EXIST", "EQUAL"}         -> exists
         [] operation \in {"NOT_EXIST", "NOT_EQUAL"} -> ~exists
         [] operation = "GREATER" -> Has(values, LAMBDA v : Below(v, input))
         [] operation = "LOWER"   -> Has(values, LAMBDA v : Below(input, v))
         [] operation = "BETWEEN" ->
               /\ Len(values) >= 2
               /\ Below(values[1], input) \/ Same(values[1], input)
               /\ Below(input, values[2]) \/ Same(input, values[2])
         [] OTHER                 -> FALSE

\* Faulty: Equal is left out of one side.
AgreesMomentAfter(operation, values, input) ==
    /\ input # Bad /\ ~Has(values, LAMBDA v : v = Bad)
    /\ CASE operation = "LOWER"   -> Has(values, LAMBDA v : input <= v)
         [] operation = "GREATER" -> Has(values, LAMBDA v : input > v)
         [] operation = "BETWEEN" ->
               Len(values) >= 2 /\ values[1] <= input /\ input <= values[2]
         [] OTHER                 -> FALSE

\* processDateStrategy and processTimeStrategy: the bounds belong to the range.
AgreesMoment(operation, values, input) ==
    /\ input # Bad /\ ~Has(values, LAMBDA v : v = Bad)
    /\ CASE operation = "LOWER"   -> Has(values, LAMBDA v : input <= v)
         [] operation = "GREATER" -> Has(values, LAMBDA v : input >= v)
         [] operation = "BETWEEN" ->
               Len(values) >= 2 /\ values[1] <= input /\ input <= values[2]
         [] OTHER                 -> FALSE

\* flattenPayloadKeys: the paths to what the document holds, without the places
\* in arrays.
PayloadKeys(document) ==
    {SelectSeq(path, LAMBDA name : name # "[]") : path \in document} \ {<<>>}

\* processPayloadStrategy
AgreesPayload(operation, values, input) ==
    /\ input # NotJson
    /\ CASE operation = "HAS_ONE" -> Has(values, LAMBDA v : v \in PayloadKeys(input))
         [] operation = "HAS_ALL" -> ~Has(values, LAMBDA v : v \notin PayloadKeys(input))
         [] OTHER                 -> FALSE

\* network.Contains: the leading bits agree.  A value is an address and the
\* number of bits.
InNetwork(network, address) ==
    LET host == 2 ^ (AddressBits - network[2])
    IN  network[1] \div host = address \div host

\* networkExists passes over values that do not parse.
NetworkExists(values, address) ==
    Has(values, LAMBDA n : n[1] # Bad /\ InNetwork(n, address))

\* processNetworkStrategy
AgreesNetwork(operation, values, input) ==
    /\ input # Bad
    /\ CASE operation = "EXIST"     -> NetworkExists(values, input)
         [] operation = "NOT_EXIST" -> ~NetworkExists(values, input)
         [] OTHER                   -> FALSE

\* Faulty: a negation asks for one pattern that does not match.
AgreesRegexSome(operation, values, input) ==
    CASE operation = "EXIST"     -> Has(values, LAMBDA p : input \in p.found)
      [] operation = "NOT_EXIST" -> Has(values, LAMBDA p : input \notin p.found)
      [] operation = "EQUAL"     -> Has(values, LAMBDA p : input \in p.whole)
      [] operation = "NOT_EQUAL" -> Has(values, LAMBDA p : input \notin p.whole)
      [] OTHER                   -> FALSE

\* processRegexStrategy.  A pattern that does not compile matches nothing.
AgreesRegex(operation, values, input) ==
    CASE operation = "EXIST"     -> Has(values, LAMBDA p : input \in p.found)
      [] operation = "NOT_EXIST" -> ~Has(values, LAMBDA p : input \in p.found)
      [] operation = "EQUAL"     -> Has(values, LAMBDA p : input \in p.whole)
      [] operation = "NOT_EQUAL" -> ~Has(values, LAMBDA p : input \in p.whole)
      [] OTHER                   -> FALSE

\* processLocalStrategy
Agrees(strategy, operation, values, input) ==
    CASE strategy = "VALUE"            -> AgreesValue(operation, values, input)
      [] strategy = "NUMERIC"          -> AgreesNumeric(operation, values, input)
      [] strategy \in {"DATE", "TIME"} -> AgreesMoment(operation, values, input)
      [] strategy = "PAYLOAD"          -> AgreesPayload(operation, values, input)
      [] strategy = "NETWORK"          -> AgreesNetwork(operation, values, input)
      [] strategy = "REGEX"            -> AgreesRegex(operation, values, input)
      [] OTHER                         -> FALSE
=============================================================================
