-------------------------- MODULE MCLocalEvaluation --------------------------
(* Small instances of LocalEvaluation for TLC. *)
EXTENDS LocalEvaluation

EveryStrategy ==
    {"VALUE", "NUMERIC", "DATE", "TIME", "PAYLOAD", "NETWORK", "REGEX", "UNKNOWN"}

SomeOperations(s) ==
    CASE s \in {"DATE", "TIME"} -> {"LOWER", "GREATER", "BETWEEN", "EQUAL"}
      [] s = "PAYLOAD"          -> {"HAS_ONE", "HAS_ALL", "EXIST"}
      [] s = "NUMERIC"          -> {"EXIST", "NOT_EXIST", "EQUAL", "NOT_EQUAL",
                                    "GREATER", "LOWER", "BETWEEN", "HAS_ONE"}
      [] OTHER                  -> {"EXIST", "NOT_EXIST", "EQUAL", "NOT_EQUAL", "LOWER"}

\* A pattern found in both texts that is the whole of one, and one that does not
\* compile.
Patterns == {[found |-> {"a", "ab"}, whole |-> {"a"}], [found |-> {}, whole |-> {}]}

\* {"a": {"b": 0}}, [{"a": 0}], and {"a": [{"b": 0}]}.
Documents == {{<<>>, <<"a">>, <<"a", "b">>},
              {<<>>, <<"[]">>, <<"[]", "a">>},
              {<<>>, <<"a">>, <<"a", "[]">>, <<"a", "[]", "b">>}}

OneValue(s) ==
    CASE s \in {"VALUE", "UNKNOWN"} -> {"a", "b"}
      [] s = "NUMERIC"              -> {Bad, NaN, 1, 2}
      [] s \in {"DATE", "TIME"}     -> {Bad, 1, 2}
      [] s = "PAYLOAD"              -> {<<"a">>, <<"b">>, <<"a", "b">>}
      [] s = "NETWORK"              -> {<<Bad, 0>>, <<0, 0>>, <<2, 1>>, <<1, 2>>}
      [] s = "REGEX"                -> Patterns

SomeValues(s) == UNION {[1..n -> OneValue(s)] : n \in 0..2}

SomeInputs(s) ==
    CASE s \in {"VALUE", "UNKNOWN"} -> {"a", "c"}
      [] s = "NUMERIC"              -> {Bad, NaN, 0, 1, 2}
      [] s \in {"DATE", "TIME"}     -> {Bad, 0, 1, 2, 3}
      [] s = "PAYLOAD"              -> Documents \cup {NotJson}
      [] s = "NETWORK"              -> {Bad, 0, 1, 2, 3}
      [] s = "REGEX"                -> {"a", "ab", "c"}

AllowA(activated) == [strategy |-> "VALUE", operation |-> "EXIST", values |-> <<"a">>,
                      activated |-> activated]
AllowOne == [strategy |-> "NUMERIC", operation |-> "EQUAL", values |-> <<1>>,
             activated |-> TRUE]

OneConfig(group, key, activated, relay, strategies) ==
    [activated |-> group, configs |-> <<[key |-> key, activated |-> activated,
                                         relay |-> relay, strategies |-> strategies]>>]

FirstGroups ==
    {OneConfig(group, key, activated, relay, strategies) :
        group \in BOOLEAN, key \in {K, "OTHER"}, activated \in BOOLEAN, relay \in BOOLEAN,
        strategies \in {<<>>, <<AllowA(TRUE)>>, <<AllowA(TRUE), AllowOne>>,
                        <<AllowA(FALSE), AllowOne>>}}

SomeConditions ==
    {[strategy |-> "VALUE", inputs |-> {"a"}], [strategy |-> "VALUE", inputs |-> {"c"}],
     [strategy |-> "UNKNOWN", inputs |-> {"a"}]}

\* One configuration, with a relay.
RelayShapes ==
    {[loaded |-> TRUE, activated |-> TRUE,
      groups |-> <<OneConfig(TRUE, K, TRUE, TRUE, <<>>)>>]}

SomeShapes ==
    {[loaded |-> TRUE, activated |-> domain, groups |-> groups] :
        domain \in BOOLEAN,
        groups \in {<<g>> : g \in FirstGroups}
              \cup {<<g, OneConfig(TRUE, K, TRUE, FALSE, <<>>)>> : g \in FirstGroups}}
\* Builders differ in nothing but their name.
BuilderSymmetry == Permutations(Builder)
=============================================================================
