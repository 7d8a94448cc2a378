---------------------------- MODULE LocalResolver ----------------------------
(***************************************************************************)
(* The evaluation of a switcher against a snapshot, and the check that     *)
(* switchers are in it.                                                    *)
(*                                                                         *)
(* A snapshot is its domain's activation and its groups; relay says that   *)
(* a configuration has a relay that is activated.                          *)
(***************************************************************************)
EXTENDS Strategies, SequencesExt

NoSnapshot == [loaded |-> FALSE, activated |-> FALSE, groups |-> <<>>]

Failure == [error |-> TRUE, result |-> FALSE]

Answer(result) == [error |-> FALSE, result |-> result]

\* ContextOptions.withDefaults sets RestrictRelay, whether it was given or not.
RestrictRelay(given) == IF given THEN given ELSE TRUE

\* The place of the first entry of a strategy, 0 if there is none:
\* findCriteriaEntry.
EntryOf(entries, strategy) == SelectInSeq(entries, LAMBDA e : e.strategy = strategy)

\* Faulty: what a strategy was given before is kept.
AppendedEntry(entries, next) == Append(entries, next)

\* upsertEntry, and upsertMockCondition
Upserted(entries, next) ==
    LET i == EntryOf(entries, next.strategy)
    IN  IF i = 0 THEN Append(entries, next) ELSE [entries EXCEPT ![i] = next]

AgreesWith(strategy, entries) ==
    LET i == EntryOf(entries, strategy.strategy) IN
    i # 0 /\ Agrees(strategy.strategy, strategy.operation, strategy.values,
                    entries[i].input)

\* Faulty: only the first active strategy is looked at.
CheckFirstStrategy(strategies, entries) ==
    LET i == SelectInSeq(strategies, LAMBDA s : s.activated) IN
    Answer(i = 0 \/ AgreesWith(strategies[i], entries))

\* checkLocalStrategies: every active one has to agree.
CheckStrategies(strategies, entries) ==
    LET active == {s \in ToSet(strategies) : s.activated} IN
    CASE active # {} /\ entries = <<>> -> Answer(FALSE)
      [] entries # <<>> /\ \E s \in active : ~AgreesWith(s, entries) -> Answer(FALSE)
      [] OTHER -> Answer(TRUE)

\* checkLocalConfig
CheckConfig(config, entries, restrict) ==
    CASE ~config.activated -> Answer(FALSE)
      [] config.activated /\ config.relay /\ RestrictRelay(restrict) -> Answer(FALSE)
      [] OTHER -> CheckStrategies(config.strategies, entries)

\* The place of the first configuration of a key in a group, 0 if it has none.
KeyAt(group, key) == SelectInSeq(group.configs, LAMBDA c : c.key = key)

\* Faulty: a group that is disabled is passed over.
CheckEnabledGroup(snapshot, key, entries, restrict) ==
    LET g     == SelectInSeq(snapshot.groups, LAMBDA h : h.activated /\ KeyAt(h, key) # 0)
        group == snapshot.groups[g]
    IN  IF g = 0 THEN Failure
        ELSE CheckConfig(group.configs[KeyAt(group, key)], entries, restrict)

\* checkLocalGroup: the first configuration of that key counts.
CheckGroup(snapshot, key, entries, restrict) ==
    LET g     == SelectInSeq(snapshot.groups, LAMBDA h : KeyAt(h, key) # 0)
        group == snapshot.groups[g]
    IN  CASE g = 0                       -> Failure
          [] g # 0 /\ ~group.activated -> Answer(FALSE)
          [] OTHER -> CheckConfig(group.configs[KeyAt(group, key)], entries, restrict)

\* checkLocalCriteria and checkLocalDomain
CheckCriteria(snapshot, key, entries, restrict) ==
    CASE ~snapshot.loaded                        -> Failure
      [] snapshot.loaded /\ ~snapshot.activated -> Answer(FALSE)
      [] OTHER             -> CheckGroup(snapshot, key, entries, restrict)

\* checkLocalSwitchers: the keys it reports as missing.
MissingKeys(snapshot, keys) ==
    IF ~snapshot.loaded THEN keys
    ELSE keys \ {c.key : c \in UNION {ToSet(g.configs) : g \in ToSet(snapshot.groups)}}
=============================================================================
