----------------------- MODULE LocalEvaluation_proofs -----------------------
(***************************************************************************)
(* Proofs about LocalEvaluation, for all snapshots, inputs and mocks.      *)
(***************************************************************************)
EXTENDS LocalEvaluation, TLAPS, WellFoundedInduction

-----------------------------------------------------------------------------
(* The first place with a property. *)

\* A set of numbers has a least one.
LEMMA Least ==
    ASSUME NEW I, I \subseteq Nat, I # {}
    PROVE  Min(I) \in I /\ \A i \in I : Min(I) <= i
<1>1. PICK x \in I : \A y \in I : ~ (<<y, x>> \in OpToRel(<, Nat))
  BY WFMin, NatLessThanWellFounded
<1>2. \A y \in I : x <= y
  <2> SUFFICES ASSUME NEW y \in I PROVE x <= y
    OBVIOUS
  <2>1. ~ (y < x)
    BY <1>1 DEF OpToRel
  <2> QED BY <2>1
<1> QED BY <1>2 DEF Min

\* A sequence has the places from one to its length.
LEMMA PlacesOf ==
    ASSUME NEW s, IsSequence(s)
    PROVE  /\ Len(s) \in Nat /\ DOMAIN s = 1..Len(s)
           /\ ToSet(s) = {s[i] : i \in 1..Len(s)}
BY DEF IsSequence, ToSet

\* The first entry of a strategy.
LEMMA EntryFound ==
    ASSUME NEW es, IsSequence(es), NEW strategy
    PROVE  LET i == EntryOf(es, strategy) IN
           /\ i = 0 <=> \A j \in DOMAIN es : es[j].strategy # strategy
           /\ i # 0 => i \in DOMAIN es /\ es[i].strategy = strategy
<1> DEFINE I == {i \in 1..Len(es) : es[i].strategy = strategy}
<1>1. EntryOf(es, strategy) = IF I # {} THEN Min(I) ELSE 0
  BY DEF EntryOf, SelectInSeq
<1>2. DOMAIN es = 1..Len(es) /\ Len(es) \in Nat /\ I \subseteq Nat /\ 0 \notin I
  BY PlacesOf
<1>3. CASE I = {}
  BY <1>1, <1>2, <1>3
<1>4. CASE I # {}
  BY <1>1, <1>2, <1>4, Least
<1> QED BY <1>3, <1>4

\* The first configuration of a key in a group.
LEMMA KeyFound ==
    ASSUME NEW group, IsSequence(group.configs), NEW key
    PROVE  LET c == KeyAt(group, key) IN
           /\ c = 0 <=> \A d \in DOMAIN group.configs : group.configs[d].key # key
           /\ c # 0 => /\ c \in DOMAIN group.configs /\ group.configs[c].key = key
                       /\ \A d \in DOMAIN group.configs :
                             group.configs[d].key = key => d >= c
<1> DEFINE cs == group.configs
           I  == {d \in 1..Len(cs) : cs[d].key = key}
<1>1. KeyAt(group, key) = IF I # {} THEN Min(I) ELSE 0
  BY DEF KeyAt, SelectInSeq
<1>2. DOMAIN cs = 1..Len(cs) /\ Len(cs) \in Nat /\ I \subseteq Nat /\ 0 \notin I
  BY PlacesOf
<1>3. CASE I = {}
  BY <1>1, <1>2, <1>3
<1>4. CASE I # {}
  <2>1. Min(I) \in I /\ \A d \in I : Min(I) <= d
    BY <1>2, <1>4, Least
  <2> HIDE DEF cs
  <2>2. \A d \in DOMAIN cs : cs[d].key = key => d >= Min(I)
    BY <1>2, <2>1
  <2> QED BY <1>1, <1>2, <1>4, <2>1, <2>2 DEF cs
<1> QED BY <1>3, <1>4

\* Snapshots whose groups and configurations are sequences.
Sequenced(shot) ==
    /\ IsSequence(shot.groups)
    /\ \A g \in DOMAIN shot.groups : IsSequence(shot.groups[g].configs)

\* The first group that has the key.
GroupWith(shot, key) == SelectInSeq(shot.groups, LAMBDA h : KeyAt(h, key) # 0)

\* It is the first one that has it, or no group has.
LEMMA GroupFound ==
    ASSUME NEW shot, Sequenced(shot), NEW key
    PROVE  LET g == GroupWith(shot, key) IN
           /\ g = 0 <=> \A h \in DOMAIN shot.groups : KeyAt(shot.groups[h], key) = 0
           /\ g # 0 => /\ g \in DOMAIN shot.groups /\ KeyAt(shot.groups[g], key) # 0
                       /\ \A h \in DOMAIN shot.groups :
                             KeyAt(shot.groups[h], key) # 0 => h >= g
<1> DEFINE gs == shot.groups
           I  == {h \in 1..Len(gs) : KeyAt(gs[h], key) # 0}
<1>1. GroupWith(shot, key) = IF I # {} THEN Min(I) ELSE 0
  BY DEF GroupWith, SelectInSeq
<1>2. DOMAIN gs = 1..Len(gs) /\ Len(gs) \in Nat /\ I \subseteq Nat /\ 0 \notin I
  BY PlacesOf DEF Sequenced
<1>3. CASE I = {}
  BY <1>1, <1>2, <1>3
<1>4. CASE I # {}
  <2>1. Min(I) \in I /\ \A h \in I : Min(I) <= h
    BY <1>2, <1>4, Least
  <2> HIDE DEF gs
  <2>2. \A h \in DOMAIN gs : KeyAt(gs[h], key) # 0 => h >= Min(I)
    BY <1>2, <2>1
  <2> QED BY <1>1, <1>2, <1>4, <2>1, <2>2 DEF gs
<1> QED BY <1>3, <1>4

-----------------------------------------------------------------------------
(* What the operators of LocalResolver and Mocks compute. *)

\* No two elements are of the same strategy.
OnePerStrategy(s) == \A i, j \in DOMAIN s : s[i].strategy = s[j].strategy => i = j

\* What is put into a sequence replaces what it has of the same strategy.
LEMMA UpsertedKeeps ==
    ASSUME NEW S, NEW es \in Seq(S), OnePerStrategy(es), NEW next \in S
    PROVE  /\ Upserted(es, next) \in Seq(S)
           /\ OnePerStrategy(Upserted(es, next))
           /\ \A i \in DOMAIN Upserted(es, next) :
                 \/ Upserted(es, next)[i] = next
                 \/ i \in DOMAIN es /\ Upserted(es, next)[i] = es[i]
<1> DEFINE k == EntryOf(es, next.strategy)
           u == Upserted(es, next)
<1>1. IsSequence(es) /\ DOMAIN es = 1..Len(es) /\ Len(es) \in Nat
      /\ \A i \in 1..Len(es) : es[i] \in S
  BY DEF IsSequence, ToSet
<1>2. /\ k = 0 <=> \A j \in DOMAIN es : es[j].strategy # next.strategy
      /\ k # 0 => k \in DOMAIN es /\ es[k].strategy = next.strategy
  BY <1>1, EntryFound
<1>3. u = IF k = 0 THEN Append(es, next) ELSE [es EXCEPT ![k] = next]
  BY DEF Upserted
<1> HIDE DEF k, u
<1>4. CASE k = 0
  <2>1. u \in Seq(S) /\ DOMAIN u = 1..Len(es) + 1
    BY <1>1, <1>3, <1>4
  <2>2. \A i \in DOMAIN es : u[i] = es[i]
    BY <1>1, <1>3, <1>4
  <2>3. u[Len(es) + 1] = next
    BY <1>1, <1>3, <1>4
  <2>4. \A i \in DOMAIN u : i \in DOMAIN es \/ i = Len(es) + 1
    BY <1>1, <2>1
  <2>5. OnePerStrategy(u)
    BY <1>2, <1>4, <2>2, <2>3, <2>4 DEF OnePerStrategy
  <2> QED BY <2>1, <2>2, <2>3, <2>4, <2>5 DEF u
<1>5. CASE k # 0
  <2>1. DOMAIN u = DOMAIN es /\ \A i \in DOMAIN es : u[i] = IF i = k THEN next ELSE es[i]
    BY <1>3, <1>5
  <2>2. u \in Seq(S)
    BY <1>1, <1>2, <1>3, <1>5
  <2>3. \A i \in DOMAIN es : u[i].strategy = es[i].strategy
    BY <1>2, <1>5, <2>1
  <2>4. OnePerStrategy(u)
    BY <2>1, <2>3 DEF OnePerStrategy
  <2> QED BY <2>1, <2>2, <2>4 DEF u
<1> QED BY <1>4, <1>5

\* A strategy agrees if it does with what it is given, in whatever place.
LEMMA StrategyAgrees ==
    ASSUME NEW es, IsSequence(es), OnePerStrategy(es), NEW s
    PROVE  AgreesWith(s, es) <=>
              \E e \in ToSet(es) : /\ e.strategy = s.strategy
                                   /\ Agrees(s.strategy, s.operation, s.values, e.input)
<1> DEFINE k == EntryOf(es, s.strategy)
<1>1. /\ k = 0 <=> \A j \in DOMAIN es : es[j].strategy # s.strategy
      /\ k # 0 => k \in DOMAIN es /\ es[k].strategy = s.strategy
  BY EntryFound
<1>2. AgreesWith(s, es) <=>
         k # 0 /\ Agrees(s.strategy, s.operation, s.values, es[k].input)
  BY DEF AgreesWith
<1> HIDE DEF k
<1>3. ToSet(es) = {es[j] : j \in DOMAIN es}
  BY DEF ToSet
<1>4. k # 0 => \A j \in DOMAIN es : es[j].strategy = s.strategy => j = k
  BY <1>1 DEF OnePerStrategy
<1> QED BY <1>1, <1>2, <1>3, <1>4

\* An answer is what was decided, and no error.
LEMMA Answered ==
    /\ Answer(TRUE) \in Answers /\ Answer(TRUE).error = FALSE
    /\ Answer(FALSE) \in Answers /\ Answer(FALSE).error = FALSE
    /\ Answer(TRUE).result /\ ~Answer(FALSE).result
BY DEF Answer, Answers

\* Every active strategy has to agree.
LEMMA StrategiesDecide ==
    ASSUME NEW es, IsSequence(es), OnePerStrategy(es), NEW strategies
    PROVE  LET answer == CheckStrategies(strategies, es) IN
           /\ answer \in Answers /\ answer.error = FALSE
           /\ answer.result <=> \A s \in ToSet(strategies) : s.activated => AgreesWith(s, es)
<1> DEFINE active == {s \in ToSet(strategies) : s.activated}
<1>1. es = <<>> => \A s \in active : ~AgreesWith(s, es)
  BY StrategyAgrees DEF ToSet
<1>2. CheckStrategies(strategies, es) =
         CASE active # {} /\ es = <<>> -> Answer(FALSE)
           [] es # <<>> /\ \E s \in active : ~AgreesWith(s, es) -> Answer(FALSE)
           [] OTHER -> Answer(TRUE)
  BY DEF CheckStrategies
<1> HIDE DEF active
<1>3. CASE active # {} /\ es = <<>>
  <2>1. CheckStrategies(strategies, es) = Answer(FALSE)
    BY <1>2, <1>3
  <2> QED BY <1>1, <1>3, <2>1, Answered DEF active
<1>4. CASE es # <<>> /\ \E s \in active : ~AgreesWith(s, es)
  <2>1. CheckStrategies(strategies, es) = Answer(FALSE)
    BY <1>2, <1>4
  <2> QED BY <1>4, <2>1, Answered DEF active
<1>5. CASE /\ ~ (active # {} /\ es = <<>>)
           /\ ~ (es # <<>> /\ \E s \in active : ~AgreesWith(s, es))
  <2>1. CheckStrategies(strategies, es) = Answer(TRUE)
    BY <1>2, <1>5
  <2> QED BY <1>5, <2>1, Answered DEF active
<1> QED BY <1>3, <1>4, <1>5

\* A configuration and its relay, whatever the application gave for RestrictRelay.
LEMMA ConfigDecides ==
    ASSUME NEW es, IsSequence(es), OnePerStrategy(es), NEW conf, NEW r \in BOOLEAN
    PROVE  LET answer == CheckConfig(conf, es, r) IN
           /\ answer \in Answers /\ answer.error = FALSE
           /\ answer.result <=>
                 /\ conf.activated /\ ~conf.relay
                 /\ \A s \in ToSet(conf.strategies) : s.activated => AgreesWith(s, es)
<1>1. RestrictRelay(r)
  BY DEF RestrictRelay
<1>2. CASE ~conf.activated
  <2>1. CheckConfig(conf, es, r) = Answer(FALSE)
    BY <1>2 DEF CheckConfig
  <2> QED BY <1>2, <2>1, Answered
<1>3. CASE conf.activated /\ conf.relay
  <2>1. CheckConfig(conf, es, r) = Answer(FALSE)
    BY <1>1, <1>3 DEF CheckConfig
  <2> QED BY <1>3, <2>1, Answered
<1>4. CASE conf.activated /\ ~conf.relay
  <2>1. CheckConfig(conf, es, r) = CheckStrategies(conf.strategies, es)
    BY <1>4 DEF CheckConfig
  <2> QED BY <1>4, <2>1, StrategiesDecide
<1> QED BY <1>2, <1>3, <1>4

\* The configuration that counts: the first one of the key.
FirstOfKey(shot, key, g, c) ==
    /\ g \in DOMAIN shot.groups
    /\ c \in DOMAIN shot.groups[g].configs
    /\ shot.groups[g].configs[c].key = key
    /\ \A h \in 1..g : \A d \in DOMAIN shot.groups[h].configs :
          shot.groups[h].configs[d].key = key => h = g /\ d >= c

\* Some configuration of the snapshot has the key.
HasKey(shot, key) ==
    \E g \in DOMAIN shot.groups : \E c \in DOMAIN shot.groups[g].configs :
        shot.groups[g].configs[c].key = key

\* What is looked up is the configuration that counts, and there is no other.
LEMMA FoundIsFirst ==
    ASSUME NEW shot, Sequenced(shot), NEW key
    PROVE  LET g == GroupWith(shot, key)
               c == KeyAt(shot.groups[g], key) IN
           /\ g = 0 <=> ~HasKey(shot, key)
           /\ g # 0 => /\ FirstOfKey(shot, key, g, c)
                       /\ \A h, d : FirstOfKey(shot, key, h, d) => h = g /\ d = c
           /\ g = 0 => \A h, d : ~FirstOfKey(shot, key, h, d)
<1> DEFINE g == GroupWith(shot, key)
           c == KeyAt(shot.groups[g], key)
<1>1. /\ g = 0 <=> \A h \in DOMAIN shot.groups : KeyAt(shot.groups[h], key) = 0
      /\ g # 0 => /\ g \in DOMAIN shot.groups /\ c # 0
                  /\ \A h \in DOMAIN shot.groups :
                        KeyAt(shot.groups[h], key) # 0 => h >= g
  BY GroupFound
<1>2. ASSUME NEW h \in DOMAIN shot.groups
      PROVE  LET k == KeyAt(shot.groups[h], key) IN
             /\ k = 0 <=> \A d \in DOMAIN shot.groups[h].configs :
                             shot.groups[h].configs[d].key # key
             /\ k # 0 => /\ k \in DOMAIN shot.groups[h].configs
                         /\ shot.groups[h].configs[k].key = key
                         /\ \A d \in DOMAIN shot.groups[h].configs :
                               shot.groups[h].configs[d].key = key => d >= k
  BY <1>2, KeyFound DEF Sequenced
<1>3. DOMAIN shot.groups = 1..Len(shot.groups) /\ Len(shot.groups) \in Nat
  BY PlacesOf DEF Sequenced
<1>4. \A h \in DOMAIN shot.groups : DOMAIN shot.groups[h].configs \subseteq Nat
  BY PlacesOf DEF Sequenced
<1> HIDE DEF g, c
<1>5. g = 0 <=> ~HasKey(shot, key)
  BY <1>1, <1>2 DEF HasKey
<1>6. ASSUME g # 0 PROVE FirstOfKey(shot, key, g, c)
  <2>1. /\ g \in DOMAIN shot.groups /\ c \in DOMAIN shot.groups[g].configs
        /\ shot.groups[g].configs[c].key = key
        /\ \A d \in DOMAIN shot.groups[g].configs :
              shot.groups[g].configs[d].key = key => d >= c
    BY <1>1, <1>2, <1>6 DEF c
  <2>2. ASSUME NEW h \in 1..g, NEW d \in DOMAIN shot.groups[h].configs,
               shot.groups[h].configs[d].key = key
        PROVE  h = g /\ d >= c
    <3>1. h \in DOMAIN shot.groups
      BY <1>3, <2>1
    <3>2. KeyAt(shot.groups[h], key) # 0
      BY <1>2, <2>2, <3>1
    <3>3. h = g
      BY <1>1, <1>3, <1>6, <2>1, <3>1, <3>2
    <3> QED BY <2>1, <2>2, <3>3
  <2> QED BY <2>1, <2>2 DEF FirstOfKey
<1>7. ASSUME NEW h, NEW d, FirstOfKey(shot, key, h, d)
      PROVE  g # 0 /\ h = g /\ d = c
  <2>1. h \in DOMAIN shot.groups /\ d \in DOMAIN shot.groups[h].configs
        /\ shot.groups[h].configs[d].key = key
    BY <1>7 DEF FirstOfKey
  <2>2. g # 0
    BY <1>5, <2>1 DEF HasKey
  <2>3. KeyAt(shot.groups[h], key) # 0
    BY <1>2, <2>1
  <2>4. FirstOfKey(shot, key, g, c) /\ h >= g
    BY <1>1, <1>6, <2>1, <2>2, <2>3
  <2>5. /\ g \in DOMAIN shot.groups /\ c \in DOMAIN shot.groups[g].configs
        /\ shot.groups[g].configs[c].key = key
    BY <2>4 DEF FirstOfKey
  <2>6. g \in 1..h
    BY <1>3, <2>1, <2>4, <2>5
  <2>7. g = h /\ c >= d
    BY <1>7, <2>5, <2>6 DEF FirstOfKey
  <2>8. d >= c
    BY <2>1, <2>4, <2>5, <2>7, <1>3 DEF FirstOfKey
  <2>9. c \in Nat /\ d \in Nat
    BY <1>4, <2>1, <2>5
  <2> QED BY <2>2, <2>7, <2>8, <2>9
<1> QED BY <1>5, <1>6, <1>7 DEF g, c

\* The configuration that counts enables a switcher given these entries.
Enables(shot, g, c, es) ==
    LET conf == shot.groups[g].configs[c] IN
    /\ shot.groups[g].activated /\ conf.activated /\ ~conf.relay
    /\ \A s \in ToSet(conf.strategies) : s.activated => AgreesWith(s, es)

\* The group answers as the configuration that counts does.
LEMMA GroupDecides ==
    ASSUME NEW shot, Sequenced(shot), NEW key, NEW r \in BOOLEAN,
           NEW es, IsSequence(es), OnePerStrategy(es)
    PROVE  LET answer == CheckGroup(shot, key, es, r) IN
           /\ answer \in Answers
           /\ answer.error <=> ~HasKey(shot, key)
           /\ answer.result <=>
                 \E g, c : FirstOfKey(shot, key, g, c) /\ Enables(shot, g, c, es)
<1> DEFINE g      == GroupWith(shot, key)
           group  == shot.groups[g]
           c      == KeyAt(group, key)
           answer == CheckGroup(shot, key, es, r)
<1>1. /\ g = 0 <=> ~HasKey(shot, key)
      /\ g # 0 => FirstOfKey(shot, key, g, c)
      /\ g # 0 => \A h, d : FirstOfKey(shot, key, h, d) => h = g /\ d = c
      /\ g = 0 => \A h, d : ~FirstOfKey(shot, key, h, d)
  BY FoundIsFirst
<1>2. answer = CASE g = 0                       -> Failure
                 [] g # 0 /\ ~group.activated -> Answer(FALSE)
                 [] OTHER -> CheckConfig(group.configs[c], es, r)
  BY DEF CheckGroup, GroupWith
<1> HIDE DEF g, group, c, answer
<1>3. CASE g = 0
  <2>1. answer = Failure
    BY <1>2, <1>3
  <2>2. answer \in Answers /\ answer.error /\ ~answer.result
    BY <2>1 DEF Failure, Answers
  <2> QED BY <1>1, <1>3, <2>2 DEF answer
<1>4. CASE g # 0
  <2>1. (\E h, d : FirstOfKey(shot, key, h, d) /\ Enables(shot, h, d, es))
           <=> Enables(shot, g, c, es)
    BY <1>1, <1>4
  <2>2. /\ answer \in Answers /\ answer.error = FALSE
        /\ answer.result <=> Enables(shot, g, c, es)
    <3>1. CASE ~group.activated
      <4>1. answer = Answer(FALSE)
        BY <1>2, <1>4, <3>1
      <4>2. ~Enables(shot, g, c, es)
        BY <3>1 DEF Enables, group
      <4> QED BY <4>1, <4>2, Answered
    <3>2. CASE group.activated
      <4>1. answer = CheckConfig(group.configs[c], es, r)
        BY <1>2, <1>4, <3>2
      <4> QED BY <3>2, <4>1, ConfigDecides DEF Enables, group
    <3> QED BY <3>1, <3>2
  <2> QED BY <1>1, <1>4, <2>1, <2>2 DEF answer
<1> QED BY <1>3, <1>4

\* The keys that are reported as missing are those that no configuration has.
LEMMA MissingIsMissing ==
    ASSUME NEW shot, shot.loaded, NEW key
    PROVE  MissingKeys(shot, {key}) # {} <=> ~HasKey(shot, key)
<1>1. HasKey(shot, key) <=>
         key \in {c.key : c \in UNION {ToSet(g.configs) : g \in ToSet(shot.groups)}}
  BY DEF HasKey, ToSet
<1> QED BY <1>1 DEF MissingKeys

-----------------------------------------------------------------------------
(* The invariant. *)

Entry == [strategy : tried, input : UNION {InputsOf(s) : s \in tried}]

\* What a switcher can have been given.
GivenInputs(es) ==
    /\ es \in Seq(Entry) /\ OnePerStrategy(es)
    /\ \A i \in DOMAIN es : es[i].input \in InputsOf(es[i].strategy)

Definitions == [result : BOOLEAN, when : Seq(Conditions)]

MocksInv ==
    /\ mock \in built \cup {NoBuilder}
    /\ built \subseteq Builder
    /\ defs \in [Builder -> Definitions]
    /\ \A b \in Builder : OnePerStrategy(defs[b].when)

\* What was answered is what the resolver answers to the inputs it was given.
EvaluationInv ==
    /\ Chosen
    /\ MocksInv
    /\ pc \in {"idle", "mock", "resolve"}
    /\ GivenInputs(entries) /\ GivenInputs(exec) /\ GivenInputs(last.entries)
    /\ last.by \in {"nobody", "mock", "resolver"}
    /\ last.answer \in Answers
    /\ last.by = "resolver" =>
          last.answer = CheckCriteria(snapshot, K, last.entries, restrict)

\* A switcher that was given nothing.
LEMMA NoneGiven == GivenInputs(<<>>) /\ OnePerStrategy(<<>>)
BY DEF GivenInputs, OnePerStrategy

\* What the lemmas on sequences ask for.
LEMMA GivenIsSequence ==
    ASSUME NEW es, GivenInputs(es)
    PROVE  IsSequence(es) /\ OnePerStrategy(es)
BY DEF GivenInputs, IsSequence, ToSet

\* What is chosen is a snapshot whose parts are sequences, or none.
LEMMA ChosenSnapshot ==
    ASSUME Chosen
    PROVE  /\ Sequenced(snapshot) /\ restrict \in BOOLEAN
           /\ snapshot.loaded \/ (~snapshot.loaded /\ ~snapshot.activated)
<1>1. \A strategies : Sequenced(Plain(strategies)) /\ Plain(strategies).loaded
  <2> SUFFICES ASSUME NEW strategies
               PROVE  Sequenced(Plain(strategies)) /\ Plain(strategies).loaded
    OBVIOUS
  <2> DEFINE configs == <<[key |-> K, activated |-> TRUE, relay |-> FALSE,
                           strategies |-> strategies]>>
             group   == [activated |-> TRUE, configs |-> configs]
             groups  == <<group>>
  <2>1. Plain(strategies).groups = groups /\ Plain(strategies).loaded
    BY DEF Plain
  <2>2. group.configs = configs
    OBVIOUS
  <2>3. \A x : IsSequence(<<x>>)
    <3> SUFFICES ASSUME NEW x PROVE IsSequence(<<x>>)
      OBVIOUS
    <3>1. ToSet(<<x>>) = {x}
      BY DEF ToSet
    <3> QED BY <3>1 DEF IsSequence
  <2>4. IsSequence(configs)
    BY <2>3
  <2> HIDE DEF configs, group
  <2>5. IsSequence(groups) /\ \A g \in DOMAIN groups : groups[g] = group
    BY <2>3
  <2> HIDE DEF groups
  <2> QED BY <2>1, <2>2, <2>4, <2>5 DEF Sequenced
<1>2. /\ Sequenced(NoSnapshot)
      /\ ~NoSnapshot.loaded /\ ~NoSnapshot.activated
  BY DEF NoSnapshot, Sequenced, IsSequence, ToSet
<1>3. \A shape \in Shapes : Sequenced(shape) /\ shape.loaded
  BY EvaluationAssumption DEF Sequenced
<1>4. restrict \in BOOLEAN
  BY DEF Chosen
<1>5. (\E strategies : snapshot = Plain(strategies)) \/ snapshot \in Shapes \cup {NoSnapshot}
  BY DEF Chosen
<1> QED BY <1>1, <1>2, <1>3, <1>4, <1>5

\* The resolver decides as a switcher is defined to be enabled.
LEMMA CriteriaDecide ==
    ASSUME Chosen, NEW es, IsSequence(es), OnePerStrategy(es)
    PROVE  LET answer == CheckCriteria(snapshot, K, es, restrict) IN
           /\ answer \in Answers
           /\ snapshot.activated => (answer.error <=> ~HasKey(snapshot, K))
           /\ answer.result <=>
                 /\ snapshot.activated
                 /\ \E g, c : FirstOfKey(snapshot, K, g, c) /\ Enables(snapshot, g, c, es)
<1>1. /\ Sequenced(snapshot) /\ restrict \in BOOLEAN
      /\ snapshot.loaded \/ (~snapshot.loaded /\ ~snapshot.activated)
  BY ChosenSnapshot
<1>2. CASE ~snapshot.loaded
  <2>1. CheckCriteria(snapshot, K, es, restrict) = Failure
    BY <1>2 DEF CheckCriteria
  <2>2. Failure \in Answers /\ ~Failure.result
    BY DEF Failure, Answers
  <2> QED BY <1>1, <1>2, <2>1, <2>2
<1>3. CASE snapshot.loaded /\ ~snapshot.activated
  <2>1. CheckCriteria(snapshot, K, es, restrict) = Answer(FALSE)
    BY <1>3 DEF CheckCriteria
  <2> QED BY <1>3, <2>1, Answered
<1>4. CASE snapshot.loaded /\ snapshot.activated
  <2>1. CheckCriteria(snapshot, K, es, restrict) = CheckGroup(snapshot, K, es, restrict)
    BY <1>4 DEF CheckCriteria
  <2> QED BY <1>1, <1>4, <2>1, GroupDecides
<1> QED BY <1>2, <1>3, <1>4

\* The invariant holds when the snapshot has been chosen.
LEMMA InitEvaluationInv == Init => EvaluationInv
<1> SUFFICES ASSUME Init PROVE EvaluationInv
  OBVIOUS
<1>1. MocksInv
  <2>1. mock = NoBuilder /\ built = {} /\ defs = [b \in Builder |-> Blank]
    BY DEF Init, MocksInit
  <2>2. Blank \in Definitions /\ Blank.when = <<>>
    BY DEF Blank, Definitions
  <2> QED BY <2>1, <2>2, NoneGiven DEF MocksInv
<1>2. /\ last.by = "nobody" /\ last.entries = <<>> /\ last.answer = Failure
      /\ entries = <<>> /\ exec = <<>> /\ pc = "idle" /\ Chosen
  BY DEF Init, Nothing
<1>3. Failure \in Answers
  BY DEF Failure, Answers
<1> QED BY <1>1, <1>2, <1>3, NoneGiven DEF EvaluationInv

\* Assumptions are made, changed and forgotten.
LEMMA MockKeepsMocks ==
    ASSUME MocksInv, Mock
    PROVE  MocksInv'
<1>1. CASE Forget
  BY <1>1 DEF Forget, MocksInv
<1>2. ASSUME NEW b \in Builder, Assume(b) PROVE MocksInv'
  BY <1>2 DEF Assume, MocksInv
<1>3. ASSUME NEW b \in Builder, NEW result \in BOOLEAN, ForceResult(b, result)
      PROVE  MocksInv'
  <2>1. mock' = mock /\ built' = built /\ defs' = [defs EXCEPT ![b].result = result]
    BY <1>3 DEF ForceResult
  <2>2. defs' \in [Builder -> Definitions]
    BY <1>3, <2>1 DEF MocksInv, Definitions
  <2>3. \A a \in Builder : defs'[a].when = defs[a].when
    BY <1>3, <2>1 DEF MocksInv, Definitions
  <2> QED BY <2>1, <2>2, <2>3 DEF MocksInv
<1>4. ASSUME NEW b \in Builder, NEW condition \in Conditions, When(b, condition)
      PROVE  MocksInv'
  <2> DEFINE when == Upserted(defs[b].when, condition)
  <2>1. mock' = mock /\ built' = built /\ defs' = [defs EXCEPT ![b].when = when]
    BY <1>4 DEF When
  <2>2. when \in Seq(Conditions) /\ OnePerStrategy(when)
    <3>1. defs[b].when \in Seq(Conditions) /\ OnePerStrategy(defs[b].when)
      BY DEF MocksInv, Definitions
    <3> QED BY <3>1, UpsertedKeeps
  <2> HIDE DEF when
  <2>3. defs' \in [Builder -> Definitions]
    BY <2>1, <2>2 DEF MocksInv, Definitions
  <2>4. \A a \in Builder : defs'[a].when = IF a = b THEN when ELSE defs[a].when
    BY <2>1 DEF MocksInv, Definitions
  <2> QED BY <2>1, <2>2, <2>3, <2>4 DEF MocksInv
<1> QED BY <1>1, <1>2, <1>3, <1>4 DEF Mock, Build

\* A mocked result is an answer.
LEMMA ResponseAnswers ==
    ASSUME NEW definition \in Definitions, NEW es
    PROVE  ResponseFor(definition, es) \in Answers
<1>1. definition.result \in BOOLEAN
  BY DEF Definitions
<1> QED BY <1>1 DEF ResponseFor, Answer, Answers

\* An input that is given takes the place of the one before it.
LEMMA CheckGives ==
    ASSUME GivenInputs(entries), Check
    PROVE  GivenInputs(entries')
<1>1. PICK s \in tried : \E i \in InputsOf(s) :
         entries' = Upserted(entries, [strategy |-> s, input |-> i])
  BY DEF Check
<1>2. PICK i \in InputsOf(s) :
         entries' = Upserted(entries, [strategy |-> s, input |-> i])
  BY <1>1
<1> DEFINE entry == [strategy |-> s, input |-> i]
<1>3. i \in UNION {InputsOf(t) : t \in tried}
  OBVIOUS
<1>4. entry \in Entry /\ entry.input \in InputsOf(entry.strategy)
  BY <1>3 DEF Entry
<1> HIDE DEF entry
<1>5. /\ entries' \in Seq(Entry) /\ OnePerStrategy(entries')
      /\ \A k \in DOMAIN entries' :
            \/ entries'[k] = entry
            \/ k \in DOMAIN entries /\ entries'[k] = entries[k]
  BY <1>2, <1>4, UpsertedKeeps DEF GivenInputs, entry
<1> QED BY <1>4, <1>5 DEF GivenInputs

\* The inputs that were possible are, as long as what is chosen stays.
LEMMA StillGiven ==
    ASSUME UNCHANGED config, NEW CONSTANT es, GivenInputs(es)
    PROVE  GivenInputs(es)'
BY DEF config, GivenInputs, Entry

\* What is known of the evaluation that was made last.
LastInv ==
    /\ GivenInputs(last.entries)
    /\ last.by \in {"nobody", "mock", "resolver"}
    /\ last.answer \in Answers
    /\ last.by = "resolver" =>
          last.answer = CheckCriteria(snapshot, K, last.entries, restrict)

\* A step that evaluates nothing leaves what is known.
LEMMA SameLast ==
    ASSUME UNCHANGED <<config, last>>, LastInv
    PROVE  LastInv'
<1>1. PICK es : es = last.entries
  OBVIOUS
<1>2. last'.entries = es /\ GivenInputs(es)'
  BY <1>1, StillGiven DEF LastInv
<1> QED BY <1>1, <1>2 DEF LastInv, config

\* A step that evaluates makes it known of its answer.
LEMMA NewLast ==
    ASSUME UNCHANGED config, NEW CONSTANT es, GivenInputs(es), NEW CONSTANT by,
           by \in {"nobody", "mock", "resolver"}, NEW CONSTANT answer \in Answers,
           last' = [by |-> by, entries |-> es, answer |-> answer],
           by = "resolver" => answer = CheckCriteria(snapshot, K, es, restrict)
    PROVE  LastInv'
<1>1. GivenInputs(es)'
  BY StillGiven
<1>2. last'.entries = es /\ last'.by = by /\ last'.answer = answer
  OBVIOUS
<1>3. snapshot' = snapshot /\ restrict' = restrict
  BY DEF config
<1> QED BY <1>1, <1>2, <1>3 DEF LastInv

\* Every step of the evaluation, of the inputs and of the mocks keeps it.
LEMMA NextEvaluationInv == EvaluationInv /\ [Next]_vars => EvaluationInv'
<1> SUFFICES ASSUME EvaluationInv, [Next]_vars PROVE EvaluationInv'
  OBVIOUS
<1>1. Chosen /\ MocksInv /\ LastInv /\ GivenInputs(entries) /\ GivenInputs(exec)
  BY DEF EvaluationInv, LastInv
<1>2. UNCHANGED config
  BY DEF Next, Begin, MockedResult, ExecuteLocal, Check, Mock, config, vars
<1>3. Chosen'
  BY <1>1, <1>2 DEF Chosen, config
<1>4. ASSUME UNCHANGED mocks PROVE MocksInv'
  BY <1>1, <1>4 DEF MocksInv, mocks
<1>5. ASSUME UNCHANGED entries PROVE GivenInputs(entries)'
  <2>1. PICK es : es = entries
    OBVIOUS
  <2> QED BY <1>1, <1>2, <1>5, <2>1, StillGiven
<1>6. ASSUME exec' \in {exec, entries, <<>>} PROVE GivenInputs(exec)'
  <2>1. PICK es : es = exec'
    OBVIOUS
  <2>2. GivenInputs(es)
    BY <1>1, <1>6, <2>1, NoneGiven
  <2> QED BY <1>2, <2>1, <2>2, StillGiven
<1>7. CASE Begin
  <2>1. LastInv'
    <3>1. last' = [by |-> "nobody", entries |-> <<>>, answer |-> Failure]
      BY <1>7 DEF Begin, Nothing
    <3>2. Failure \in Answers
      BY DEF Failure, Answers
    <3> QED BY <1>2, <3>1, <3>2, NoneGiven, NewLast
  <2>2. pc' = "mock" /\ exec' = entries /\ UNCHANGED <<mocks, entries>>
    BY <1>7 DEF Begin
  <2> QED BY <1>3, <1>4, <1>5, <1>6, <2>1, <2>2 DEF EvaluationInv, LastInv
<1>8. CASE MockedResult
  <2>1. UNCHANGED <<mocks, entries>>
    BY <1>8 DEF MockedResult
  <2>2. CASE mock # NoBuilder
    <3>1. PICK answer, es : answer = ResponseFor(defs[mock], exec) /\ es = exec
      OBVIOUS
    <3>2. /\ pc' = "idle" /\ exec' = <<>>
          /\ last' = [by |-> "mock", entries |-> es, answer |-> answer]
      BY <1>8, <2>2, <3>1 DEF MockedResult, Respond
    <3>3. answer \in Answers
      <4>1. defs[mock] \in Definitions
        BY <1>1, <2>2 DEF MocksInv
      <4> QED BY <3>1, <4>1, ResponseAnswers
    <3>4. LastInv'
      BY <1>1, <1>2, <3>1, <3>2, <3>3, NewLast
    <3> QED BY <1>3, <1>4, <1>5, <1>6, <2>1, <3>2, <3>4 DEF EvaluationInv, LastInv
  <2>3. CASE mock = NoBuilder
    <3>1. pc' = "resolve" /\ UNCHANGED <<exec, last>>
      BY <1>8, <2>3 DEF MockedResult
    <3>2. LastInv'
      BY <1>1, <1>2, <3>1, SameLast
    <3> QED BY <1>3, <1>4, <1>5, <1>6, <2>1, <3>1, <3>2 DEF EvaluationInv, LastInv
  <2> QED BY <2>2, <2>3
<1>9. CASE ExecuteLocal
  <2>1. PICK answer, es : answer = CheckCriteria(snapshot, K, es, restrict) /\ es = exec
    OBVIOUS
  <2>2. /\ pc' = "idle" /\ exec' = <<>> /\ UNCHANGED <<mocks, entries>>
        /\ last' = [by |-> "resolver", entries |-> es, answer |-> answer]
    BY <1>9, <2>1 DEF ExecuteLocal, Respond
  <2>3. answer \in Answers
    BY <1>1, <2>1, GivenIsSequence, CriteriaDecide
  <2>4. LastInv'
    BY <1>1, <1>2, <2>1, <2>2, <2>3, NewLast
  <2> QED BY <1>3, <1>4, <1>5, <1>6, <2>2, <2>4 DEF EvaluationInv, LastInv
<1>10. CASE Check
  <2>1. UNCHANGED <<mocks, pc, exec, last>>
    BY <1>10 DEF Check
  <2>2. GivenInputs(entries)'
    <3>1. PICK es : es = entries'
      OBVIOUS
    <3> QED BY <1>1, <1>2, <1>10, <3>1, CheckGives, StillGiven
  <2>3. LastInv'
    BY <1>1, <1>2, <2>1, SameLast
  <2> QED BY <1>3, <1>4, <1>6, <2>1, <2>2, <2>3 DEF EvaluationInv, LastInv
<1>11. CASE Mock
  <2>1. UNCHANGED <<entries, pc, exec, last>>
    BY <1>11 DEF Mock
  <2>2. MocksInv' /\ LastInv'
    BY <1>1, <1>2, <1>11, <2>1, MockKeepsMocks, SameLast
  <2> QED BY <1>3, <1>5, <1>6, <2>1, <2>2 DEF EvaluationInv, LastInv
<1>12. CASE UNCHANGED vars
  <2>1. UNCHANGED <<mocks, entries, pc, exec, last>>
    BY <1>12 DEF vars, mocks
  <2>2. LastInv'
    BY <1>1, <1>2, <2>1, SameLast
  <2> QED BY <1>3, <1>4, <1>5, <1>6, <2>1, <2>2 DEF EvaluationInv, LastInv
<1> QED BY <1>7, <1>8, <1>9, <1>10, <1>11, <1>12 DEF Next

\* It holds of every behaviour.
LEMMA AlwaysEvaluationInv == Spec => []EvaluationInv
BY InitEvaluationInv, NextEvaluationInv, PTL DEF Spec

-----------------------------------------------------------------------------
(* Theorems. *)

\* Whatever is done, inputs and conditions are one for each strategy, and what
\* answers an evaluation is a mock or the resolver.
THEOREM TypeCorrect == Spec => []TypeOK
<1>1. EvaluationInv => TypeOK
  <2> SUFFICES ASSUME EvaluationInv PROVE TypeOK
    OBVIOUS
  <2>1. MocksTypeOK
    BY DEF EvaluationInv, MocksInv, Definitions, OnePerStrategy, MocksTypeOK
  <2>2. restrict \in BOOLEAN /\ mocking \in BOOLEAN
    BY DEF EvaluationInv, Chosen
  <2>3. \A i, j \in DOMAIN entries : entries[i].strategy = entries[j].strategy => i = j
    BY DEF EvaluationInv, GivenInputs, OnePerStrategy
  <2> QED BY <2>1, <2>2, <2>3 DEF EvaluationInv, TypeOK
<1> QED BY <1>1, AlwaysEvaluationInv, PTL

\* The inputs of a strategy are one at most, and of those it can be given.
LEMMA OneInput ==
    ASSUME EvaluationInv, NEW s
    PROVE  /\ Given(s) \subseteq InputsOf(s)
           /\ \A i, j \in Given(s) : i = j
           /\ \A e \in ToSet(last.entries) : e.strategy = s => e.input \in Given(s)
           /\ \A i \in Given(s) :
                 \E e \in ToSet(last.entries) : e.strategy = s /\ e.input = i
<1>1. GivenInputs(last.entries)
  BY DEF EvaluationInv
<1>2. \A i \in Given(s) : \E k \in DOMAIN last.entries :
         last.entries[k].strategy = s /\ last.entries[k].input = i
  BY DEF Given, ToSet
<1> QED BY <1>1, <1>2 DEF Given, GivenInputs, OnePerStrategy, ToSet

\* What a strategy does with the evaluation's entries it does with its inputs.
LEMMA AgreesWithGiven ==
    ASSUME EvaluationInv, NEW s
    PROVE  AgreesWith(s, last.entries) <=>
              \E i \in Given(s.strategy) : Agrees(s.strategy, s.operation, s.values, i)
<1>1. IsSequence(last.entries) /\ OnePerStrategy(last.entries)
  BY GivenIsSequence DEF EvaluationInv
<1>2. AgreesWith(s, last.entries) <=>
         \E e \in ToSet(last.entries) :
            /\ e.strategy = s.strategy
            /\ Agrees(s.strategy, s.operation, s.values, e.input)
  BY <1>1, StrategyAgrees
<1> QED BY <1>2, OneInput

\* An evaluation is true when, and only when, everything that can switch it off
\* allows it: the domain, the first group with the key, the first
\* configuration of the key in it, its relay, and each of its strategies,
\* with the inputs the evaluation began with.
LEMMA InvDecides == EvaluationInv => ResolverDecides
<1> SUFFICES ASSUME EvaluationInv, last.by = "resolver"
             PROVE  ResolverDecides
  BY DEF ResolverDecides
<1>1. IsSequence(last.entries) /\ OnePerStrategy(last.entries)
  BY GivenIsSequence DEF EvaluationInv
<1>2. last.answer.result <=>
         /\ snapshot.activated
         /\ \E g, c : FirstOfKey(snapshot, K, g, c) /\ Enables(snapshot, g, c, last.entries)
  BY <1>1, CriteriaDecide DEF EvaluationInv
<1> DEFINE Decided(g, c) ==
         LET chosen == snapshot.groups[g].configs[c] IN
         /\ chosen.key = K
         /\ \A h \in 1..g : \A d \in DOMAIN snapshot.groups[h].configs :
               snapshot.groups[h].configs[d].key = K => h = g /\ d >= c
         /\ snapshot.groups[g].activated /\ chosen.activated
         /\ TRUE => ~chosen.relay
         /\ \A s \in ToSet(chosen.strategies) :
               s.activated => \E i \in Given(s.strategy) :
                   Agrees(s.strategy, s.operation, s.values, i)
<1>3. \A g, c : FirstOfKey(snapshot, K, g, c) /\ Enables(snapshot, g, c, last.entries)
         <=> /\ g \in DOMAIN snapshot.groups /\ c \in DOMAIN snapshot.groups[g].configs
             /\ Decided(g, c)
  <2> SUFFICES ASSUME NEW g, NEW c
               PROVE  FirstOfKey(snapshot, K, g, c) /\ Enables(snapshot, g, c, last.entries)
                        <=> /\ g \in DOMAIN snapshot.groups
                            /\ c \in DOMAIN snapshot.groups[g].configs
                            /\ Decided(g, c)
    OBVIOUS
  <2> DEFINE conf == snapshot.groups[g].configs[c]
  <2>1. (\A s \in ToSet(conf.strategies) : s.activated => AgreesWith(s, last.entries))
          <=> \A s \in ToSet(conf.strategies) :
                 s.activated => \E i \in Given(s.strategy) :
                     Agrees(s.strategy, s.operation, s.values, i)
    BY AgreesWithGiven
  <2> QED BY <2>1 DEF FirstOfKey, Enables
<1>4. last.answer.result <=>
         /\ snapshot.activated
         /\ \E g \in DOMAIN snapshot.groups :
            \E c \in DOMAIN snapshot.groups[g].configs : Decided(g, c)
  <2> HIDE DEF Decided
  <2> QED BY <1>2, <1>3
<1>5. last.answer.result <=> Enabled(TRUE)
  BY <1>4 DEF Enabled
<1>6. Enabled(TRUE) => Enabled(restrict)
  BY DEF Enabled
<1> QED BY <1>5, <1>6 DEF ResolverDecides

\* The resolver's answers are those that resolver.go's rules define, for every
\* snapshot and all inputs.
THEOREM ResolverAlwaysDecides == Spec => []ResolverDecides
BY InvDecides, AlwaysEvaluationInv, PTL

\* While the domain is activated, an evaluation fails exactly when the check of
\* the switchers reports the key as missing.
THEOREM SwitchersAgree == Spec => []SwitchersChecked
<1>1. EvaluationInv => SwitchersChecked
  <2> SUFFICES ASSUME EvaluationInv, last.by = "resolver", snapshot.activated
               PROVE  last.answer.error <=> MissingKeys(snapshot, {K}) # {}
    BY DEF SwitchersChecked
  <2>1. IsSequence(last.entries) /\ OnePerStrategy(last.entries)
    BY GivenIsSequence DEF EvaluationInv
  <2>2. last.answer.error <=> ~HasKey(snapshot, K)
    BY <2>1, CriteriaDecide DEF EvaluationInv
  <2>3. snapshot.loaded
    BY ChosenSnapshot DEF EvaluationInv
  <2> QED BY <2>2, <2>3, MissingIsMissing
<1> QED BY <1>1, AlwaysEvaluationInv, PTL

\* A snapshot that has one strategy was chosen for its operation and values.
LEMMA AloneChosen ==
    ASSUME EvaluationInv, NEW s, Alone(s)
    PROVE  /\ s \in Strategy
           /\ \E operation \in OperationsOf(s) : \E values \in ValuesOf(s) :
                 snapshot = Plain(<<[strategy |-> s, operation |-> operation,
                                     values |-> values, activated |-> TRUE]>>)
<1>1. tried = {s} /\ ~mocking
  BY DEF Alone
<1>2. tried # {"VALUE", "NUMERIC"}
  BY <1>1
<1>3. Chosen
  BY DEF EvaluationInv
<1>4. PICK t \in Strategy : \E operation \in OperationsOf(t), values \in ValuesOf(t) :
         /\ snapshot = Plain(<<[strategy |-> t, operation |-> operation,
                                values |-> values, activated |-> TRUE]>>)
         /\ tried = {t}
  BY <1>1, <1>2, <1>3 DEF Chosen
<1>5. t = s
  BY <1>1, <1>4
<1> QED BY <1>4, <1>5

\* The one strategy of such a snapshot.
LEMMA PlainStrategy ==
    ASSUME NEW strategy
    PROVE  LET shot == Plain(<<strategy>>) IN
           /\ shot.groups[1].configs[1].strategies[1] = strategy
           /\ \A g \in DOMAIN shot.groups : \A c \in DOMAIN shot.groups[g].configs :
                 ToSet(shot.groups[g].configs[c].strategies) = {strategy}
<1> DEFINE conf    == [key |-> K, activated |-> TRUE, relay |-> FALSE,
                       strategies |-> <<strategy>>]
           group   == [activated |-> TRUE, configs |-> <<conf>>]
           shot    == Plain(<<strategy>>)
<1>1. shot.groups = <<group>>
  BY DEF Plain
<1>2. group.configs = <<conf>> /\ conf.strategies = <<strategy>>
  OBVIOUS
<1>3. ToSet(<<strategy>>) = {strategy}
  BY DEF ToSet
<1> HIDE DEF conf, group, shot
<1> QED BY <1>1, <1>2, <1>3 DEF shot

\* A strategy agrees with no input that does not parse.
LEMMA BadDisagrees ==
    ASSUME NEW s, NEW operation, NEW values, NEW input,
           Agrees(s, operation, values, input)
    PROVE  /\ s \in {"NUMERIC", "DATE", "TIME", "NETWORK"} => input # Bad
           /\ s = "PAYLOAD" => input # NotJson
<1>1. CASE s = "NUMERIC"
  BY <1>1 DEF Agrees, AgreesNumeric
<1>2. CASE s \in {"DATE", "TIME"}
  BY <1>2 DEF Agrees, AgreesMoment
<1>3. CASE s = "NETWORK"
  BY <1>3 DEF Agrees, AgreesNetwork
<1>4. CASE s = "PAYLOAD"
  BY <1>4 DEF Agrees, AgreesPayload
<1> QED BY <1>1, <1>2, <1>3, <1>4

\* An input that does not parse never enables a switcher, whatever the operation
\* and the values.
THEOREM BadNeverEnables == Spec => []FailsClosed
<1>1. EvaluationInv => FailsClosed
  <2> SUFFICES ASSUME EvaluationInv, NEW s \in Strategy, Alone(s), last.answer.result
               PROVE  /\ s \in {"NUMERIC", "DATE", "TIME", "NETWORK"} => Bad \notin Given(s)
                      /\ s = "PAYLOAD" => NotJson \notin Given(s)
    BY DEF FailsClosed
  <2>1. PICK operation, values :
           snapshot = Plain(<<[strategy |-> s, operation |-> operation,
                               values |-> values, activated |-> TRUE]>>)
    BY AloneChosen
  <2> DEFINE strategy == [strategy |-> s, operation |-> operation,
                          values |-> values, activated |-> TRUE]
  <2>2. PICK g \in DOMAIN snapshot.groups : \E c \in DOMAIN snapshot.groups[g].configs :
           \A t \in ToSet(snapshot.groups[g].configs[c].strategies) :
              t.activated => \E i \in Given(t.strategy) :
                  Agrees(t.strategy, t.operation, t.values, i)
    <3>1. Enabled(restrict)
      BY InvDecides DEF ResolverDecides, Alone
    <3> QED BY <3>1 DEF Enabled
  <2>3. /\ strategy.activated /\ strategy.strategy = s
        /\ strategy.operation = operation /\ strategy.values = values
        /\ snapshot = Plain(<<strategy>>)
    BY <2>1
  <2> HIDE DEF strategy
  <2>4. \A c \in DOMAIN snapshot.groups[g].configs :
           ToSet(snapshot.groups[g].configs[c].strategies) = {strategy}
    BY <2>2, <2>3, PlainStrategy
  <2>5. PICK i \in Given(s) : Agrees(s, operation, values, i)
    BY <2>2, <2>3, <2>4
  <2>6. \A j \in Given(s) : j = i
    BY OneInput
  <2> QED BY <2>5, <2>6, BadDisagrees
<1> QED BY <1>1, AlwaysEvaluationInv, PTL

\* What OneStrategyOf says of the values of a snapshot and the input it was
\* evaluated with, it says of a strategy, its values and its inputs.
LEMMA AloneValues ==
    ASSUME EvaluationInv, NEW s, Alone(s), NEW input \in Given(s)
    PROVE  LET values == snapshot.groups[1].configs[1].strategies[1].values IN
           /\ s \in Strategy /\ values \in ValuesOf(s) /\ input \in InputsOf(s)
           /\ DOMAIN values = 1..Len(values) /\ Len(values) \in Nat
<1>1. s \in Strategy /\ input \in InputsOf(s)
  BY AloneChosen, OneInput
<1>2. PICK operation \in OperationsOf(s), values \in ValuesOf(s) :
         snapshot = Plain(<<[strategy |-> s, operation |-> operation,
                             values |-> values, activated |-> TRUE]>>)
  BY AloneChosen
<1> DEFINE strategy == [strategy |-> s, operation |-> operation,
                        values |-> values, activated |-> TRUE]
<1>3. snapshot.groups[1].configs[1].strategies[1] = strategy
  BY <1>2, PlainStrategy
<1>4. strategy.values = values
  OBVIOUS
<1> HIDE DEF strategy
<1>5. IsSequence(values)
  BY <1>1, EvaluationAssumption
<1> QED BY <1>1, <1>3, <1>4, <1>5, PlacesOf

\* Each operation and its negation: one of them agrees, and not both, with
\* values and an input that parse.
THEOREM OperationsAlwaysDual == Spec => []OperationsAreDual
<1>1. \A values, input : Agrees("VALUE", "NOT_EXIST", values, input)
                           = ~Agrees("VALUE", "EXIST", values, input)
  BY DEF Agrees, AgreesValue
<1>2. \A values, input : Agrees("REGEX", "NOT_EXIST", values, input)
                           = ~Agrees("REGEX", "EXIST", values, input)
  BY DEF Agrees, AgreesRegex
<1>3. \A values, input : input # Bad =>
         Agrees("NETWORK", "NOT_EXIST", values, input)
            = ~Agrees("NETWORK", "EXIST", values, input)
  BY DEF Agrees, AgreesNetwork
<1>4. \A values, input : input # Bad /\ ~Has(values, LAMBDA v : v = Bad) =>
         Agrees("NUMERIC", "NOT_EXIST", values, input)
            = ~Agrees("NUMERIC", "EXIST", values, input)
  BY DEF Agrees, AgreesNumeric
<1>5. \A values, input : DOMAIN values = 1..Len(values) /\ Len(values) = 1 =>
         Agrees("VALUE", "NOT_EQUAL", values, input)
            = ~Agrees("VALUE", "EQUAL", values, input)
  BY DEF Agrees, AgreesValue, Has
<1>6. \A values, input : Agrees("REGEX", "NOT_EQUAL", values, input)
                           = ~Agrees("REGEX", "EQUAL", values, input)
  BY DEF Agrees, AgreesRegex
<1>7. EvaluationInv => OperationsAreDual
  <2> SUFFICES ASSUME EvaluationInv PROVE OperationsAreDual
    OBVIOUS
  <2> DEFINE values == snapshot.groups[1].configs[1].strategies[1].values
  <2>1. ASSUME NEW s \in {"VALUE", "NUMERIC", "NETWORK", "REGEX"}, NEW input,
               s \in {"NUMERIC", "NETWORK"} => input # Bad,
               s = "NUMERIC" => ~Has(values, LAMBDA v : v = Bad)
        PROVE  Agrees(s, "NOT_EXIST", values, input) = ~Agrees(s, "EXIST", values, input)
    <3>1. CASE s = "VALUE"
      BY <1>1, <3>1
    <3>2. CASE s = "REGEX"
      BY <1>2, <3>2
    <3>3. CASE s = "NETWORK"
      BY <1>3, <2>1, <3>3
    <3>4. CASE s = "NUMERIC"
      BY <1>4, <2>1, <3>4
    <3> QED BY <3>1, <3>2, <3>3, <3>4
  <2>2. ASSUME NEW s \in {"VALUE", "REGEX"}, NEW input,
               DOMAIN values = 1..Len(values), Len(values) = 1
        PROVE  Agrees(s, "NOT_EQUAL", values, input) = ~Agrees(s, "EQUAL", values, input)
    <3>1. CASE s = "VALUE"
      BY <1>5, <2>2, <3>1
    <3>2. CASE s = "REGEX"
      BY <1>6, <3>2
    <3> QED BY <3>1, <3>2
  <2>3. \A s, input : Alone(s) /\ input \in Given(s) => DOMAIN values = 1..Len(values)
    BY AloneValues
  <2> QED BY <2>1, <2>2, <2>3 DEF OperationsAreDual, OneStrategyOf
<1> QED BY <1>7, AlwaysEvaluationInv, PTL

\* A range of dates or times is what is after its one bound and before the other.
LEMMA MomentBoundaries ==
    ASSUME NEW values, DOMAIN values = 1..2, Len(values) = 2,
           \A i \in 1..2 : values[i] \in Int, NEW input \in Int
    PROVE  AgreesMoment("BETWEEN", values, input) <=>
              /\ AgreesMoment("GREATER", values, input) /\ AgreesMoment("LOWER", values, input)
              /\ ~Has(values, LAMBDA v : v = Bad)
              /\ AgreesMoment("GREATER", <<values[1]>>, input)
              /\ AgreesMoment("LOWER", <<values[2]>>, input)
<1> DEFINE a == values[1]
           b == values[2]
           Spoilt == Has(values, LAMBDA v : v = Bad)
<1>1. a \in Int /\ b \in Int
  OBVIOUS
<1>2. Spoilt <=> a = Bad \/ b = Bad
  BY DEF Has
<1>3. AgreesMoment("BETWEEN", values, input) <=>
         input # Bad /\ ~Spoilt /\ a <= input /\ input <= b
  BY DEF AgreesMoment
<1>4. AgreesMoment("GREATER", values, input) <=>
         input # Bad /\ ~Spoilt /\ (input >= a \/ input >= b)
  BY DEF AgreesMoment, Has
<1>5. AgreesMoment("LOWER", values, input) <=>
         input # Bad /\ ~Spoilt /\ (input <= a \/ input <= b)
  BY DEF AgreesMoment, Has
<1>6. AgreesMoment("GREATER", <<a>>, input) <=> input # Bad /\ a # Bad /\ input >= a
  BY DEF AgreesMoment, Has
<1>7. AgreesMoment("LOWER", <<b>>, input) <=> input # Bad /\ b # Bad /\ input <= b
  BY DEF AgreesMoment, Has
<1> HIDE DEF a, b, Spoilt
<1> QED BY <1>1, <1>2, <1>3, <1>4, <1>5, <1>6, <1>7 DEF a, b, Spoilt

\* A range of numbers is what is its one bound or above, and the other or below.
LEMMA NumericBoundaries ==
    ASSUME NEW values, DOMAIN values = 1..2, Len(values) = 2, NEW input,
           ~Has(values, LAMBDA v : v = Bad)
    PROVE  AgreesNumeric("BETWEEN", values, input) <=>
              /\ \/ AgreesNumeric("GREATER", <<values[1]>>, input)
                 \/ AgreesNumeric("EQUAL", <<values[1]>>, input)
              /\ \/ AgreesNumeric("LOWER", <<values[2]>>, input)
                 \/ AgreesNumeric("EQUAL", <<values[2]>>, input)
<1> DEFINE a == values[1]
           b == values[2]
<1>1. a # Bad /\ b # Bad
  BY DEF Has
<1>2. AgreesNumeric("BETWEEN", values, input) <=>
         /\ input # Bad
         /\ Below(a, input) \/ Same(a, input)
         /\ Below(input, b) \/ Same(input, b)
  BY DEF AgreesNumeric
<1>3. /\ AgreesNumeric("GREATER", <<a>>, input) <=> input # Bad /\ Below(a, input)
      /\ AgreesNumeric("EQUAL", <<a>>, input) <=> input # Bad /\ Same(a, input)
  BY <1>1 DEF AgreesNumeric, Has
<1>4. /\ AgreesNumeric("LOWER", <<b>>, input) <=> input # Bad /\ Below(input, b)
      /\ AgreesNumeric("EQUAL", <<b>>, input) <=> input # Bad /\ Same(b, input)
  BY <1>1 DEF AgreesNumeric, Has
<1>5. Same(b, input) <=> Same(input, b)
  BY DEF Same
<1> HIDE DEF a, b
<1> QED BY <1>2, <1>3, <1>4, <1>5 DEF a, b

\* A range has both of its bounds, for numbers, dates and times.
THEOREM BoundariesAlwaysAgree == Spec => []BoundariesAgree
<1>1. EvaluationInv => BoundariesAgree
  <2> SUFFICES ASSUME EvaluationInv PROVE BoundariesAgree
    OBVIOUS
  <2> DEFINE values == snapshot.groups[1].configs[1].strategies[1].values
  <2>1. ASSUME NEW s \in {"NUMERIC", "DATE", "TIME"}, Alone(s), NEW input \in Given(s),
               Len(values) = 2
        PROVE  /\ DOMAIN values = 1..2 /\ input \in Int
               /\ \A i \in 1..2 : values[i] \in Int
    <3>1. /\ s \in Strategy /\ values \in ValuesOf(s) /\ input \in InputsOf(s)
          /\ DOMAIN values = 1..Len(values)
      BY <2>1, AloneValues
    <3> HIDE DEF values
    <3> QED BY <2>1, <3>1, EvaluationAssumption
  <2>2. ASSUME NEW s \in {"DATE", "TIME"}, Alone(s), NEW input \in Given(s),
               Len(values) = 2
        PROVE  Agrees(s, "BETWEEN", values, input) <=>
                 /\ Agrees(s, "GREATER", values, input) /\ Agrees(s, "LOWER", values, input)
                 /\ ~Has(values, LAMBDA v : v = Bad)
                 /\ Agrees(s, "GREATER", <<values[1]>>, input)
                 /\ Agrees(s, "LOWER", <<values[2]>>, input)
    <3>1. \A operation, vs : Agrees(s, operation, vs, input)
                               <=> AgreesMoment(operation, vs, input)
      BY <2>2 DEF Agrees
    <3>2. DOMAIN values = 1..2 /\ input \in Int /\ \A i \in 1..2 : values[i] \in Int
      BY <2>1, <2>2
    <3> HIDE DEF values
    <3> QED BY <2>2, <3>1, <3>2, MomentBoundaries
  <2>3. ASSUME Alone("NUMERIC"), NEW input \in Given("NUMERIC"),
               Len(values) = 2, ~Has(values, LAMBDA v : v = Bad)
        PROVE  Agrees("NUMERIC", "BETWEEN", values, input) <=>
                 /\ \/ Agrees("NUMERIC", "GREATER", <<values[1]>>, input)
                    \/ Agrees("NUMERIC", "EQUAL", <<values[1]>>, input)
                 /\ \/ Agrees("NUMERIC", "LOWER", <<values[2]>>, input)
                    \/ Agrees("NUMERIC", "EQUAL", <<values[2]>>, input)
    <3>1. \A operation, vs : Agrees("NUMERIC", operation, vs, input)
                               <=> AgreesNumeric(operation, vs, input)
      BY DEF Agrees
    <3>2. DOMAIN values = 1..2
      BY <2>1, <2>3
    <3> HIDE DEF values
    <3> QED BY <2>3, <3>1, <3>2, NumericBoundaries
  <2> HIDE DEF values
  <2> QED BY <2>2, <2>3 DEF BoundariesAgree, OneStrategyOf, values
<1> QED BY <1>1, AlwaysEvaluationInv, PTL

-----------------------------------------------------------------------------
(* Mocks are what is assumed. *)

\* What is put into a sequence takes the place of what is of its strategy.
LEMMA UpsertedSet ==
    ASSUME NEW S, NEW es \in Seq(S), OnePerStrategy(es), NEW next
    PROVE  ToSet(Upserted(es, next)) =
              {e \in ToSet(es) : e.strategy # next.strategy} \cup {next}
<1> DEFINE k == EntryOf(es, next.strategy)
           u == Upserted(es, next)
<1>1. IsSequence(es) /\ DOMAIN es = 1..Len(es) /\ Len(es) \in Nat
  BY DEF IsSequence, ToSet
<1>2. /\ k = 0 <=> \A j \in DOMAIN es : es[j].strategy # next.strategy
      /\ k # 0 => k \in DOMAIN es /\ es[k].strategy = next.strategy
  BY <1>1, EntryFound
<1>3. u = IF k = 0 THEN Append(es, next) ELSE [es EXCEPT ![k] = next]
  BY DEF Upserted
<1> HIDE DEF k, u
<1>4. ToSet(es) = {es[j] : j \in DOMAIN es} /\ ToSet(u) = {u[j] : j \in DOMAIN u}
  BY DEF ToSet
<1>5. CASE k = 0
  <2>1. DOMAIN u = 1..Len(es) + 1
    BY <1>1, <1>3, <1>5
  <2>2. /\ \A i \in DOMAIN es : i \in DOMAIN u /\ u[i] = es[i]
        /\ Len(es) + 1 \in DOMAIN u /\ u[Len(es) + 1] = next
        /\ \A i \in DOMAIN u : i \in DOMAIN es \/ i = Len(es) + 1
    BY <1>1, <1>3, <1>5, <2>1
  <2> QED BY <1>2, <1>4, <1>5, <2>2 DEF u
<1>6. CASE k # 0
  <2>1. DOMAIN u = DOMAIN es /\ \A i \in DOMAIN es : u[i] = IF i = k THEN next ELSE es[i]
    BY <1>3, <1>6
  <2>2. \A i \in DOMAIN es : es[i].strategy = next.strategy <=> i = k
    BY <1>2, <1>6 DEF OnePerStrategy
  <2>3. k \in DOMAIN es
    BY <1>2, <1>6
  <2> QED BY <1>4, <2>1, <2>2, <2>3 DEF u
<1> QED BY <1>5, <1>6

\* A condition is missed when its strategy was given what it does not allow.
LEMMA MissedIf ==
    ASSUME NEW es, IsSequence(es), OnePerStrategy(es), NEW c
    PROVE  Missed(c, es) <=>
              \E e \in ToSet(es) : c.strategy = e.strategy /\ e.input \notin c.inputs
<1> DEFINE k == EntryOf(es, c.strategy)
<1>1. /\ k = 0 <=> \A j \in DOMAIN es : es[j].strategy # c.strategy
      /\ k # 0 => k \in DOMAIN es /\ es[k].strategy = c.strategy
  BY EntryFound
<1>2. Missed(c, es) <=> k # 0 /\ es[k].input \notin c.inputs
  BY DEF Missed
<1> HIDE DEF k
<1>3. k # 0 => \A j \in DOMAIN es : es[j].strategy = c.strategy => j = k
  BY <1>1 DEF OnePerStrategy
<1> QED BY <1>1, <1>2, <1>3 DEF ToSet

\* The loop over the conditions finds one that is missed if there is any.
LEMMA ResponseIs ==
    ASSUME NEW definition \in Definitions, NEW es, IsSequence(es), OnePerStrategy(es)
    PROVE  ResponseFor(definition, es).result =
              IF \A c \in ToSet(definition.when) : \A e \in ToSet(es) :
                    c.strategy = e.strategy => e.input \in c.inputs
              THEN definition.result ELSE ~definition.result
<1> DEFINE when == definition.when
           I    == {j \in 1..Len(when) : Missed(when[j], es)}
           i    == IF I # {} THEN Min(I) ELSE 0
           fine == \A c \in ToSet(when) : \A e \in ToSet(es) :
                      c.strategy = e.strategy => e.input \in c.inputs
<1>1. ResponseFor(definition, es)
         = Answer(IF i = 0 THEN definition.result ELSE ~definition.result)
  BY DEF ResponseFor, SelectInSeq
<1>2. DOMAIN when = 1..Len(when) /\ Len(when) \in Nat /\ I \subseteq Nat /\ 0 \notin I
  BY DEF Definitions
<1>3. ToSet(when) = {when[j] : j \in 1..Len(when)}
  BY <1>2 DEF ToSet
<1>4. I = {} <=> fine
  <2> HIDE DEF when
  <2>1. fine <=> \A c \in ToSet(when) : ~Missed(c, es)
    BY MissedIf
  <2> QED BY <1>3, <2>1
<1>5. i = 0 <=> I = {}
  BY <1>2, Least
<1>6. \A r : Answer(r).result = r
  BY DEF Answer
<1> DEFINE opposite == ~definition.result
<1> HIDE DEF i, I, fine, opposite
<1>7. CASE fine
  BY <1>1, <1>4, <1>5, <1>6, <1>7 DEF fine
<1>8. CASE ~fine
  <2>1. ResponseFor(definition, es) = Answer(opposite)
    BY <1>1, <1>4, <1>5, <1>8 DEF opposite
  <2>2. ResponseFor(definition, es).result = opposite
    BY <1>6, <2>1
  <2> QED BY <1>8, <2>2 DEF fine, opposite
<1> QED BY <1>7, <1>8

\* Nothing has been answered while an evaluation is under way, and an assumption
\* that was not made is blank.
NothingYet ==
    /\ pc # "idle" => last.by = "nobody"
    /\ \A b \in Builder \ built : defs[b] = Blank

\* Both hold from one state to the next.
LEMMA NextNothingYet == EvaluationInv /\ NothingYet /\ [Next]_vars => NothingYet'
<1> SUFFICES ASSUME EvaluationInv, NothingYet, [Next]_vars PROVE NothingYet'
  OBVIOUS
<1> USE DEF NothingYet, mocks
<1>1. CASE Begin
  BY <1>1 DEF Begin, Nothing
<1>2. CASE MockedResult
  BY <1>2 DEF MockedResult, Respond
<1>3. CASE ExecuteLocal
  BY <1>3 DEF ExecuteLocal, Respond
<1>4. CASE Check
  BY <1>4 DEF Check
<1>5. CASE Mock
  <2>1. UNCHANGED <<pc, last>>
    BY <1>5 DEF Mock
  <2>2. ASSUME NEW a \in Builder \ built' PROVE defs'[a] = Blank
    <3>1. CASE Forget
      BY <2>2, <3>1 DEF Forget
    <3>2. ASSUME NEW b \in Builder, Assume(b) PROVE defs'[a] = Blank
      BY <2>2, <3>2 DEF Assume
    <3>3. ASSUME NEW b \in Builder, Build(b) PROVE defs'[a] = Blank
      <4>1. a # b /\ a \in Builder \ built /\ defs[a] = Blank
        BY <2>2, <3>3 DEF Build, ForceResult, When
      <4>2. a \in DOMAIN defs
        BY <4>1 DEF EvaluationInv, MocksInv
      <4> QED BY <3>3, <4>1, <4>2 DEF Build, ForceResult, When
    <3> QED BY <1>5, <3>1, <3>2, <3>3 DEF Mock
  <2> QED BY <2>1, <2>2
<1>6. CASE UNCHANGED vars
  BY <1>6 DEF vars
<1> QED BY <1>1, <1>2, <1>3, <1>4, <1>5, <1>6 DEF Next

\* An input that is given is what its strategy is given.
LEMMA GivesInput ==
    ASSUME GivenInputs(entries), Check
    PROVE  \/ GivenBy(entries') = GivenBy(entries)
           \/ \E s \in Strategy : \E i \in InputsOf(s) :
                 GivenBy(entries') = [GivenBy(entries) EXCEPT ![s] = {i}]
<1>1. PICK s \in tried : \E i \in InputsOf(s) :
         entries' = Upserted(entries, [strategy |-> s, input |-> i])
  BY DEF Check
<1>2. PICK i \in InputsOf(s) :
         entries' = Upserted(entries, [strategy |-> s, input |-> i])
  BY <1>1
<1> DEFINE next == [strategy |-> s, input |-> i]
<1>3. next.strategy = s /\ next.input = i
  OBVIOUS
<1> HIDE DEF next
<1>4. ToSet(entries') = {e \in ToSet(entries) : e.strategy # s} \cup {next}
  BY <1>2, <1>3, UpsertedSet DEF GivenInputs, next
<1>5. \A t \in Strategy :
         GivenBy(entries')[t] = IF t = s THEN {i} ELSE GivenBy(entries)[t]
  BY <1>3, <1>4 DEF GivenBy
<1>6. /\ GivenBy(entries') = [t \in Strategy |-> GivenBy(entries')[t]]
      /\ GivenBy(entries) = [t \in Strategy |-> GivenBy(entries)[t]]
  BY DEF GivenBy
<1>7. CASE s \in Strategy
  <2>1. GivenBy(entries') = [GivenBy(entries) EXCEPT ![s] = {i}]
    BY <1>5, <1>6
  <2> QED BY <1>7, <2>1
<1>8. CASE s \notin Strategy
  BY <1>5, <1>6, <1>8
<1> QED BY <1>7, <1>8

\* A condition that is given is what its strategy allows.
LEMMA AllowsCondition ==
    ASSUME NEW when \in Seq(Conditions), OnePerStrategy(when), NEW c \in Conditions
    PROVE  AllowedBy(Upserted(when, c)) = [AllowedBy(when) EXCEPT ![c.strategy] = {c.inputs}]
<1>1. ToSet(Upserted(when, c)) = {d \in ToSet(when) : d.strategy # c.strategy} \cup {c}
  BY UpsertedSet
<1>2. c.strategy \in Strategy
  BY EvaluationAssumption
<1>3. \A t \in Strategy :
         AllowedBy(Upserted(when, c))[t]
            = IF t = c.strategy THEN {c.inputs} ELSE AllowedBy(when)[t]
  BY <1>1 DEF AllowedBy
<1>4. /\ AllowedBy(Upserted(when, c)) = [t \in Strategy |-> AllowedBy(Upserted(when, c))[t]]
      /\ AllowedBy(when) = [t \in Strategy |-> AllowedBy(when)[t]]
  BY DEF AllowedBy
<1> QED BY <1>2, <1>3, <1>4

\* The assumption that a definition is.
AssumptionOf(definition) ==
    [result |-> definition.result, allowed |-> AllowedBy(definition.when)]

InForce == IF mock = NoBuilder THEN {} ELSE {AssumptionOf(defs[mock])}

\* What is assumed changes as it may.
LEMMA MockIsAnAssumption ==
    ASSUME EvaluationInv, NothingYet, Mock
    PROVE  \/ UNCHANGED InForce
           \/ InForce' \in {{}, {Assumed!Blank}}
           \/ \E a \in InForce :
                 \/ \E r \in BOOLEAN : InForce' = {[a EXCEPT !.result = r]}
                 \/ \E s \in Strategy, allowed \in {c.inputs : c \in Conditions} :
                       InForce' = {[a EXCEPT !.allowed[s] = {allowed}]}
<1>1. MocksInv /\ (mock # NoBuilder => mock \in Builder)
  BY DEF EvaluationInv, MocksInv
<1>2. CASE Forget
  BY <1>2 DEF Forget, InForce
<1>3. ASSUME NEW b \in Builder, Assume(b) PROVE InForce' = {Assumed!Blank}
  <2>1. mock' = b /\ defs'[b] = Blank /\ b # NoBuilder
    BY <1>3, MocksAssumption DEF Assume, NothingYet
  <2>2. AllowedBy(<<>>) = [s \in Strategy |-> {}]
    BY DEF AllowedBy, ToSet
  <2>3. AssumptionOf(Blank) = Assumed!Blank
    BY <2>2 DEF AssumptionOf, Blank, Assumed!Blank
  <2> QED BY <2>1, <2>3 DEF InForce
<1>4. ASSUME NEW b \in Builder, NEW r \in BOOLEAN, ForceResult(b, r)
      PROVE  \/ UNCHANGED InForce
             \/ \E a \in InForce : InForce' = {[a EXCEPT !.result = r]}
  <2>1. mock' = mock /\ defs' = [defs EXCEPT ![b].result = r]
    BY <1>4 DEF ForceResult
  <2>2. CASE mock = NoBuilder \/ mock # b
    BY <1>1, <2>1, <2>2 DEF InForce, MocksInv
  <2>3. CASE mock # NoBuilder /\ mock = b
    <3>1. defs'[b].result = r /\ defs'[b].when = defs[b].when
      BY <1>1, <2>1 DEF MocksInv, Definitions
    <3>2. AssumptionOf(defs'[b]) = [AssumptionOf(defs[b]) EXCEPT !.result = r]
      BY <3>1 DEF AssumptionOf
    <3> QED BY <2>1, <2>3, <3>2 DEF InForce
  <2> QED BY <2>2, <2>3
<1>5. ASSUME NEW b \in Builder, NEW c \in Conditions, When(b, c)
      PROVE  \/ UNCHANGED InForce
             \/ \E a \in InForce : InForce' = {[a EXCEPT !.allowed[c.strategy] = {c.inputs}]}
  <2>1. mock' = mock /\ defs' = [defs EXCEPT ![b].when = Upserted(@, c)]
    BY <1>5 DEF When
  <2>2. CASE mock = NoBuilder \/ mock # b
    BY <1>1, <2>1, <2>2 DEF InForce, MocksInv
  <2>3. CASE mock # NoBuilder /\ mock = b
    <3>1. /\ defs'[b].result = defs[b].result
          /\ defs'[b].when = Upserted(defs[b].when, c)
      BY <1>1, <2>1 DEF MocksInv, Definitions
    <3>2. defs[b].when \in Seq(Conditions) /\ OnePerStrategy(defs[b].when)
      BY <1>1 DEF MocksInv, Definitions
    <3>3. AllowedBy(defs'[b].when) = [AllowedBy(defs[b].when) EXCEPT ![c.strategy] = {c.inputs}]
      BY <3>1, <3>2, AllowsCondition
    <3>4. AssumptionOf(defs'[b])
             = [AssumptionOf(defs[b]) EXCEPT !.allowed[c.strategy] = {c.inputs}]
      BY <3>1, <3>3 DEF AssumptionOf
    <3> QED BY <2>1, <2>3, <3>4 DEF InForce
  <2> QED BY <2>2, <2>3
<1>6. \A c \in Conditions : c.strategy \in Strategy
  BY EvaluationAssumption
<1>7. CASE \E b \in Builder, r \in BOOLEAN : ForceResult(b, r)
  BY <1>4, <1>7
<1>8. CASE \E b \in Builder, c \in Conditions : When(b, c)
  <2>1. PICK b \in Builder, c \in Conditions : When(b, c)
    BY <1>8
  <2>2. PICK s, allowed : s = c.strategy /\ allowed = c.inputs
    OBVIOUS
  <2>3. s \in Strategy /\ allowed \in {d.inputs : d \in Conditions}
    BY <1>6, <2>2
  <2>4. CASE UNCHANGED InForce
    BY <2>4
  <2>5. CASE \E a \in InForce : InForce' = {[a EXCEPT !.allowed[s] = {allowed}]}
    BY <2>3, <2>5
  <2> QED BY <1>5, <2>1, <2>2, <2>4, <2>5
<1> QED BY <1>2, <1>3, <1>7, <1>8 DEF Mock, Build

\* The inputs allowed by a definition are what its loop says.
LEMMA AllowsAsked ==
    ASSUME EvaluationInv, NEW definition \in Definitions
    PROVE  Assumed!Allows(AssumptionOf(definition)) <=>
              \A c \in ToSet(definition.when) : \A e \in ToSet(exec) :
                 c.strategy = e.strategy => e.input \in c.inputs
<1>1. \A c \in ToSet(definition.when) : c.strategy \in Strategy
  BY EvaluationAssumption DEF Definitions, ToSet
<1>2. \A s \in Strategy :
         /\ GivenBy(exec)[s] = {e.input : e \in {f \in ToSet(exec) : f.strategy = s}}
         /\ AssumptionOf(definition).allowed[s]
              = {c.inputs : c \in {d \in ToSet(definition.when) : d.strategy = s}}
  BY DEF GivenBy, AllowedBy, AssumptionOf
<1>3. Assumed!Allows(AssumptionOf(definition)) <=>
         \A s \in Strategy : \A i \in GivenBy(exec)[s],
            allowed \in AssumptionOf(definition).allowed[s] : i \in allowed
  BY DEF Assumed!Allows
<1> DEFINE fine == \A c \in ToSet(definition.when) : \A e \in ToSet(exec) :
                      c.strategy = e.strategy => e.input \in c.inputs
           allowed(s) == AssumptionOf(definition).allowed[s]
           asked(s) == GivenBy(exec)[s]
<1> HIDE DEF allowed, asked
<1>4. ASSUME fine
      PROVE  \A s \in Strategy : \A i \in asked(s), set \in allowed(s) : i \in set
  <2> SUFFICES ASSUME NEW s \in Strategy, NEW i \in asked(s), NEW set \in allowed(s)
               PROVE  i \in set
    OBVIOUS
  <2>1. PICK e \in ToSet(exec) : e.strategy = s /\ e.input = i
    BY <1>2 DEF asked
  <2>2. PICK c \in ToSet(definition.when) : c.strategy = s /\ c.inputs = set
    BY <1>2 DEF allowed
  <2> QED BY <1>4, <2>1, <2>2
<1>5. ASSUME \A s \in Strategy : \A i \in asked(s), set \in allowed(s) : i \in set
      PROVE  fine
  <2> SUFFICES ASSUME NEW c \in ToSet(definition.when), NEW e \in ToSet(exec),
                      c.strategy = e.strategy
               PROVE  e.input \in c.inputs
    OBVIOUS
  <2>1. c.strategy \in Strategy
    BY <1>1
  <2>2. e.input \in asked(c.strategy) /\ c.inputs \in allowed(c.strategy)
    BY <1>2, <2>1 DEF asked, allowed
  <2> QED BY <1>5, <2>1, <2>2
<1> HIDE DEF fine
<1>6. Assumed!Allows(AssumptionOf(definition)) <=> fine
  BY <1>3, <1>4, <1>5 DEF asked, allowed
<1> QED BY <1>6 DEF fine

\* The result that an assumption has decided.
ByAssumption == IF last.by = "mock" THEN {last.answer.result} ELSE {}

\* Every step is one of what is assumed, given, asked and answered.
LEMMA AssumptionsStep ==
    ASSUME EvaluationInv, NothingYet, [Next]_vars
    PROVE  [Assumed!AssumptionsNext]_(Assumed!avars)
<1>a. InForce = IF mock = NoBuilder THEN {}
                ELSE {[result |-> defs[mock].result, allowed |-> AllowedBy(defs[mock].when)]}
  BY DEF InForce, AssumptionOf
<1>b. GivenBy(<<>>) = Assumed!NoInputs
  BY DEF GivenBy, ToSet, Assumed!NoInputs
<1>c. ASSUME UNCHANGED mocks PROVE UNCHANGED InForce
  BY <1>c DEF InForce, mocks
<1>d. UNCHANGED <<GivenBy(entries), InForce, pc, GivenBy(exec), ByAssumption>>
      => UNCHANGED Assumed!avars
  BY DEF Assumed!avars, InForce, AssumptionOf, ByAssumption
<1>e. Assumed!Allows(AssumptionOf(defs[mock]))
         = Assumed!Allows([result |-> defs[mock].result, allowed |-> AllowedBy(defs[mock].when)])
  BY DEF AssumptionOf
<1>1. CASE Begin
  <2>1. /\ pc = "idle" /\ pc' = "mock" /\ UNCHANGED <<mocks, entries>>
        /\ GivenBy(exec)' = GivenBy(entries) /\ UNCHANGED GivenBy(entries)
        /\ ByAssumption' = {}
    BY <1>1 DEF Begin, Nothing, ByAssumption, GivenBy
  <2>2. Assumed!Ask
    BY <1>c, <2>1 DEF Assumed!Ask, InForce, AssumptionOf, ByAssumption
  <2> QED BY <2>2 DEF Assumed!AssumptionsNext
<1>2. CASE MockedResult
  <2>1. pc = "mock" /\ UNCHANGED <<mocks, entries>> /\ UNCHANGED GivenBy(entries)
    BY <1>2 DEF MockedResult, GivenBy
  <2>2. CASE mock # NoBuilder
    <3> DEFINE a == AssumptionOf(defs[mock])
               answer == ResponseFor(defs[mock], exec)
    <3>1. pc' = "idle" /\ exec' = <<>> /\ ByAssumption' = {answer.result}
      BY <1>2, <2>2 DEF MockedResult, Respond, ByAssumption
    <3>2. defs[mock] \in Definitions /\ IsSequence(exec) /\ OnePerStrategy(exec)
      BY <2>2, GivenIsSequence DEF EvaluationInv, MocksInv
    <3>3. answer.result = IF Assumed!Allows(a) THEN a.result ELSE ~a.result
      <4>1. a.result = defs[mock].result
        BY DEF AssumptionOf
      <4> QED BY <3>2, <4>1, ResponseIs, AllowsAsked
    <3>4. GivenBy(exec)' = Assumed!NoInputs
      BY <1>b, <3>1 DEF GivenBy
    <3>5. InForce = {a} /\ UNCHANGED InForce
      BY <1>c, <2>1, <2>2 DEF InForce
    <3> HIDE DEF a, answer
    <3>6. \E x \in InForce :
             ByAssumption' = {IF Assumed!Allows(x) THEN x.result ELSE ~x.result}
      BY <3>1, <3>3, <3>5
    <3>7. Assumed!Answer
      BY <2>1, <3>1, <3>4, <3>5, <3>6
      DEF Assumed!Answer, InForce, AssumptionOf, ByAssumption
    <3> QED BY <3>7 DEF Assumed!AssumptionsNext
  <2>3. CASE mock = NoBuilder
    <3>1. pc' = "resolve" /\ UNCHANGED <<exec, last>>
      BY <1>2, <2>3 DEF MockedResult
    <3>2. UNCHANGED <<GivenBy(exec), ByAssumption, InForce>> /\ InForce = {}
      BY <1>c, <2>1, <2>3, <3>1 DEF GivenBy, ByAssumption, InForce
    <3>3. Assumed!PassOn
      BY <2>1, <3>1, <3>2 DEF Assumed!PassOn, InForce, AssumptionOf, ByAssumption
    <3> QED BY <3>3 DEF Assumed!AssumptionsNext
  <2> QED BY <2>2, <2>3
<1>3. CASE ExecuteLocal
  <2>1. /\ pc = "resolve" /\ pc' = "idle" /\ exec' = <<>> /\ UNCHANGED <<mocks, entries>>
        /\ last'.by = "resolver"
    BY <1>3 DEF ExecuteLocal, Respond
  <2>2. ByAssumption = {} /\ ByAssumption' = {}
    BY <2>1 DEF NothingYet, ByAssumption
  <2>3. GivenBy(exec)' = Assumed!NoInputs /\ UNCHANGED GivenBy(entries)
    BY <1>b, <2>1 DEF GivenBy
  <2>4. Assumed!DecidedElsewhere
    BY <1>c, <2>1, <2>2, <2>3
    DEF Assumed!DecidedElsewhere, InForce, AssumptionOf, ByAssumption
  <2> QED BY <2>4 DEF Assumed!AssumptionsNext
<1>4. CASE Check
  <2>1. UNCHANGED <<mocks, pc, exec, last>>
    BY <1>4 DEF Check
  <2>2. UNCHANGED <<InForce, GivenBy(exec), ByAssumption>>
    BY <1>c, <2>1 DEF GivenBy, ByAssumption
  <2>3. CASE UNCHANGED GivenBy(entries)
    BY <1>d, <2>1, <2>2, <2>3
  <2>4. CASE \E s \in Strategy : \E i \in InputsOf(s) :
                GivenBy(entries)' = [GivenBy(entries) EXCEPT ![s] = {i}]
    <3>1. \A s \in Strategy : [t \in Strategy |-> InputsOf(t)][s] = InputsOf(s)
      OBVIOUS
    <3>2. Assumed!Give
      BY <2>1, <2>2, <2>4, <3>1 DEF Assumed!Give, InForce, AssumptionOf, ByAssumption
    <3> QED BY <3>2 DEF Assumed!AssumptionsNext
  <2>5. GivenInputs(entries)
    BY DEF EvaluationInv
  <2>6. GivenBy(entries') = GivenBy(entries)'
    BY DEF GivenBy
  <2> QED BY <1>4, <2>3, <2>4, <2>5, <2>6, GivesInput
<1>5. CASE Mock
  <2>1. UNCHANGED <<GivenBy(entries), pc, GivenBy(exec), ByAssumption>>
    BY <1>5 DEF Mock, GivenBy, ByAssumption
  <2>2. CASE UNCHANGED InForce
    BY <1>d, <2>1, <2>2
  <2>3. CASE InForce' \in {{}, {Assumed!Blank}}
    <3>1. Assumed!Forget \/ Assumed!Assume
      BY <2>1, <2>3 DEF Assumed!Forget, Assumed!Assume, InForce, AssumptionOf, ByAssumption
    <3> QED BY <3>1 DEF Assumed!AssumptionsNext
  <2>4. CASE \E a \in InForce :
                \/ \E r \in BOOLEAN : InForce' = {[a EXCEPT !.result = r]}
                \/ \E s \in Strategy, allowed \in {c.inputs : c \in Conditions} :
                      InForce' = {[a EXCEPT !.allowed[s] = {allowed}]}
    <3>1. Assumed!Change
      BY <2>1, <2>4 DEF Assumed!Change, InForce, AssumptionOf, ByAssumption
    <3> QED BY <3>1 DEF Assumed!AssumptionsNext
  <2> QED BY <1>5, <2>2, <2>3, <2>4, MockIsAnAssumption
<1>6. CASE UNCHANGED vars
  BY <1>6, <1>d DEF vars, GivenBy, InForce, ByAssumption
<1> QED BY <1>1, <1>2, <1>3, <1>4, <1>5, <1>6 DEF Next

\* With any builders, conditions and inputs, whatever builders go on doing and
\* inputs are given meanwhile, an evaluation gets what is assumed at one moment
\* for the inputs it began with.
THEOREM MocksAreAssumptions == Spec => ImplementsAssumptions
<1>1. Init => EvaluationInv /\ NothingYet
  BY InitEvaluationInv DEF Init, MocksInit, NothingYet
<1>2. Init => Assumed!AssumptionsInit
  BY DEF Init, MocksInit, Nothing, Assumed!AssumptionsInit, Assumed!NoInputs, GivenBy, ToSet
<1>3. EvaluationInv /\ NothingYet /\ [Next]_vars => NothingYet'
  BY NextNothingYet
<1>4. EvaluationInv /\ NothingYet /\ [Next]_vars => [Assumed!AssumptionsNext]_(Assumed!avars)
  BY AssumptionsStep
<1> QED
  BY <1>1, <1>2, <1>3, <1>4, AlwaysEvaluationInv, PTL
  DEF Spec, ImplementsAssumptions, Assumed!AssumptionsSpec
=============================================================================
