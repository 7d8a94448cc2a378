--------------------------- MODULE Throttle_proofs ---------------------------
(***************************************************************************)
(* Proofs about Throttle, for every number of callers, refreshes and       *)
(* workers, and all options, keys, criteria and versions.                  *)
(***************************************************************************)
EXTENDS Throttle, ExecutionEntries_proofs, FiniteSetTheorems

\* The application and the environment, but for ClearLogger.
Outside ==
    \/ \E criterion \in Criterion : Check(criterion)
    \/ \E key \in Key : Prepare(key)
    \/ SetThrottle \/ SetMock \/ Elapse \/ Lapse \/ Load \/ Change \/ FlipApi

LEMMA OutsideSteps ==
    ASSUME Outside \/ ClearLogger
    PROVE  /\ UNCHANGED <<options, callers, pc, exec, served, result, refresh>>
           /\ Outside => UNCHANGED log
BY DEF Outside, ClearLogger, Check, Prepare, SetThrottle, SetMock, Elapse, Lapse, Load,
       Change, FlipApi, callers

\* The four kinds of steps.
LEMMA NextCases ==
    ASSUME [Next]_vars
    PROVE  \/ \E c \in Caller : Begin(c) \/ Submit(c)
           \/ \E s \in Slot : RefreshStep(s)
           \/ Outside
           \/ ClearLogger
           \/ UNCHANGED vars
BY DEF Next, Outside

\* The options are given to BuildContext once.
LEMMA OptionsStay == ASSUME [Next]_vars PROVE options' = options
<1>1. ASSUME NEW c \in Caller, Begin(c) \/ Submit(c)
      PROVE  options' = options
  BY <1>1 DEF Begin, Submit, MockedResult, Lookup, LookupOf, Revise, Execute, LogResult,
              MarkFresh
<1>2. ASSUME NEW s \in Slot, RefreshStep(s)
      PROVE  options' = options
  BY <1>2 DEF RefreshStep, Acquire, RefreshExecute, RefreshLog
<1>3. UNCHANGED vars => options' = options
  BY DEF vars
<1> QED BY <1>1, <1>2, <1>3, NextCases, OutsideSteps

-----------------------------------------------------------------------------
(* Types. *)

\* A result of an evaluation is the API's of now, or one of the local snapshot,
\* which is not ahead of it.
LEMMA OutcomeTyped ==
    ASSUME TypeOK, NEW r \in Outcome
    PROVE  /\ r \in Result /\ r # Mock
           /\ r.version \in Nat /\ r.version <= version
           /\ r.by = "remote" => r.version = version
<1>1. /\ version \in Nat /\ MaxVersion \in Nat /\ version <= MaxVersion
      /\ local \subseteq {Local(v) : v \in 0..version}
  BY ThrottleAssumption DEF TypeOK, Version
<1>2. r = Remote(version) \/ r \in local
  BY DEF Outcome, TypeOK
<1>3. CASE r = Remote(version)
  BY <1>1, <1>3 DEF Remote, Result, Mock, Version
<1>4. CASE r \in local
  <2>1. PICK v \in 0..version : r = Local(v)
    BY <1>1, <1>4
  <2> QED BY <1>1, <2>1 DEF Local, Result, Mock, Version
<1> QED BY <1>2, <1>3, <1>4

LEMMA ConstantsTyped ==
    /\ 0 \in Version
    /\ Mock \in Result /\ NoResult \in Result /\ NoResult # Mock
    /\ NoResult.version = 0 /\ NoResult.by = "remote"
    /\ Mock.version = 0 /\ Mock.by = "mock"
BY ThrottleAssumption DEF Version, Mock, NoResult, Remote, Result

\* What is logged is an entry.
LEMMA LoggedTyped ==
    ASSUME TypeOK, NEW clone \in Switcher, NEW r \in Result
    PROVE  Logged(clone, r) \in Seq(Entry)
<1>1. [key |-> clone.key, inputs |-> clone.inputs, response |-> r] \in Entry
  BY DEF Switcher, Entry
<1>2. Added(log, clone.key, clone.inputs, r) \in Seq(Entry)
  BY <1>1, AddedTyped DEF TypeOK
<1> QED BY <1>2 DEF Logged, TypeOK

LEMMA NoCloneTyped == ASSUME Key # {} PROVE NoClone \in Switcher
BY DEF NoClone, Switcher, InputSet

LEMMA SomeKey == ASSUME TypeOK PROVE Key # {}
BY DEF TypeOK, Switcher

LEMMA EvaluateTyped == ASSUME Evaluate PROVE window' \in {"closed", "open", "over"}
<1>1. window' \in {"open", "closed"}
  <2>1. CASE window = "open"
    BY <2>1 DEF Evaluate
  <2>2. CASE window # "open" /\ apiUp
    BY <2>2 DEF Evaluate
  <2>3. CASE window # "open" /\ ~apiUp
    BY <2>3 DEF Evaluate
  <2> QED BY <2>1, <2>2, <2>3
<1> QED BY <1>1

LEMMA ReturnTyped ==
    ASSUME TypeOK, NEW c \in Caller, Return(c)
    PROVE  /\ pc' \in [Caller -> {"idle", "mock", "lookup", "served", "execute", "log", "mark"}]
           /\ exec' \in [Caller -> Switcher]
           /\ served' \in [Caller -> SUBSET Entry]
           /\ result' \in [Caller -> Result]
BY SomeKey, NoCloneTyped, ConstantsTyped DEF Return, TypeOK

LEMMA CallerTyped ==
    ASSUME TypeOK, NEW c \in Caller, Begin(c) \/ Submit(c)
    PROVE  TypeOK'
<1> USE DEF TypeOK, Goto, world
<1>1. CASE Begin(c)
  BY <1>1 DEF Begin
<1>2. CASE MockedResult(c)
  <2>1. result' \in [Caller -> Result]
    BY <1>2, ConstantsTyped DEF MockedResult
  <2>2. pc' \in [Caller -> {"idle", "mock", "lookup", "served", "execute", "log", "mark"}]
    BY <1>2 DEF MockedResult
  <2> QED BY <1>2, <2>1, <2>2 DEF MockedResult
<1>3. CASE Lookup(c)
  <2>1. Got(log, exec[c].key, exec[c].inputs) \subseteq Entry
    BY GotMatches
  <2>2. pc' \in [Caller -> {"idle", "mock", "lookup", "served", "execute", "log", "mark"}]
    BY <1>3 DEF Lookup, LookupOf
  <2>3. served' \in [Caller -> SUBSET Entry]
    BY <1>3, <2>1 DEF Lookup, LookupOf
  <2> QED BY <1>3, <2>2, <2>3 DEF Lookup, LookupOf
<1>4. CASE Revise(c)
  <2>1. Waiting(exec[c]) \in Refresh
    BY ConstantsTyped DEF Waiting, Refresh
  <2>2. refresh' \in [Slot -> Refresh] /\ due' \in BOOLEAN
    BY <1>4, <2>1 DEF Revise
  <2> QED BY <1>4, <2>2, ReturnTyped DEF Revise
<1>5. CASE Execute(c)
  <2>1. UNCHANGED <<options, world, log, switcher, due, refresh>>
    BY <1>5 DEF Execute
  <2>2. window' \in {"closed", "open", "over"}
    BY <1>5, EvaluateTyped DEF Execute
  <2>3. ASSUME NEW r \in Outcome, Goto(c, "execute", "log"),
               result' = [result EXCEPT ![c] = r], UNCHANGED <<exec, served>>
        PROVE  TypeOK'
    <3>1. r \in Result
      BY OutcomeTyped
    <3> QED BY <2>1, <2>2, <2>3, <3>1
  <2>4. CASE Return(c)
    BY <2>1, <2>2, <2>4, ReturnTyped
  <2> QED BY <1>5, <2>3, <2>4 DEF Execute
<1>6. CASE LogResult(c)
  <2>1. Logged(exec[c], result[c]) \in Seq(Entry)
    BY LoggedTyped
  <2> QED BY <1>6, <2>1 DEF LogResult
<1>7. CASE MarkFresh(c)
  BY <1>7, ReturnTyped DEF MarkFresh
<1> QED BY <1>1, <1>2, <1>3, <1>4, <1>5, <1>6, <1>7 DEF Submit

LEMMA RefreshTyped ==
    ASSUME TypeOK, NEW s \in Slot, RefreshStep(s)
    PROVE  TypeOK'
<1> USE DEF TypeOK, callers, world
<1>0. Free \in Refresh
  BY SomeKey, NoCloneTyped, ConstantsTyped DEF Free, Refresh
<1>1. CASE Acquire(s)
  BY <1>1 DEF Acquire, Refresh
<1>2. CASE RefreshExecute(s)
  <2>1. \/ refresh' = [refresh EXCEPT ![s] = Free]
        \/ \E r \in Outcome : refresh' = [refresh EXCEPT ![s].pc = "log", ![s].result = r]
    BY <1>2 DEF RefreshExecute
  <2>2. \A r \in Outcome : r \in Result
    BY OutcomeTyped
  <2>3. refresh' \in [Slot -> Refresh]
    BY <1>0, <2>1, <2>2 DEF Refresh
  <2>4. window' \in {"closed", "open", "over"}
    BY <1>2, EvaluateTyped DEF RefreshExecute
  <2> QED BY <1>2, <2>3, <2>4 DEF RefreshExecute
<1>3. CASE RefreshLog(s)
  <2>1. refresh[s].exec \in Switcher /\ refresh[s].result \in Result
    BY DEF Refresh
  <2>2. Logged(refresh[s].exec, refresh[s].result) \in Seq(Entry)
    BY <2>1, LoggedTyped
  <2> QED BY <1>0, <1>3, <2>2 DEF RefreshLog
<1> QED BY <1>1, <1>2, <1>3 DEF RefreshStep

LEMMA OutsideTyped ==
    ASSUME TypeOK, Outside \/ ClearLogger
    PROVE  TypeOK'
<1> USE DEF TypeOK, callers, world
<1>0. version \in Nat /\ MaxVersion \in Nat /\ version <= MaxVersion
  BY ThrottleAssumption DEF Version
<1>1. ASSUME NEW criterion \in Criterion, Check(criterion)
      PROVE  TypeOK'
  <2> DEFINE new == {e \in switcher.inputs : e[1] # criterion[1]} \cup {criterion}
  <2>1. new \in InputSet
    BY DEF Switcher, InputSet
  <2>2. switcher' = [switcher EXCEPT !.inputs = new]
    BY <1>1 DEF Check
  <2> HIDE DEF new
  <2>3. switcher' \in Switcher
    BY <2>1, <2>2 DEF Switcher
  <2> QED BY <1>1, <2>3 DEF Check
<1>2. ASSUME NEW key \in Key, Prepare(key)
      PROVE  TypeOK'
  BY <1>2 DEF Prepare, Switcher
<1>3. CASE SetThrottle
  BY <1>3 DEF SetThrottle, Switcher
<1>4. CASE SetMock \/ Elapse \/ Lapse \/ FlipApi
  BY <1>4 DEF SetMock, Elapse, Lapse, FlipApi
<1>5. CASE ClearLogger
  BY <1>5, EmptySeq DEF ClearLogger
<1>6. CASE Load
  BY <1>6 DEF Load
<1>7. CASE Change
  <2>1. version' = version + 1 /\ version' \in Version
    BY <1>0, <1>7 DEF Change, Version
  <2>2. 0..version \subseteq 0..version'
    BY <1>0, <2>1
  <2>3. local' \subseteq {Local(v) : v \in 0..version'}
    BY <1>7, <2>2 DEF Change
  <2> QED BY <1>7, <2>1, <2>3 DEF Change
<1> QED BY <1>1, <1>2, <1>3, <1>4, <1>5, <1>6, <1>7 DEF Outside

LEMMA TypeInductive == TypeOK /\ [Next]_vars => TypeOK'
<1>1. ASSUME TypeOK, UNCHANGED vars PROVE TypeOK'
  BY <1>1 DEF TypeOK, vars
<1> QED BY <1>1, NextCases, CallerTyped, RefreshTyped, OutsideTyped

\* The state of a throttled switcher keeps its types: what is cached, served and
\* refreshed is always an entry with a result and one criterion per strategy,
\* whatever failed on the way to it, and no snapshot is ahead of the API.
THEOREM TypeCorrect == Spec => []TypeOK
<1>1. Init => TypeOK
  <2> SUFFICES ASSUME Init PROVE TypeOK
    OBVIOUS
  <2>1. NoClone \in Switcher
    BY NoCloneTyped DEF Init
  <2>2. Free \in Refresh
    BY <2>1, ConstantsTyped DEF Free, Refresh
  <2>3. switcher \in Switcher
    BY DEF Init, Switcher, InputSet
  <2> QED BY <2>1, <2>2, <2>3, ConstantsTyped, EmptySeq DEF Init, TypeOK
<1> QED BY <1>1, TypeInductive, PTL DEF Spec

-----------------------------------------------------------------------------
(* The pool of tokens. *)

\* A step makes at most one refresh a worker, and only below the limit.
LEMMA WorkersGrow ==
    ASSUME TypeOK, [Next]_vars
    PROVE  \/ Workers' \subseteq Workers
           \/ \E s \in Slot : Acquire(s) /\ Workers' \subseteq Workers \cup {s}
<1> USE DEF TypeOK, Workers, Working
<1>1. ASSUME NEW c \in Caller, Begin(c) \/ Submit(c)
      PROVE  Workers' \subseteq Workers
  <2>1. CASE Revise(c)
    BY <2>1 DEF Revise, Waiting
  <2>2. CASE Begin(c) \/ MockedResult(c) \/ Lookup(c) \/ Execute(c) \/ LogResult(c)
             \/ MarkFresh(c)
    BY <2>2 DEF Begin, MockedResult, Lookup, LookupOf, Execute, LogResult, MarkFresh
  <2> QED BY <1>1, <2>1, <2>2 DEF Submit
<1>2. ASSUME NEW s \in Slot, RefreshStep(s)
      PROVE  \/ Workers' \subseteq Workers
             \/ Acquire(s) /\ Workers' \subseteq Workers \cup {s}
  <2>1. CASE Acquire(s)
    BY <2>1 DEF Acquire
  <2>2. CASE RefreshExecute(s)
    BY <2>2 DEF RefreshExecute, Free
  <2>3. CASE RefreshLog(s)
    BY <2>3 DEF RefreshLog, Free
  <2> QED BY <1>2, <2>1, <2>2, <2>3 DEF RefreshStep
<1>3. CASE UNCHANGED refresh
  BY <1>3
<1>4. UNCHANGED vars => UNCHANGED refresh
  BY DEF vars
<1> QED BY <1>1, <1>2, <1>3, <1>4, NextCases, OutsideSteps

\* However many refreshes wait, start, fail and end, no more of them execute at a
\* time than there are tokens.
THEOREM PoolBoundsWorkers == Spec => []WorkersBounded
<1> DEFINE limit == options.ThrottleMaxWorkers
<1>0. TypeOK => limit \in Nat
  BY ThrottleAssumption DEF TypeOK
<1>1. Init => WorkersBounded
  <2> SUFFICES ASSUME Init PROVE WorkersBounded
    OBVIOUS
  <2>1. Workers = {}
    BY DEF Init, Workers, Working, Free
  <2>2. limit \in Nat
    BY ThrottleAssumption DEF Init
  <2> QED BY <2>1, <2>2, FS_EmptySet DEF WorkersBounded
<1>2. TypeOK /\ WorkersBounded /\ [Next]_vars => WorkersBounded'
  <2> SUFFICES ASSUME TypeOK, WorkersBounded, [Next]_vars, ~Unlimited
               PROVE  Cardinality(Workers') <= limit
    BY OptionsStay DEF WorkersBounded, Unlimited
  <2>0. limit \in Nat
    BY <1>0
  <2>1. IsFiniteSet(Workers) /\ IsFiniteSet(Workers')
    BY ThrottleAssumption, FS_Subset DEF Workers
  <2>2. /\ Cardinality(Workers) \in Nat /\ Cardinality(Workers') \in Nat
        /\ Cardinality(Workers) <= limit
    BY <2>1, FS_CardinalityType DEF WorkersBounded
  <2>3. CASE Workers' \subseteq Workers
    <3>1. Cardinality(Workers') <= Cardinality(Workers)
      BY <2>1, <2>3, FS_Subset
    <3> QED BY <2>0, <2>2, <3>1
  <2>4. ASSUME NEW s \in Slot, Acquire(s), Workers' \subseteq Workers \cup {s}
        PROVE  Cardinality(Workers') <= limit
    <3>1. Cardinality(Workers) < limit
      BY <2>4 DEF Acquire
    <3>2. /\ IsFiniteSet(Workers \cup {s})
          /\ Cardinality(Workers \cup {s})
                = IF s \in Workers THEN Cardinality(Workers) ELSE Cardinality(Workers) + 1
      BY <2>1, FS_AddElement
    <3>3. /\ Cardinality(Workers \cup {s}) \in Nat
          /\ Cardinality(Workers') <= Cardinality(Workers \cup {s})
      BY <2>4, <3>2, FS_Subset, FS_CardinalityType
    <3> QED BY <2>0, <2>2, <3>1, <3>2, <3>3
  <2> QED BY <2>3, <2>4, WorkersGrow
<1> QED BY <1>1, <1>2, TypeCorrect, PTL DEF Spec

-----------------------------------------------------------------------------
(* What a step does to the log.                                              *)
(* With criteria of one strategy, the last one counts: a switcher has one    *)
(* input at most, and matching is equality.                                  *)

OneStrategy == \A a, b \in Criterion : a[1] = b[1]

LEMMA InputsUniform == ASSUME OneStrategy PROVE UniformSet(InputSet)
BY DEF OneStrategy, UniformSet, InputSet

\* The log changes when it is cleared and when a result is logged.
LEMMA LogSteps ==
    ASSUME [Next]_vars
    PROVE  \/ log' = log
           \/ ClearLogger
           \/ \E c \in Caller : LogResult(c) /\ log' = Logged(exec[c], result[c])
           \/ \E s \in Slot :
                 RefreshLog(s) /\ log' = Logged(refresh[s].exec, refresh[s].result)
<1>1. ASSUME NEW c \in Caller, Begin(c) \/ Submit(c)
      PROVE  log' = log \/ LogResult(c)
  BY <1>1 DEF Begin, Submit, MockedResult, Lookup, LookupOf, Revise, Execute, MarkFresh
<1>2. ASSUME NEW s \in Slot, RefreshStep(s)
      PROVE  log' = log \/ RefreshLog(s)
  BY <1>2 DEF RefreshStep, Acquire, RefreshExecute
<1>3. UNCHANGED vars => log' = log
  BY DEF vars
<1> QED BY <1>1, <1>2, <1>3, NextCases, OutsideSteps DEF LogResult, RefreshLog

\* What is logged belongs to an evaluation or a refresh of some clone.
LEMMA WhatIsLogged ==
    ASSUME TypeOK
    PROVE  /\ \A c \in Caller : exec[c] \in Switcher /\ result[c] \in Result
           /\ \A s \in Slot : refresh[s].exec \in Switcher /\ refresh[s].result \in Result
BY DEF TypeOK, Refresh

\* The entry a result is logged as.
Filing(clone, r) == [key |-> clone.key, inputs |-> clone.inputs, response |-> r]

\* Logging a result supersedes what is filed like it, if it is logged at all.
LEMMA LoggedFiles ==
    ASSUME OneStrategy, TypeOK, FiledOnce(log), NEW clone \in Switcher, NEW r \in Result
    PROVE  /\ FiledOnce(Logged(clone, r))
           /\ \/ Logged(clone, r) = log /\ ~clone.throttled
              \/ /\ Supersedes(Logged(clone, r), log, Filing(clone, r))
                 /\ \A k \in Key, i \in InputSet :
                       Got(Logged(clone, r), k, i)
                          = IF k = clone.key /\ i = clone.inputs
                            THEN {Filing(clone, r)}
                            ELSE Got(log, k, i)
<1>1. Filing(clone, r) \in Entry /\ clone.inputs \in InputSet
  BY DEF Filing, Entry, Switcher
<1>2. log \in Seq(Entry) /\ \A e \in Entry : e.inputs \in InputSet
  BY DEF TypeOK, Entry
<1>3. \/ Logged(clone, r) = log /\ ~clone.throttled
      \/ Logged(clone, r) = Added(log, clone.key, clone.inputs, r)
  BY DEF Logged
<1> DEFINE new == Filing(clone, r)
           l   == Added(log, clone.key, clone.inputs, r)
<1>4. l \in Seq(Entry) /\ FiledOnce(l) /\ Supersedes(l, log, new)
  BY <1>1, <1>2, InputsUniform, AddedFiles DEF Filing
<1>5. new.key = clone.key /\ new.inputs = clone.inputs
  BY DEF Filing
<1> HIDE DEF new, l
<1>6. \A k \in Key, i \in InputSet :
         /\ Filed(new, k, i) => Got(l, k, i) = {new}
         /\ ~ Filed(new, k, i) => Got(l, k, i) = Got(log, k, i)
  BY <1>2, <1>4, InputsUniform, GotAfter
<1>7. \A k \in Key, i \in InputSet :
         Got(l, k, i) = IF k = clone.key /\ i = clone.inputs THEN {new} ELSE Got(log, k, i)
  BY <1>5, <1>6 DEF Filed
<1> QED BY <1>3, <1>4, <1>7 DEF new, l

LEMMA EmptyLog ==
    /\ \A m \in 1..Len(<<>>) : FALSE
    /\ FiledOnce(<<>>)
    /\ \A k, i : Got(<<>>, k, i) = {}
<1>1. Len(<<>>) = 0 /\ <<>> \in Seq({})
  BY EmptySeq
<1>2. \A m \in 1..Len(<<>>) : FALSE
  BY <1>1
<1>3. \A k, i : Got(<<>>, k, i) = {}
  BY <1>1, <1>2, GotIsFirst
<1> QED BY <1>2, <1>3 DEF FiledOnce

LEMMA FiledInductive ==
    ASSUME OneStrategy, TypeOK, FiledOnce(log), [Next]_vars
    PROVE  FiledOnce(log')
BY LogSteps, WhatIsLogged, LoggedFiles, EmptyLog DEF ClearLogger

LEMMA FiledInvariant ==
    ASSUME OneStrategy
    PROVE  Spec => []FiledOnce(log)
<1>1. Init => FiledOnce(log)
  BY EmptyLog DEF Init
<1>2. TypeOK /\ FiledOnce(log) /\ [Next]_vars => FiledOnce(log)'
  BY FiledInductive
<1> QED BY <1>1, <1>2, TypeCorrect, PTL DEF Spec

\* With one strategy, the log keeps one entry per key and inputs, whoever logs and
\* in whatever order: it does not grow with the number of evaluations.
THEOREM NoSecondEntry ==
    ASSUME OneStrategy
    PROVE  Spec => []OneEntryPerInputs
<1>1. FiledOnce(log) => OneEntryPerInputs
  BY DEF FiledOnce, Filed, OneEntryPerInputs
<1> QED BY <1>1, FiledInvariant, PTL

\* With one strategy, the log behaves as a map from keys and inputs to their last
\* result, whichever of the evaluations, refreshes and mocks it comes from: a
\* lookup never misses what was logged, and never finds anything older.
THEOREM LogIsACache ==
    ASSUME OneStrategy
    PROVE  Spec => ImplementsCache
<1> DEFINE shown == [ki \in Key \X InputSet |-> {e.response : e \in Got(log, ki[1], ki[2])}]
<1>1. Init => Cache!CacheInit
  <2> SUFFICES ASSUME Init PROVE shown = [ki \in Key \X InputSet |-> {}]
    BY DEF Cache!CacheInit
  <2>1. \A k, i : Got(log, k, i) = {}
    BY EmptyLog DEF Init
  <2> QED BY <2>1
<1>2. TypeOK /\ FiledOnce(log) /\ [Next]_vars => [Cache!CacheNext]_shown
  <2> SUFFICES ASSUME TypeOK, FiledOnce(log), [Next]_vars
               PROVE  [Cache!CacheNext]_shown
    OBVIOUS
  <2>1. CASE log' = log
    BY <2>1
  <2>2. CASE ClearLogger
    <3>1. \A k, i : Got(log', k, i) = {}
      BY <2>2, EmptyLog DEF ClearLogger
    <3>2. shown' = [ki \in Key \X InputSet |-> {}]
      BY <3>1
    <3> QED BY <3>2 DEF Cache!CacheNext, Cache!Forget
  <2>3. ASSUME NEW clone \in Switcher, NEW r \in Result, log' = Logged(clone, r)
        PROVE  [Cache!CacheNext]_shown
    <3> DEFINE k == clone.key
               i == clone.inputs
               new == Filing(clone, r)
    <3>1. k \in Key /\ i \in InputSet
      BY DEF Switcher
    <3>2. new.response = r
      BY DEF Filing
    <3> HIDE DEF k, i, new
    <3>3. CASE \A k2 \in Key, i2 \in InputSet :
                  Got(log', k2, i2) = IF k2 = k /\ i2 = i THEN {new} ELSE Got(log, k2, i2)
      <4>1. ASSUME NEW ki \in Key \X InputSet
            PROVE  shown'[ki] = IF ki = <<k, i>> THEN {r} ELSE shown[ki]
        <5>1. /\ ki[1] \in Key /\ ki[2] \in InputSet
              /\ ki = <<k, i>> <=> ki[1] = k /\ ki[2] = i
          BY <3>1
        <5>2. CASE ki = <<k, i>>
          BY <3>2, <3>3, <5>1, <5>2
        <5>3. CASE ki # <<k, i>>
          BY <3>3, <5>1, <5>3
        <5> QED BY <5>2, <5>3
      <4>2. shown' = [shown EXCEPT ![<<k, i>>] = {r}]
        BY <3>1, <4>1
      <4>3. Cache!Put(k, i, r)
        BY <4>2 DEF Cache!Put
      <4>4. Cache!CacheNext
        BY <3>1, <4>3 DEF Cache!CacheNext
      <4> QED BY <4>4
    <3> QED BY <2>1, <2>3, <3>3, LoggedFiles DEF k, i, new
  <2> QED BY <2>1, <2>2, <2>3, LogSteps, WhatIsLogged
<1> QED
  BY <1>1, <1>2, TypeCorrect, FiledInvariant, PTL
  DEF Spec, ImplementsCache, Cache!CacheSpec

-----------------------------------------------------------------------------
(* What is served.  A lookup finds what was logged for the clone, and the    *)
(* caller keeps both until it returns, whatever happens to the switcher.     *)

NothingServed == \A c \in Caller : pc[c] # "served" => served[c] = {}

LEMMA ServedInductive ==
    ASSUME OneStrategy, TypeOK, NothingServed, ServedForOwnInputs, [Next]_vars
    PROVE  NothingServed' /\ ServedForOwnInputs'
<1> USE DEF TypeOK, NothingServed, ServedForOwnInputs, Goto, Return
<1>1. ASSUME NEW c \in Caller, Begin(c) \/ Submit(c)
      PROVE  NothingServed' /\ ServedForOwnInputs'
  <2>1. CASE Begin(c)
    BY <2>1 DEF Begin
  <2>2. CASE Lookup(c)
    <3>1. \A e \in Got(log, exec[c].key, exec[c].inputs) :
             e.key = exec[c].key /\ e.inputs = exec[c].inputs
      <4> SUFFICES ASSUME NEW e \in Got(log, exec[c].key, exec[c].inputs)
                   PROVE  e.key = exec[c].key /\ e.inputs = exec[c].inputs
        OBVIOUS
      <4>1. e \in Entry /\ EntryMatches(e, exec[c].key, exec[c].inputs)
        BY GotMatches
      <4>2. e.inputs \in InputSet /\ exec[c].inputs \in InputSet
        BY <4>1 DEF Entry, Switcher
      <4>3. Filed(e, exec[c].key, exec[c].inputs)
        BY <4>1, <4>2, MatchesItsOwn, InputsUniform
      <4> QED BY <4>3 DEF Filed
    <3> QED BY <2>2, <3>1 DEF Lookup, LookupOf
  <2>3. CASE MockedResult(c) \/ Revise(c) \/ Execute(c) \/ LogResult(c) \/ MarkFresh(c)
    BY <2>3 DEF MockedResult, Revise, Execute, LogResult, MarkFresh
  <2> QED BY <1>1, <2>1, <2>2, <2>3 DEF Submit
<1>2. UNCHANGED <<pc, exec, served>> => NothingServed' /\ ServedForOwnInputs'
  OBVIOUS
<1>3. ASSUME NEW s \in Slot, RefreshStep(s)
      PROVE  UNCHANGED <<pc, exec, served>>
  BY <1>3 DEF RefreshStep, Acquire, RefreshExecute, RefreshLog, callers
<1>4. UNCHANGED vars => UNCHANGED <<pc, exec, served>>
  BY DEF vars
<1> QED BY <1>1, <1>2, <1>3, <1>4, NextCases, OutsideSteps

\* A switcher with one strategy is served results of its own key and input only,
\* whatever Check and Prepare do to it between the steps of an evaluation.
THEOREM ServedItsOwn ==
    ASSUME OneStrategy
    PROVE  Spec => []ServedForOwnInputs
<1>1. Init => NothingServed /\ ServedForOwnInputs
  BY DEF Init, NothingServed, ServedForOwnInputs
<1>2. TypeOK /\ NothingServed /\ ServedForOwnInputs /\ [Next]_vars
      => NothingServed' /\ ServedForOwnInputs'
  BY ServedInductive
<1> QED BY <1>1, <1>2, TypeCorrect, PTL DEF Spec

-----------------------------------------------------------------------------
(* A frozen switcher, evaluated by any number of goroutines.  Nothing gets   *)
(* past a lookup once something is cached, and nothing is refreshed.         *)

\* There are no refreshes, and a mocked result is logged without an evaluation.
FrozenInv ==
    /\ options.Freeze => \A s \in Slot : refresh[s].pc = "free"
    /\ \A c \in Caller : pc[c] \notin {"log", "mark"} => result[c] # Mock

\* Where a caller's result comes from, in terms of where it was.
LEMMA CallerSteps ==
    ASSUME TypeOK, NEW c \in Caller, Begin(c) \/ Submit(c), NEW d \in Caller
    PROVE  \/ UNCHANGED <<pc[d], exec[d], result[d]>>
           \/ pc'[d] = "mark"
           \/ pc'[d] = "idle" /\ result'[d] = NoResult
           \/ /\ pc'[d] \in {"mock", "lookup", "served"}
              /\ pc[d] \in {"idle", "mock", "lookup"} /\ UNCHANGED result[d]
           \/ pc'[d] = "log" /\ result'[d] = Mock
           \/ /\ pc'[d] = "execute" /\ pc[d] = "lookup"
              /\ UNCHANGED <<exec[d], result[d]>>
              /\ exec[d].throttled => Got(log, exec[d].key, exec[d].inputs) = {}
           \/ pc'[d] = "log" /\ pc[d] = "execute" /\ UNCHANGED exec[d]
<1> USE DEF TypeOK, Goto
<1>1. CASE Begin(c)
  BY <1>1 DEF Begin
<1>2. CASE MockedResult(c)
  BY <1>2 DEF MockedResult
<1>3. CASE Lookup(c)
  BY <1>3 DEF Lookup, LookupOf
<1>4. CASE Revise(c) \/ MarkFresh(c)
  BY <1>4 DEF Revise, MarkFresh, Return
<1>5. CASE Execute(c)
  BY <1>5 DEF Execute, Return
<1>6. CASE LogResult(c)
  BY <1>6 DEF LogResult
<1> QED BY <1>1, <1>2, <1>3, <1>4, <1>5, <1>6 DEF Submit

LEMMA FrozenInductive ==
    ASSUME TypeOK, FrozenInv, [Next]_vars
    PROVE  FrozenInv'
<1>1. options' = options
  BY OptionsStay
<1>2. ASSUME NEW c \in Caller, Begin(c) \/ Submit(c)
      PROVE  FrozenInv'
  <2>1. ASSUME options.Freeze
        PROVE  refresh' = refresh
    BY <1>2, <2>1 DEF Begin, Submit, MockedResult, Lookup, LookupOf, Revise, Execute,
                      LogResult, MarkFresh
  <2>2. ASSUME NEW d \in Caller, pc'[d] \notin {"log", "mark"}
        PROVE  result'[d] # Mock
    BY <1>2, <2>2, CallerSteps, ConstantsTyped DEF FrozenInv
  <2> QED BY <1>1, <2>1, <2>2 DEF FrozenInv
<1>3. ASSUME NEW s \in Slot, RefreshStep(s)
      PROVE  FrozenInv'
  <2>1. refresh[s].pc # "free"
    BY <1>3 DEF RefreshStep, Acquire, RefreshExecute, RefreshLog
  <2>2. UNCHANGED callers
    BY <1>3 DEF RefreshStep, Acquire, RefreshExecute, RefreshLog
  <2> QED BY <1>1, <2>1, <2>2 DEF FrozenInv, callers
<1>4. UNCHANGED <<pc, result, refresh>> => FrozenInv'
  BY <1>1 DEF FrozenInv
<1>5. UNCHANGED vars => UNCHANGED <<pc, result, refresh>>
  BY DEF vars
<1> QED BY <1>2, <1>3, <1>4, <1>5, NextCases, OutsideSteps

\* What is cached is replaced by those who missed it, or by a mocked result.
LEMMA PinnedStep ==
    ASSUME OneStrategy, TypeOK, FiledOnce(log), FrozenInv, [Next]_vars, options.Freeze,
           NEW k \in Key, NEW i \in InputSet
    PROVE  \/ Got(log', k, i) = Got(log, k, i)
           \/ ClearLogger
           \/ \E c \in Caller : LogResult(c) /\ result[c] = Mock
           \/ \E c \in Missed(k, i) : LogResult(c)
<1>1. ASSUME NEW c \in Caller, LogResult(c), log' = Logged(exec[c], result[c]),
             Got(log', k, i) # Got(log, k, i), result[c] # Mock
      PROVE  c \in Missed(k, i)
  <2>1. exec[c] \in Switcher /\ result[c] \in Result
    BY WhatIsLogged
  <2>2. k = exec[c].key /\ i = exec[c].inputs
    BY <1>1, <2>1, LoggedFiles
  <2> QED BY <1>1, <2>2 DEF Missed, LogResult, Goto
<1>2. \A s \in Slot : ~RefreshLog(s)
  BY DEF FrozenInv, RefreshLog
<1> QED BY <1>1, <1>2, LogSteps

\* An evaluation that is throttled does not get past what is cached.
LEMMA NobodyMisses ==
    ASSUME TypeOK, FrozenInv, [Next]_vars,
           NEW k \in Key, NEW i \in InputSet, Got(log, k, i) # {},
           NEW c \in Missed(k, i)', c \notin Missed(k, i)
    PROVE  ~exec[c].throttled
<1>1. /\ c \in Caller
      /\ pc'[c] \in {"execute", "log"} /\ result'[c] # Mock
      /\ exec'[c].key = k /\ exec'[c].inputs = i
  BY DEF Missed
<1>2. ~(pc[c] \in {"execute", "log"} /\ result[c] # Mock /\ exec[c].key = k /\ exec[c].inputs = i)
  BY <1>1 DEF Missed
<1>3. ASSUME NEW d \in Caller, Begin(d) \/ Submit(d)
      PROVE  ~exec[c].throttled
  BY <1>1, <1>2, <1>3, CallerSteps DEF FrozenInv
<1>4. UNCHANGED <<pc, exec, result>> => FALSE
  BY <1>1, <1>2
<1>5. ASSUME NEW s \in Slot, RefreshStep(s)
      PROVE  UNCHANGED <<pc, exec, result>>
  BY <1>5 DEF RefreshStep, Acquire, RefreshExecute, RefreshLog, callers
<1>6. UNCHANGED vars => UNCHANGED <<pc, exec, result>>
  BY DEF vars
<1> QED BY <1>3, <1>4, <1>5, <1>6, NextCases, OutsideSteps

\* With Freeze and one strategy, however many goroutines evaluate, what is cached
\* for given inputs stays until ClearLogger, but for a mocked result and for
\* evaluations that missed it: and none begins to miss it, unless it is not
\* throttled.
THEOREM FrozenStaysCached ==
    ASSUME OneStrategy
    PROVE  Spec => FreezePins
<1>1. Init => FrozenInv
  <2> SUFFICES ASSUME Init PROVE FrozenInv
    OBVIOUS
  <2>1. \A c \in Caller : result[c] # Mock
    BY ConstantsTyped DEF Init
  <2> QED BY <2>1 DEF Init, FrozenInv, Free
<1>2. TypeOK /\ FrozenInv /\ [Next]_vars => FrozenInv'
  BY FrozenInductive
<1>3. TypeOK /\ FiledOnce(log) /\ FrozenInv /\ [Next]_vars
      => [options.Freeze => \A k \in Key, i \in InputSet : Got(log, k, i) # {} =>
             /\ \/ Got(log', k, i) = Got(log, k, i)
                \/ ClearLogger
                \/ \E c \in Caller : LogResult(c) /\ result[c] = Mock
                \/ \E c \in Missed(k, i) : LogResult(c)
             /\ \A c \in Missed(k, i)' \ Missed(k, i) : ~exec[c].throttled]_vars
  BY PinnedStep, NobodyMisses
<1> QED BY <1>1, <1>2, <1>3, TypeCorrect, FiledInvariant, PTL DEF Spec, FreezePins

-----------------------------------------------------------------------------
(* One goroutine that evaluates, one worker, one strategy, a switcher that   *)
(* stays throttled, and a log that is cleared only when frozen: refreshes    *)
(* cannot overtake each other, nor an evaluation a refresh.                  *)

Alone(me) ==
    /\ Caller = {me}
    /\ OneStrategy
    /\ ~MayClear
    /\ ~MayUnthrottle

Cached(l, clone) == \E m \in 1..Len(l) : Filed(l[m], clone.key, clone.inputs)

SamePlace(clone, other) == clone.key = other.key /\ clone.inputs = other.inputs

NotAhead(e, v) == e.response.version <= v

AlwaysThrottled(me) ==
    /\ switcher.throttled
    /\ pc[me] # "idle" => exec[me].throttled

\* A refresh is of something cached, an evaluation that goes on after a lookup is
\* of something that is not: they never compute the same.
Apart(me) ==
    /\ pc[me] = "execute" => ~Cached(log, exec[me])
    /\ pc[me] = "log" /\ result[me] # Mock => ~Cached(log, exec[me])
    /\ pc[me] = "served" /\ ~options.Freeze => Cached(log, exec[me])
    /\ \A s \in Slot : refresh[s].pc # "free" =>
          ~options.Freeze /\ Cached(log, refresh[s].exec)

\* No result is ahead of the API, and what a refresh has got from it is not older
\* than what is cached in its place.
InOrder(me) ==
    /\ result[me].version <= version
    /\ \A m \in 1..Len(log) : NotAhead(log[m], version)
    /\ \A s \in Slot : refresh[s].pc = "log" =>
          /\ refresh[s].result.version <= version
          /\ refresh[s].result.by = "remote" =>
                \A m \in 1..Len(log) :
                   Filed(log[m], refresh[s].exec.key, refresh[s].exec.inputs)
                      => NotAhead(log[m], refresh[s].result.version)

ForwardInv(me) ==
    /\ AlwaysThrottled(me)
    /\ Apart(me)
    /\ options.ThrottleMaxWorkers = 1 => InOrder(me)

\* With one token, there is one worker.
LEMMA OneWorker ==
    ASSUME options.ThrottleMaxWorkers = 1, WorkersBounded,
           NEW s \in Slot, NEW t \in Slot, Working(s), Working(t)
    PROVE  s = t
<1> SUFFICES ASSUME s # t PROVE FALSE
  OBVIOUS
<1>1. IsFiniteSet(Workers) /\ Cardinality(Workers) <= 1
  BY ThrottleAssumption, FS_Subset DEF Workers, WorkersBounded, Unlimited
<1>2. IsFiniteSet({s}) /\ Cardinality({s}) = 1
  BY FS_Singleton
<1>3. IsFiniteSet({s} \cup {t}) /\ Cardinality({s} \cup {t}) = 2
  BY <1>2, FS_AddElement
<1>4. {s} \cup {t} \in SUBSET Workers
  BY DEF Workers
<1>5. Cardinality({s} \cup {t}) <= Cardinality(Workers) /\ Cardinality(Workers) \in Nat
  BY <1>1, <1>4, FS_Subset, FS_CardinalityType
<1> QED BY <1>1, <1>3, <1>5

LEMMA ThrottledInductive ==
    ASSUME NEW me, Alone(me), TypeOK, AlwaysThrottled(me), [Next]_vars
    PROVE  AlwaysThrottled(me)'
<1> USE DEF Alone, TypeOK, Goto, Return, AlwaysThrottled, callers
<1>1. CASE Begin(me)
  BY <1>1 DEF Begin
<1>2. CASE MockedResult(me) \/ Lookup(me) \/ Revise(me) \/ Execute(me) \/ LogResult(me)
           \/ MarkFresh(me)
  BY <1>2 DEF MockedResult, Lookup, LookupOf, Revise, Execute, LogResult, MarkFresh
<1>3. ASSUME NEW s \in Slot, RefreshStep(s)
      PROVE  AlwaysThrottled(me)'
  BY <1>3 DEF RefreshStep, Acquire, RefreshExecute, RefreshLog
<1>4. ASSUME NEW criterion \in Criterion, Check(criterion)
      PROVE  AlwaysThrottled(me)'
  BY <1>4 DEF Check, Switcher
<1>5. ASSUME NEW key \in Key, Prepare(key)
      PROVE  AlwaysThrottled(me)'
  BY <1>5 DEF Prepare, Switcher
<1>6. CASE SetThrottle
  BY <1>6 DEF SetThrottle
<1>7. CASE SetMock \/ ClearLogger \/ Elapse \/ Lapse \/ Load \/ Change \/ FlipApi
           \/ UNCHANGED vars
  BY <1>7 DEF SetMock, ClearLogger, Elapse, Lapse, Load, Change, FlipApi, vars
<1> QED BY <1>1, <1>2, <1>3, <1>4, <1>5, <1>6, <1>7, NextCases DEF Outside, Submit

\* A lookup misses exactly what is not cached.
LEMMA MissedIsNotCached ==
    ASSUME OneStrategy, TypeOK, NEW c \in Caller
    PROVE  Got(log, exec[c].key, exec[c].inputs) = {} <=> ~Cached(log, exec[c])
<1> DEFINE k == exec[c].key
           i == exec[c].inputs
<1>1. log \in Seq(Entry) /\ i \in InputSet
  BY DEF TypeOK, Switcher
<1>2. \A m \in 1..Len(log) : EntryMatches(log[m], k, i) <=> Filed(log[m], k, i)
  <2> SUFFICES ASSUME NEW m \in 1..Len(log)
               PROVE  EntryMatches(log[m], k, i) <=> Filed(log[m], k, i)
    OBVIOUS
  <2>1. log[m] \in Entry
    BY <1>1, ElementOfSeq
  <2>2. log[m].inputs \in InputSet
    BY <2>1 DEF Entry
  <2> QED BY <1>1, <2>2, MatchesItsOwn, InputsUniform
<1>3. (\E m \in 1..Len(log) : Got(log, k, i) = {log[m]}) => Got(log, k, i) # {}
  OBVIOUS
<1>4. \/ Got(log, k, i) = {} /\ \A m \in 1..Len(log) : ~ EntryMatches(log[m], k, i)
      \/ \E m \in 1..Len(log) : Got(log, k, i) = {log[m]} /\ EntryMatches(log[m], k, i)
  BY <1>1, GotIsFirst
<1> QED BY <1>2, <1>3, <1>4 DEF Cached

\* Logging leaves everything else as cached as it was, no more and no less.
LEMMA CachedAfter ==
    ASSUME NEW l, NEW old, NEW clone, NEW r, NEW other,
           l = old \/ Supersedes(l, old, Filing(clone, r))
    PROVE  /\ Cached(old, other) => Cached(l, other)
           /\ ~Cached(old, other) /\ ~SamePlace(other, clone) => ~Cached(l, other)
<1> DEFINE new == Filing(clone, r)
<1>1. new.key = clone.key /\ new.inputs = clone.inputs
  BY DEF Filing
<1>2. l = old \/ Supersedes(l, old, new)
  OBVIOUS
<1> HIDE DEF new
<1>3. ASSUME Cached(old, other), l # old PROVE Cached(l, other)
  <2>1. PICK m \in 1..Len(old) : Filed(old[m], other.key, other.inputs)
    BY <1>3 DEF Cached
  <2>2. CASE Filed(old[m], new.key, new.inputs)
    BY <1>1, <1>2, <1>3, <2>1, <2>2 DEF Supersedes, Cached, Filed
  <2>3. CASE ~Filed(old[m], new.key, new.inputs)
    BY <1>2, <1>3, <2>1, <2>3 DEF Supersedes, Cached
  <2> QED BY <2>2, <2>3
<1>4. ASSUME ~Cached(old, other), ~SamePlace(other, clone), l # old
      PROVE  ~Cached(l, other)
  BY <1>1, <1>2, <1>4 DEF Supersedes, Cached, Filed, SamePlace
<1> QED BY <1>3, <1>4

LEMMA ApartInductive ==
    ASSUME NEW me, Alone(me), TypeOK, FiledOnce(log), AlwaysThrottled(me), Apart(me),
           [Next]_vars
    PROVE  Apart(me)'
<1> USE DEF Alone, TypeOK, Apart, Goto, Return, callers
<1>0. options' = options
  BY OptionsStay
<1>1. CASE Begin(me)
  BY <1>0, <1>1 DEF Begin
<1>2. CASE MockedResult(me)
  BY <1>0, <1>2 DEF MockedResult
<1>3. CASE Lookup(me)
  BY <1>0, <1>3, MissedIsNotCached DEF Lookup, LookupOf, AlwaysThrottled
<1>4. CASE Revise(me)
  <2>1. refresh' = refresh \/ \E s \in Slot :
           /\ pc[me] = "served" /\ ~options.Freeze
           /\ refresh' = [refresh EXCEPT ![s] = Waiting(exec[me])]
    BY <1>4 DEF Revise
  <2>2. Waiting(exec[me]).exec = exec[me]
    BY DEF Waiting
  <2>3. \A s \in Slot : refresh'[s].pc # "free" =>
           ~options.Freeze /\ Cached(log, refresh'[s].exec)
    BY <2>1, <2>2
  <2> QED BY <1>0, <1>4, <2>3 DEF Revise
<1>5. CASE Execute(me)
  BY <1>0, <1>5 DEF Execute
<1>6. CASE MarkFresh(me)
  BY <1>0, <1>6 DEF MarkFresh
<1>7. CASE LogResult(me)
  <2>1. log' = log \/ Supersedes(log', log, Filing(exec[me], result[me]))
    BY <1>7, WhatIsLogged, LoggedFiles DEF LogResult
  <2>2. \A s \in Slot : Cached(log, refresh[s].exec) => Cached(log', refresh[s].exec)
    BY <2>1, CachedAfter
  <2> QED BY <1>0, <1>7, <2>2 DEF LogResult
<1>8. ASSUME NEW s \in Slot, RefreshStep(s)
      PROVE  Apart(me)'
  <2>1. CASE Acquire(s)
    BY <1>0, <2>1 DEF Acquire, Refresh
  <2>2. CASE RefreshExecute(s)
    BY <1>0, <2>2 DEF RefreshExecute, Refresh, Free
  <2>3. CASE RefreshLog(s)
    <3> DEFINE clone == refresh[s].exec
    <3>1. log' = log \/ Supersedes(log', log, Filing(clone, refresh[s].result))
      BY <2>3, WhatIsLogged, LoggedFiles DEF RefreshLog
    <3>2. \A t \in Slot : Cached(log, refresh[t].exec) => Cached(log', refresh[t].exec)
      BY <3>1, CachedAfter
    <3>3. Cached(log, exec[me]) => Cached(log', exec[me])
      BY <3>1, CachedAfter
    <3>4. ~Cached(log, exec[me]) => ~Cached(log', exec[me])
      <4>1. Cached(log, clone)
        BY <2>3 DEF RefreshLog
      <4>2. ~Cached(log, exec[me]) => ~SamePlace(exec[me], clone)
        BY <4>1 DEF Cached, SamePlace
      <4> QED BY <3>1, <4>2, CachedAfter
    <3>5. \A t \in Slot : refresh'[t].pc # "free" => refresh'[t] = refresh[t]
      BY <2>3 DEF RefreshLog, Free
    <3> HIDE DEF clone
    <3> QED BY <1>0, <2>3, <3>2, <3>3, <3>4, <3>5 DEF RefreshLog
  <2> QED BY <1>8, <2>1, <2>2, <2>3 DEF RefreshStep
<1>9. CASE ClearLogger
  BY <1>0, <1>9, EmptyLog DEF ClearLogger, Cached
<1>10. UNCHANGED <<log, pc, exec, result, refresh>> => Apart(me)'
  BY <1>0
<1>11. UNCHANGED vars => UNCHANGED <<log, pc, exec, result, refresh>>
  BY DEF vars
<1> QED BY <1>1, <1>2, <1>3, <1>4, <1>5, <1>6, <1>7, <1>8, <1>9, <1>10, <1>11,
           NextCases, OutsideSteps DEF Submit

\* What a log holds after an entry superseded another is not ahead of a version,
\* if it was not before and the new entry is not.
LEMMA NotAheadAfter ==
    ASSUME NEW l, NEW old, NEW new, l = old \/ Supersedes(l, old, new), NEW v
    PROVE  /\ NotAhead(new, v) /\ (\A m \in 1..Len(old) : NotAhead(old[m], v))
                => \A m \in 1..Len(l) : NotAhead(l[m], v)
           /\ \A k, i : /\ Filed(new, k, i) => NotAhead(new, v)
                        /\ \A m \in 1..Len(old) : Filed(old[m], k, i) => NotAhead(old[m], v)
                        => \A m \in 1..Len(l) : Filed(l[m], k, i) => NotAhead(l[m], v)
<1>1. \A m \in 1..Len(l) : l[m] = new \/ \E n \in 1..Len(old) : l[m] = old[n]
  BY DEF Supersedes
<1> QED BY <1>1

LEMMA VersionsTyped ==
    ASSUME TypeOK
    PROVE  /\ version \in Nat
           /\ \A r \in Result : r.version \in Nat
           /\ \A m \in 1..Len(log) : log[m].response.version \in Nat
<1>1. \A r \in Result : r.version \in Nat
  BY ThrottleAssumption DEF Result, Version
<1>2. \A m \in 1..Len(log) : log[m] \in Entry
  BY ElementOfSeq DEF TypeOK
<1>3. \A e \in Entry : e.response \in Result
  BY DEF Entry
<1> QED BY <1>1, <1>2, <1>3, ThrottleAssumption DEF TypeOK, Version

\* A result that is logged keeps the order, unless a refresh has something older
\* for the same key and inputs.
LEMMA LoggedInOrder ==
    ASSUME NEW me, OneStrategy, TypeOK, FiledOnce(log), InOrder(me),
           NEW clone \in Switcher, NEW r \in Result, r.version <= version,
           log' = Logged(clone, r),
           \A s \in Slot : refresh'[s].pc = "log" =>
              /\ refresh'[s] = refresh[s]
              /\ r = Mock \/ ~SamePlace(refresh[s].exec, clone),
           UNCHANGED <<result, version>>
    PROVE  InOrder(me)'
<1> DEFINE new == Filing(clone, r)
<1>1. new.key = clone.key /\ new.inputs = clone.inputs /\ new.response = r
  BY DEF Filing
<1>2. log' = log \/ Supersedes(log', log, new)
  BY LoggedFiles
<1>3. NotAhead(new, version) /\ (r = Mock => \A v \in Nat : NotAhead(new, v))
  BY <1>1, ConstantsTyped DEF NotAhead
<1> HIDE DEF new
<1>4. \A m \in 1..Len(log') : NotAhead(log'[m], version)
  BY <1>2, <1>3, NotAheadAfter DEF InOrder
<1>5. ASSUME NEW s \in Slot, refresh'[s].pc = "log"
      PROVE  /\ refresh'[s].result.version <= version
             /\ refresh'[s].result.by = "remote" =>
                  \A m \in 1..Len(log') :
                     Filed(log'[m], refresh'[s].exec.key, refresh'[s].exec.inputs)
                        => NotAhead(log'[m], refresh'[s].result.version)
  <2> DEFINE k == refresh[s].exec.key
             i == refresh[s].exec.inputs
             v == refresh[s].result.version
  <2>1. refresh'[s] = refresh[s] /\ refresh[s].pc = "log" /\ v \in Nat
    BY <1>5, VersionsTyped, WhatIsLogged
  <2>2. /\ v <= version
        /\ refresh[s].result.by = "remote" =>
              \A m \in 1..Len(log) : Filed(log[m], k, i) => NotAhead(log[m], v)
    BY <2>1 DEF InOrder
  <2>3. Filed(new, k, i) => NotAhead(new, v)
    BY <1>1, <1>3, <1>5, <2>1 DEF Filed, SamePlace
  <2> HIDE DEF k, i, v
  <2>4. ASSUME refresh[s].result.by = "remote"
        PROVE  \A m \in 1..Len(log') : Filed(log'[m], k, i) => NotAhead(log'[m], v)
    BY <1>2, <2>2, <2>3, <2>4, NotAheadAfter
  <2> QED BY <2>1, <2>2, <2>4 DEF k, i, v
<1> QED BY <1>4, <1>5 DEF InOrder

LEMMA InOrderInductive ==
    ASSUME NEW me, Alone(me), TypeOK, WorkersBounded, FiledOnce(log), Apart(me),
           options.ThrottleMaxWorkers = 1, InOrder(me), [Next]_vars
    PROVE  InOrder(me)'
<1> USE DEF Alone, callers, world
<1>0. /\ version \in Nat /\ version <= version /\ 0 <= version
      /\ Mock.version <= version /\ NoResult.version <= version
      /\ me \in Caller
  BY VersionsTyped, ConstantsTyped
<1>1. CASE MockedResult(me)
  <2>1. result'[me] = Mock \/ result'[me] = result[me]
    BY <1>1 DEF MockedResult, TypeOK
  <2> QED BY <1>0, <1>1, <2>1 DEF MockedResult, InOrder
<1>2. CASE LogResult(me)
  <2>1. exec[me] \in Switcher /\ result[me] \in Result /\ result[me].version <= version
    BY WhatIsLogged DEF InOrder
  <2>2. result[me] # Mock => ~Cached(log, exec[me])
    BY <1>2 DEF LogResult, Goto, Apart
  <2>3. ASSUME NEW s \in Slot, refresh[s].pc = "log", result[me] # Mock
        PROVE  ~SamePlace(refresh[s].exec, exec[me])
    <3>1. Cached(log, refresh[s].exec)
      BY <2>3 DEF Apart
    <3> QED BY <2>2, <2>3, <3>1 DEF Cached, SamePlace
  <2> QED BY <1>2, <2>1, <2>3, LoggedInOrder DEF LogResult
<1>3. CASE Execute(me)
  <2>1. UNCHANGED <<log, refresh, version>>
    BY <1>3 DEF Execute
  <2>2. (\E r \in Outcome : result'[me] = r) \/ result'[me] = NoResult
    BY <1>3 DEF Execute, Return, TypeOK
  <2>3. result'[me].version <= version
    BY <1>0, <2>2, OutcomeTyped
  <2> QED BY <2>1, <2>3 DEF InOrder
<1>4. CASE Revise(me)
  <2>1. result'[me] = NoResult
    BY <1>4 DEF Revise, Return, TypeOK
  <2>2. \A s \in Slot : refresh'[s].pc = "log" => refresh'[s] = refresh[s]
    BY <1>4 DEF Revise, Waiting, TypeOK
  <2> QED BY <1>0, <1>4, <2>1, <2>2 DEF Revise, InOrder
<1>5. CASE MarkFresh(me)
  <2>1. result'[me] = NoResult
    BY <1>5 DEF MarkFresh, Return, TypeOK
  <2> QED BY <1>0, <1>5, <2>1 DEF MarkFresh, InOrder
<1>6. CASE Begin(me) \/ Lookup(me)
  BY <1>6 DEF Begin, Lookup, LookupOf, InOrder
<1>7. ASSUME NEW s \in Slot, Acquire(s)
      PROVE  InOrder(me)'
  <2>1. \A t \in Slot : refresh'[t].pc = "log" => refresh'[t] = refresh[t]
    BY <1>7 DEF Acquire, TypeOK, Refresh
  <2> QED BY <1>7, <2>1 DEF Acquire, InOrder
<1>8. ASSUME NEW s \in Slot, RefreshExecute(s)
      PROVE  InOrder(me)'
  <2>1. UNCHANGED <<log, result, version>>
    BY <1>8 DEF RefreshExecute
  <2>2. ASSUME NEW t \in Slot, refresh'[t].pc = "log"
        PROVE  refresh'[t] = refresh[t] \/ \E r \in Outcome : refresh'[t].result = r
    BY <1>8, <2>2 DEF RefreshExecute, TypeOK, Refresh, Free
  <2>3. ASSUME NEW t \in Slot, refresh'[t].pc = "log", refresh'[t] # refresh[t]
        PROVE  /\ refresh'[t].result.version <= version
               /\ refresh'[t].result.by = "remote" => refresh'[t].result.version = version
    BY <2>2, <2>3, OutcomeTyped
  <2> QED BY <2>1, <2>3 DEF InOrder
<1>9. ASSUME NEW s \in Slot, RefreshLog(s)
      PROVE  InOrder(me)'
  <2>1. /\ refresh[s].exec \in Switcher /\ refresh[s].result \in Result
        /\ refresh[s].pc = "log"
    BY <1>9, WhatIsLogged DEF RefreshLog
  <2>2. refresh[s].result.version <= version
    BY <2>1 DEF InOrder
  <2>3. \A t \in Slot : refresh'[t].pc # "log"
    <3> SUFFICES ASSUME NEW t \in Slot, refresh'[t].pc = "log" PROVE FALSE
      OBVIOUS
    <3>1. t # s /\ refresh'[t] = refresh[t]
      BY <1>9 DEF RefreshLog, TypeOK, Free
    <3>2. Working(s) /\ Working(t)
      BY <2>1, <3>1 DEF Working
    <3> QED BY <3>1, <3>2, OneWorker
  <2> QED BY <1>9, <2>1, <2>2, <2>3, LoggedInOrder DEF RefreshLog
<1>10. CASE ClearLogger
  <2>1. \A m \in 1..Len(log') : FALSE
    BY <1>10, EmptyLog DEF ClearLogger
  <2>2. UNCHANGED <<result, refresh, version>>
    BY <1>10 DEF ClearLogger
  <2> QED BY <2>1, <2>2 DEF InOrder
<1>11. CASE Change
  <2>1. version' = version + 1 /\ UNCHANGED <<log, result, refresh>>
    BY <1>11 DEF Change
  <2>2. \A n \in Nat : n <= version => n <= version'
    BY <1>0, <2>1
  <2>3. \A m \in 1..Len(log') : NotAhead(log'[m], version')
    BY <2>1, <2>2, VersionsTyped DEF InOrder, NotAhead
  <2>4. result'[me].version <= version'
    BY <1>0, <2>1, <2>2, VersionsTyped, WhatIsLogged DEF InOrder
  <2>5. ASSUME NEW s \in Slot, refresh'[s].pc = "log"
        PROVE  refresh'[s].result.version <= version'
    BY <2>1, <2>2, <2>5, VersionsTyped, WhatIsLogged DEF InOrder
  <2> QED BY <2>1, <2>3, <2>4, <2>5 DEF InOrder
<1>12. (\/ \E criterion \in Criterion : Check(criterion)
        \/ \E key \in Key : Prepare(key)
        \/ SetThrottle \/ SetMock \/ Elapse \/ Lapse \/ Load \/ FlipApi
        \/ UNCHANGED vars) => UNCHANGED <<log, result, refresh, version>>
  BY DEF Check, Prepare, SetThrottle, SetMock, Elapse, Lapse, Load, FlipApi, vars
<1>13. UNCHANGED <<log, result, refresh, version>> => InOrder(me)'
  BY DEF InOrder
<1> QED BY <1>1, <1>2, <1>3, <1>4, <1>5, <1>6, <1>7, <1>8, <1>9, <1>10, <1>11, <1>12, <1>13,
           NextCases DEF Outside, Submit, RefreshStep

LEMMA ForwardInvariant ==
    ASSUME NEW me, Alone(me)
    PROVE  Spec => []ForwardInv(me)
<1>1. Init => ForwardInv(me)
  <2> SUFFICES ASSUME Init PROVE ForwardInv(me)
    OBVIOUS
  <2>1. \A m \in 1..Len(log) : FALSE
    BY EmptyLog DEF Init
  <2>2. /\ pc[me] = "idle" /\ result[me] = NoResult /\ version = 0
        /\ \A s \in Slot : refresh[s].pc = "free"
    BY DEF Init, Alone, Free
  <2>3. AlwaysThrottled(me)
    BY <2>2 DEF Init, AlwaysThrottled
  <2>4. Apart(me)
    BY <2>2 DEF Apart
  <2>5. InOrder(me)
    BY <2>1, <2>2, ConstantsTyped DEF InOrder
  <2> QED BY <2>3, <2>4, <2>5 DEF ForwardInv
<1>2. TypeOK /\ WorkersBounded /\ FiledOnce(log) /\ ForwardInv(me) /\ [Next]_vars
      => ForwardInv(me)'
  BY OptionsStay, ThrottledInductive, ApartInductive, InOrderInductive DEF ForwardInv, Alone
<1>3. Spec => []FiledOnce(log)
  BY FiledInvariant DEF Alone
<1> QED BY <1>1, <1>2, <1>3, TypeCorrect, PoolBoundsWorkers, PTL DEF Spec

\* With one goroutine that evaluates and one worker, no refresh is overtaken by
\* another, nor by an evaluation: an answer of the API never takes the place of a
\* newer result, whatever fails, however late a refresh is, and whatever silent
\* mode or a mock puts in the cache meanwhile.
THEOREM RefreshesKeepOrder ==
    ASSUME NEW me, Alone(me)
    PROVE  Spec => CacheMovesForward
<1>0. OneStrategy
  BY DEF Alone
<1>1. ASSUME TypeOK, FiledOnce(log), ForwardInv(me), [Next]_vars,
             options.ThrottleMaxWorkers = 1,
             NEW k \in Key, NEW i \in InputSet,
             NEW e \in Got(log, k, i), NEW f \in Got(log', k, i),
             e.inputs = f.inputs, f.response.by = "remote"
      PROVE  NotAhead(e, f.response.version)
  <2>1. \A a \in Got(log, k, i) : Filed(a, k, i) /\ \E m \in 1..Len(log) : a = log[m]
    <3>1. log \in Seq(Entry) /\ \A a \in Entry : a.inputs \in InputSet
      BY <1>1 DEF TypeOK, Entry
    <3> QED BY <1>0, <1>1, <3>1, InputsUniform, GotIsFiled
  <2>2. PICK m \in 1..Len(log) : e = log[m]
    BY <2>1
  <2>3. Filed(e, k, i) /\ e.response.version \in Nat
    BY <1>1, <2>1, <2>2, VersionsTyped
  <2>4. CASE Got(log', k, i) = Got(log, k, i)
    <3>1. \A n \in 1..Len(log) : Filed(log[n], k, i) => n = m
      BY <1>1, <2>2, <2>3 DEF FiledOnce, Filed
    <3>2. f = e
      BY <2>1, <2>2, <2>4, <3>1
    <3> QED BY <2>3, <3>2 DEF NotAhead
  <2>5. CASE ClearLogger
    BY <2>5, EmptyLog DEF ClearLogger
  <2>6. ASSUME NEW clone \in Switcher, NEW r \in Result, log' = Logged(clone, r),
               r.by = "remote" /\ Filed(e, clone.key, clone.inputs)
                  => NotAhead(e, r.version)
        PROVE  NotAhead(e, f.response.version)
    <3>1. \/ Got(log', k, i) = Got(log, k, i)
          \/ k = clone.key /\ i = clone.inputs /\ f = Filing(clone, r)
      BY <1>0, <1>1, <2>6, LoggedFiles
    <3>2. ASSUME k = clone.key, i = clone.inputs, f = Filing(clone, r)
          PROVE  NotAhead(e, f.response.version)
      <4>1. f.response = r
        BY <3>2 DEF Filing
      <4> QED BY <1>1, <2>3, <2>6, <3>2, <4>1
    <3> QED BY <2>4, <3>1, <3>2
  <2>7. ASSUME NEW c \in Caller, LogResult(c), log' = Logged(exec[c], result[c])
        PROVE  NotAhead(e, f.response.version)
    <3>1. c = me /\ pc[me] = "log"
      BY <2>7 DEF Alone, LogResult, Goto
    <3>2. result[me] # Mock => ~Filed(e, exec[me].key, exec[me].inputs)
      BY <1>1, <2>2, <3>1 DEF ForwardInv, Apart, Cached
    <3>3. Mock.by # "remote"
      BY ConstantsTyped
    <3> QED BY <1>1, <2>6, <2>7, <3>1, <3>2, <3>3, WhatIsLogged
  <2>8. ASSUME NEW s \in Slot, RefreshLog(s),
               log' = Logged(refresh[s].exec, refresh[s].result)
        PROVE  NotAhead(e, f.response.version)
    <3>1. /\ refresh[s].result.by = "remote"
          /\ Filed(e, refresh[s].exec.key, refresh[s].exec.inputs)
          => NotAhead(e, refresh[s].result.version)
      BY <1>1, <2>2, <2>8 DEF ForwardInv, InOrder, RefreshLog
    <3> QED BY <1>1, <2>6, <2>8, <3>1, WhatIsLogged
  <2> QED BY <1>1, <2>4, <2>5, <2>7, <2>8, LogSteps
<1>2. TypeOK /\ FiledOnce(log) /\ ForwardInv(me) /\ [Next]_vars
      => [options.ThrottleMaxWorkers = 1 =>
             \A k \in Key, i \in InputSet :
                \A e \in Got(log, k, i), f \in Got(log', k, i) :
                   e.inputs = f.inputs /\ f.response.by = "remote"
                      => e.response.version <= f.response.version]_vars
  BY <1>1 DEF NotAhead
<1>3. Spec => []FiledOnce(log)
  BY FiledInvariant DEF Alone
<1> QED BY <1>2, <1>3, ForwardInvariant, TypeCorrect, PTL DEF Spec, CacheMovesForward
=============================================================================
