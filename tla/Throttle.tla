------------------------------ MODULE Throttle ------------------------------
(***************************************************************************)
(* A throttled Switcher: stale-while-revalidate over the execution log.    *)
(*                                                                         *)
(* Goroutines evaluate one shared Switcher (Switcher.submit) while others  *)
(* change it (Check, Throttle, Prepare), time passes, and background       *)
(* refreshes, bounded by Client.throttleTokens, execute it again.          *)
(*                                                                         *)
(* Abstractions.  A result is the version of the configuration it was      *)
(* computed from and who computed it: the API, whose configuration changes *)
(* now and then; the local snapshot, which silent mode falls back to and   *)
(* which may be of any version so far (SnapshotStore says which); or a     *)
(* mock, which Mocks looks into.  An evaluation takes place at one time:   *)
(* what silent mode does to the session meanwhile is in AuthSession.       *)
(* nextRefreshAt is compared only with the current time, so due says       *)
(* whether it has passed.                                                  *)
(***************************************************************************)
EXTENDS ExecutionEntries

CONSTANTS
    Key,         \* the keys Prepare gives the switcher
    Caller,      \* goroutines that evaluate the switcher
    Criterion,   \* what Check can add: pairs of a strategy and an input
    Options,     \* the ContextOptions that Init chooses from
    MayClear,    \* the application calls ClearLogger, frozen or not
    MayUnthrottle,  \* the application changes Throttle
    MayMock,     \* the Options with which the application mocks the key
    Slot,        \* bound: as many background refreshes exist at a time
    MaxVersion   \* bound: the configuration changes so many times

\* ThrottleMaxWorkers is no limit when it is 0.
ASSUME ThrottleAssumption ==
    /\ Options \subseteq [Freeze : BOOLEAN, Logger : BOOLEAN, SilentMode : BOOLEAN,
                          ThrottleMaxWorkers : Nat]
    /\ {MayClear, MayUnthrottle} \subseteq BOOLEAN
    /\ MayMock \subseteq Options
    /\ MaxVersion \in Nat
    /\ IsFiniteSet(Slot)

VARIABLES
    options,  \* Client.Context().Options
    mocked,   \* Assume is in force for the key
    log,      \* executionLogger.entries
    switcher, \* the fields of the Switcher, but for nextRefreshAt
    due,      \* Switcher.nextRefreshAt has passed
    pc,       \* where each caller is
    exec,     \* the clone each caller evaluates
    served,   \* the entry each caller was served, as a set
    result,   \* the result each caller got
    refresh,  \* the background refreshes
    version,  \* the version of the configuration behind the API
    local,    \* the result the snapshot in memory gives, as a set
    window,   \* the silent window
    apiUp     \* the API is reachable

callers == <<pc, exec, served, result>>
world   == <<mocked, version, local, apiUp>>
vars    == <<options, mocked, log, switcher, due, pc, exec, served, result,
             refresh, version, local, window, apiUp>>

Version == 0..MaxVersion

Result == [version : Version, by : {"remote", "local", "mock"}]

Mock   == [version |-> 0, by |-> "mock"]
Remote(v) == [version |-> v, by |-> "remote"]
Local(v)  == [version |-> v, by |-> "local"]

\* upsertEntry keeps one criterion of a strategy.
InputSet == {i \in SUBSET Criterion : \A a, b \in i : a[1] = b[1] => a = b}

Switcher == [key : Key, inputs : InputSet, throttled : BOOLEAN]
Entry == [key : Key, inputs : InputSet, response : Result]

Refresh == [pc : {"free", "waiting", "execute", "log"},
            exec : Switcher, result : Result]

NoClone == [key |-> CHOOSE k \in Key : TRUE, inputs |-> {}, throttled |-> FALSE]

\* What is held before there is a result.
NoResult == Remote(0)

Free == [pc |-> "free", exec |-> NoClone, result |-> NoResult]

Waiting(clone) == [pc |-> "waiting", exec |-> clone, result |-> NoResult]

\* The refreshes that hold a token of throttleTokens.
Working(s) == refresh[s].pc \notin {"free", "waiting"}

TypeOK ==
    /\ options \in Options
    /\ mocked \in BOOLEAN
    /\ log \in Seq(Entry)
    /\ switcher \in Switcher
    /\ due \in BOOLEAN
    /\ pc \in [Caller -> {"idle", "mock", "lookup", "served", "execute", "log", "mark"}]
    /\ exec \in [Caller -> Switcher]
    /\ served \in [Caller -> SUBSET Entry]
    /\ result \in [Caller -> Result]
    /\ refresh \in [Slot -> Refresh]
    /\ version \in Version
    /\ local \subseteq {Local(v) : v \in 0..version}
    /\ window \in {"closed", "open", "over"}
    /\ apiUp \in BOOLEAN

Init ==
    /\ options \in Options
    /\ mocked = FALSE
    /\ log = <<>>
    /\ switcher \in [key : Key, inputs : {{}}, throttled : {TRUE}]
    /\ due = FALSE
    /\ pc = [c \in Caller |-> "idle"]
    /\ exec = [c \in Caller |-> NoClone]
    /\ served = [c \in Caller |-> {}]
    /\ result = [c \in Caller |-> NoResult]
    /\ refresh = [s \in Slot |-> Free]
    /\ version = 0
    /\ local = {}
    /\ window = "closed"
    /\ apiUp = TRUE

Goto(c, from, to) ==
    /\ pc[c] = from
    /\ pc' = [pc EXCEPT ![c] = to]

\* A caller returns to the application and forgets what it held.
Return(c) ==
    /\ pc' = [pc EXCEPT ![c] = "idle"]
    /\ exec' = [exec EXCEPT ![c] = NoClone]
    /\ served' = [served EXCEPT ![c] = {}]
    /\ result' = [result EXCEPT ![c] = NoResult]

-----------------------------------------------------------------------------
(* An evaluation: resolveExecutionMode and executeMode, with silent mode.    *)

\* What it gets, as a set: the answer of the API, or of the snapshot while the
\* silent window lasts and when the API fails, or nothing but an error.
Outcome ==
    CASE window = "open"            -> local
      [] window # "open" /\ apiUp  -> {Remote(version)}
      [] window # "open" /\ ~apiUp -> IF options.SilentMode THEN local ELSE {}

\* A window that is over is closed by a successful probe; a failed call or probe
\* opens the next one.
Evaluate ==
    window' = CASE window = "open"            -> "open"
                [] window # "open" /\ apiUp  -> "closed"
                [] window # "open" /\ ~apiUp ->
                      IF options.SilentMode THEN "open" ELSE "closed"

-----------------------------------------------------------------------------
(* Switcher.submit. *)

\* snapshotForExecution.  A slot is kept for every caller on its way.
Begin(c) ==
    /\ Cardinality({s \in Slot : refresh[s] # Free})
         + Cardinality({d \in Caller : pc[d] # "idle"}) < Cardinality(Slot)
    /\ Goto(c, "idle", "mock")
    /\ exec' = [exec EXCEPT ![c] = switcher]
    /\ UNCHANGED <<options, world, window, log, switcher, due, served, result, refresh>>

\* logResult, if canLog.
Logged(clone, response) ==
    IF options.Logger \/ clone.throttled
    THEN Added(log, clone.key, clone.inputs, response)
    ELSE log

\* Client.mockedResult.  A mocked result is logged like any other.
MockedResult(c) ==
    /\ \/ /\ mocked
          /\ Goto(c, "mock", "log")
          /\ result' = [result EXCEPT ![c] = Mock]
       \/ /\ ~mocked
          /\ Goto(c, "mock", "lookup")
          /\ UNCHANGED result
    /\ UNCHANGED <<options, world, window, log, switcher, due, exec, served, refresh>>

\* tryCachedResult: executionLogger.get, unless the clone is not throttled.
LookupOf(c, clone) ==
    LET hit == IF clone.throttled THEN Got(log, clone.key, clone.inputs) ELSE {} IN
    /\ \/ hit = {} /\ Goto(c, "lookup", "execute")
       \/ hit # {} /\ Goto(c, "lookup", "served")
    /\ served' = [served EXCEPT ![c] = hit]
    /\ UNCHANGED <<options, world, window, log, switcher, due, exec, result, refresh>>

\* Faulty: the switcher is read again instead of its clone.
LookupLive(c) == LookupOf(c, switcher)

Lookup(c) == LookupOf(c, exec[c])

\* Faulty: Freeze is not looked at.
ReviseUnfrozen(c) ==
    /\ pc[c] = "served"
    /\ \/ /\ ~due
          /\ UNCHANGED <<due, refresh>>
       \/ /\ due
          /\ due' = FALSE
          /\ \E s \in Slot :
                /\ refresh[s] = Free
                /\ refresh' = [refresh EXCEPT ![s] = Waiting(exec[c])]
    /\ Return(c)
    /\ UNCHANGED <<options, world, window, log, switcher>>

\* tryCachedResult: shouldScheduleRefresh tests and sets nextRefreshAt under
\* the switcher's lock, scheduleBackgroundRefresh starts the goroutine, and the
\* entry is returned.
Revise(c) ==
    /\ pc[c] = "served"
    /\ \/ /\ options.Freeze \/ ~due
          /\ UNCHANGED <<due, refresh>>
       \/ /\ ~options.Freeze /\ due
          /\ due' = FALSE
          /\ \E s \in Slot :
                /\ refresh[s] = Free
                /\ refresh' = [refresh EXCEPT ![s] = Waiting(exec[c])]
    /\ Return(c)
    /\ UNCHANGED <<options, world, window, log, switcher>>

\* Switcher.execute: the evaluation.  Its error is returned as it is.
Execute(c) ==
    /\ pc[c] = "execute"
    /\ \/ \E r \in Outcome :
             /\ Goto(c, "execute", "log")
             /\ result' = [result EXCEPT ![c] = r]
             /\ UNCHANGED <<exec, served>>
       \/ Outcome = {} /\ Return(c)
    /\ Evaluate
    /\ UNCHANGED <<options, world, log, switcher, due, refresh>>

\* Switcher.execute, or submit for a mocked result: logResult.
LogResult(c) ==
    /\ Goto(c, "log", "mark")
    /\ log' = Logged(exec[c], result[c])
    /\ UNCHANGED <<options, world, window, switcher, due, exec, served, result, refresh>>

\* markFreshExecution
MarkFresh(c) ==
    /\ pc[c] = "mark"
    /\ due' = FALSE
    /\ Return(c)
    /\ UNCHANGED <<options, world, window, log, switcher, refresh>>

Submit(c) ==
    \/ MockedResult(c) \/ Lookup(c) \/ Revise(c)
    \/ Execute(c) \/ LogResult(c) \/ MarkFresh(c)

-----------------------------------------------------------------------------
(* Client.runBackgroundTask, with the task of scheduleBackgroundRefresh. *)

Workers == {s \in Slot : Working(s)}

Unlimited == options.ThrottleMaxWorkers = 0

\* Faulty: the limit is off by one.
AcquireOneMore(s) ==
    /\ refresh[s].pc = "waiting"
    /\ Unlimited \/ Cardinality(Workers) <= options.ThrottleMaxWorkers
    /\ refresh' = [refresh EXCEPT ![s].pc = "execute"]
    /\ UNCHANGED <<options, world, window, log, switcher, due, callers>>

\* The goroutine takes a token, when there are any to take.
Acquire(s) ==
    /\ refresh[s].pc = "waiting"
    /\ Unlimited \/ Cardinality(Workers) < options.ThrottleMaxWorkers
    /\ refresh' = [refresh EXCEPT ![s].pc = "execute"]
    /\ UNCHANGED <<options, world, window, log, switcher, due, callers>>

\* Faulty: the token is not given back when the task fails.
RefreshExecuteLeak(s) ==
    /\ refresh[s].pc = "execute"
    /\ \/ \E r \in Outcome :
             refresh' = [refresh EXCEPT ![s].pc = "log", ![s].result = r]
       \/ Outcome = {} /\ refresh' = [refresh EXCEPT ![s].pc = "over"]
    /\ Evaluate
    /\ UNCHANGED <<options, world, log, switcher, due, callers>>

\* Faulty: the error is not looked at, and no result is logged as one.
RefreshExecuteUnchecked(s) ==
    /\ refresh[s].pc = "execute"
    /\ \/ \E r \in Outcome :
             refresh' = [refresh EXCEPT ![s].pc = "log", ![s].result = r]
       \/ Outcome = {} /\ refresh' = [refresh EXCEPT ![s].pc = "log",
             ![s].result.by = "nobody"]
    /\ Evaluate
    /\ UNCHANGED <<options, world, log, switcher, due, callers>>

\* Switcher.execute in the background.  An error is notified, and the deferred
\* receive gives the token back.
RefreshExecute(s) ==
    /\ refresh[s].pc = "execute"
    /\ \/ \E r \in Outcome :
             refresh' = [refresh EXCEPT ![s].pc = "log", ![s].result = r]
       \/ Outcome = {} /\ refresh' = [refresh EXCEPT ![s] = Free]
    /\ Evaluate
    /\ UNCHANGED <<options, world, log, switcher, due, callers>>

\* logResult, and the token is given back.
RefreshLog(s) ==
    /\ refresh[s].pc = "log"
    /\ log' = Logged(refresh[s].exec, refresh[s].result)
    /\ refresh' = [refresh EXCEPT ![s] = Free]
    /\ UNCHANGED <<options, world, window, switcher, due, callers>>

RefreshStep(s) == Acquire(s) \/ RefreshExecute(s) \/ RefreshLog(s)

-----------------------------------------------------------------------------
(* The application and the environment. *)

\* Check: a criterion replaces the one of the same strategy (upsertEntry).
Check(criterion) ==
    /\ switcher' = [switcher EXCEPT
          !.inputs = {e \in @ : e[1] # criterion[1]} \cup {criterion}]
    /\ UNCHANGED <<options, world, window, log, due, callers, refresh>>

\* Prepare
Prepare(key) ==
    /\ switcher.key # key
    /\ switcher' = [switcher EXCEPT !.key = key]
    /\ UNCHANGED <<options, world, window, log, due, callers, refresh>>

\* Throttle: disabling it sets nextRefreshAt to zero, which no time passes.
SetThrottle ==
    /\ MayUnthrottle
    /\ switcher' = [switcher EXCEPT !.throttled = ~@]
    /\ due' = FALSE
    /\ UNCHANGED <<options, world, window, log, callers, refresh>>

\* Assume and Forget
SetMock ==
    /\ options \in MayMock
    /\ mocked' = ~mocked
    /\ UNCHANGED <<options, window, log, switcher, due, callers, refresh,
                   version, local, apiUp>>

\* ClearLogger
ClearLogger ==
    /\ MayClear \/ options.Freeze
    /\ log' = <<>>
    /\ UNCHANGED <<options, world, window, switcher, due, callers, refresh>>

\* Time passes nextRefreshAt.
Elapse ==
    /\ ~due /\ switcher.throttled
    /\ due' = TRUE
    /\ UNCHANGED <<options, world, window, log, switcher, callers, refresh>>

\* Time passes the end of the silent window.
Lapse ==
    /\ window = "open"
    /\ window' = "over"
    /\ UNCHANGED <<options, world, log, switcher, due, callers, refresh>>

\* Another snapshot is loaded.
Load ==
    /\ options.SilentMode
    /\ \E v \in 0..version : local' = {Local(v)}
    /\ UNCHANGED <<options, window, log, switcher, due, callers, refresh,
                   mocked, version, apiUp>>

\* The configuration behind the API changes.
Change ==
    /\ version < MaxVersion
    /\ version' = version + 1
    /\ UNCHANGED <<options, window, log, switcher, due, callers, refresh,
                   mocked, local, apiUp>>

FlipApi ==
    /\ apiUp' = ~apiUp
    /\ UNCHANGED <<options, window, log, switcher, due, callers, refresh,
                   mocked, version, local>>

Next ==
    \/ \E c \in Caller : Begin(c) \/ Submit(c)
    \/ \E s \in Slot : RefreshStep(s)
    \/ \E criterion \in Criterion : Check(criterion)
    \/ \E key \in Key : Prepare(key)
    \/ SetThrottle
    \/ SetMock
    \/ ClearLogger
    \/ Elapse
    \/ Lapse
    \/ Load
    \/ Change
    \/ FlipApi

Spec == Init /\ [][Next]_vars

\* Running goroutines go on, time passes, and the application goes on
\* evaluating.  Nothing makes the API change, fail or recover, and nothing
\* loads a snapshot.
BusySpec ==
    /\ Spec
    /\ \A c \in Caller : WF_vars(Begin(c)) /\ WF_vars(Submit(c))
    /\ \A s \in Slot : WF_vars(RefreshStep(s))
    /\ WF_vars(Elapse) /\ WF_vars(Lapse)

-----------------------------------------------------------------------------
(* Properties. *)

\* The pool of tokens bounds the refreshes that execute at a time.
WorkersBounded ==
    Unlimited \/ Cardinality(Workers) <= options.ThrottleMaxWorkers

\* README.md:356: what a throttled evaluation is served was computed for its
\* own key and inputs, whatever is done to the switcher in the meantime.
ServedForOwnInputs ==
    \A c \in Caller : \A e \in served[c] :
        e.key = exec[c].key /\ e.inputs = exec[c].inputs

\* What the log has of a key and inputs is kept once: an entry that is
\* superseded is gone, so the log does not grow with the evaluations.
OneEntryPerInputs ==
    \A m, n \in 1..Len(log) :
        log[m].key = log[n].key /\ log[m].inputs = log[n].inputs => m = n

\* The log is a map from keys and inputs to their last result, whoever logs.
Cache == INSTANCE ResultCache
            WITH Inputs <- InputSet,
                 Response <- Result,
                 cache <- [ki \in Key \X InputSet |->
                              {e.response : e \in Got(log, ki[1], ki[2])}]

ImplementsCache == Cache!CacheSpec

\* The callers that found nothing cached of a key and inputs, or did not look,
\* and whose evaluation is not logged yet.
Missed(k, i) ==
    {c \in Caller : /\ pc[c] \in {"execute", "log"} /\ result[c] # Mock
                    /\ exec[c].key = k /\ exec[c].inputs = i}

\* ARCHITECTURE.md:274: with Freeze, what is cached is replaced only by
\* evaluations that set out before it was, or by ClearLogger, a mock and, with
\* Logger, evaluations that are not throttled: no other evaluation gets past it,
\* and there are no refreshes.
FreezePins ==
    [][options.Freeze => \A k \in Key, i \in InputSet : Got(log, k, i) # {} =>
          /\ \/ Got(log', k, i) = Got(log, k, i)
             \/ ClearLogger
             \/ \E c \in Caller : LogResult(c) /\ result[c] = Mock
             \/ \E c \in Missed(k, i) : LogResult(c)
          /\ \A c \in Missed(k, i)' \ Missed(k, i) : ~exec[c].throttled]_vars

\* README.md:356: with Freeze, what is cached stays until ClearLogger.
FrozenUntilCleared ==
    [][options.Freeze => \A k \in Key, i \in InputSet : Got(log, k, i) # {} =>
          Got(log', k, i) = Got(log, k, i) \/ ClearLogger]_vars

\* With one worker and one caller, refreshes cannot overtake each other: an
\* answer of the API never replaces one that is ahead of it, so the cache goes
\* back only to what the local snapshot or a mock says.
CacheMovesForward ==
    [][options.ThrottleMaxWorkers = 1 =>
          \A k \in Key, i \in InputSet :
             \A e \in Got(log, k, i), f \in Got(log', k, i) :
                e.inputs = f.inputs /\ f.response.by = "remote"
                   => e.response.version <= f.response.version]_vars

\* Revalidation works: once the API stays reachable, the switcher and the
\* configuration stop changing and no mock is set, the cache ends up with the
\* last version as the API has it, with any number of workers, whatever
\* refreshes failed, overtook each other or were answered by an old snapshot
\* before.
CacheConverges ==
    ~options.Freeze =>
        \A k \in Key, i \in InputSet :
           <>[](/\ apiUp /\ ~mocked
                /\ switcher = [key |-> k, inputs |-> i, throttled |-> TRUE])
           => <>[](\A e \in Got(log, k, i) : e.response = Remote(version))
=============================================================================
