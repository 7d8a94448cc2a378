---------------------------- MODULE AuthSession ----------------------------
(***************************************************************************)
(* The authentication session of one Client: the cached token, the         *)
(* "SILENT" sentinel that opens the silent-mode circuit breaker, and the   *)
(* background renewer that replaces the token ahead of its expiration.     *)
(*                                                                         *)
(* Three kinds of goroutine touch the session:                             *)
(*   - evaluations (IsOn and friends in remote mode), which read the       *)
(*     session, obtain a token, call /criteria and fall back to the local  *)
(*     snapshot when that fails;                                           *)
(*   - calls (Prepare, CheckSwitchers, CheckSnapshot), which only obtain a *)
(*     token and use it;                                                   *)
(*   - timer callbacks of the renewer.                                     *)
(*                                                                         *)
(* A step is what the code does under one lock, or one network call: every *)
(* unlock and every network call is a point where the others may run.      *)
(*                                                                         *)
(* Abstractions.  A token is "real", never a string.  An expiration is     *)
(* compared only with the current time, so authLive stands for             *)
(* ~tokenExpired(authTokenExp), and Expire is the passing of time.  The    *)
(* expiration a server sends may already be over when it is stored.        *)
(* Local mode without the Remote() override never reaches the session and  *)
(* is not modelled here.                                                   *)
(***************************************************************************)
EXTENDS Naturals

CONSTANTS
    Caller,         \* the foreground goroutines that share the client
    Operation,      \* what they do: a subset of {"evaluate", "call"}
    SilentMode,     \* Options.SilentMode > 0
    AutoRenewToken, \* Options.Remote.AutoRenewToken
    MaxGeneration   \* bound: no operation starts, and no timer fires, beyond it

ASSUME OptionsAssumption ==
    /\ Operation \subseteq {"evaluate", "call"}
    /\ SilentMode \in BOOLEAN
    /\ AutoRenewToken \in BOOLEAN
    /\ MaxGeneration \in Nat

VARIABLES
    authToken,   \* Client.authToken
    authLive,    \* Client.authTokenExp has not passed
    generation,  \* tokenAutoRenewer.generation
    timer,       \* the generation of tokenAutoRenewer.timer; 0 when it is nil
    callbacks,   \* the timer callbacks that are pending or running
    pc,          \* where each caller is
    op,          \* what each caller is doing
    held,        \* the token each caller has in a local variable
    apiUp,       \* the remote API is reachable
    discarded    \* BuildContext has replaced this client

session == <<authToken, authLive>>
renewer == <<generation, timer, callbacks>>
env     == <<apiUp, discarded>>
vars    == <<authToken, authLive, generation, timer, callbacks,
             pc, op, held, apiUp, discarded>>

None   == "none"      \* the empty string
Silent == "silent"    \* silentModeAuthToken
Real   == "real"      \* a token issued by /criteria/auth
Token  == {None, Silent, Real}

CallerLabel == {"idle", "authState", "rearmStop", "rearmStamp", "probe",
                "clear", "ensure", "auth", "store", "schedule", "request",
                "fallback", "fallbackStamp", "local"}

RenewLabel == {"armed", "fired", "auth", "check", "store", "schedule", "stop"}

Callback == [gen : Nat \ {0}, pc : RenewLabel, token : {None, Real}]

TypeOK ==
    /\ authToken \in Token
    /\ authLive \in BOOLEAN
    /\ generation \in Nat
    /\ timer \in Nat
    /\ callbacks \subseteq Callback
    /\ pc \in [Caller -> CallerLabel]
    /\ op \in [Caller -> {"evaluate", "call"}]
    /\ held \in [Caller -> Token]
    /\ apiUp \in BOOLEAN
    /\ discarded \in BOOLEAN

Init ==
    /\ authToken = None
    /\ authLive = FALSE
    /\ generation = 0
    /\ timer = 0
    /\ callbacks = {}
    /\ pc = [c \in Caller |-> "idle"]
    /\ op = [c \in Caller |-> "call"]
    /\ held = [c \in Caller |-> None]
    /\ apiUp = TRUE
    /\ discarded = FALSE

-----------------------------------------------------------------------------
(* Helpers. *)

Goto(c, from, to) ==
    /\ pc[c] = from
    /\ pc' = [pc EXCEPT ![c] = to]

\* A caller returns to the application.
Return(c) ==
    /\ pc' = [pc EXCEPT ![c] = "idle"]
    /\ held' = [held EXCEPT ![c] = None]

\* time.Timer.Stop on tokenAutoRenewer.timer, after it is replaced or removed.
\* The code calls Stop just after releasing the renewer's lock; a callback
\* that starts in between finds a newer generation, exactly like one that had
\* started just before, so the two are one step.
WithoutTimer(cbs) == {k \in cbs : ~(k.pc = "armed" /\ k.gen = timer)}

\* The counter is read by callbacks only, and there are none when the option
\* is off: it is left alone then.
NextGeneration == IF AutoRenewToken THEN generation + 1 ELSE generation

\* tokenAutoRenewer.stop
StopRenewer(cbs) ==
    /\ generation' = NextGeneration
    /\ timer' = 0
    /\ callbacks' = WithoutTimer(cbs)

\* Faulty: the previous timer is not stopped.
ScheduleRenewalLeak(cbs) ==
    /\ generation' = generation + 1
    /\ timer' = generation + 1
    /\ callbacks' = cbs
          \cup {[gen |-> generation + 1, pc |-> "armed", token |-> None]}

\* tokenAutoRenewer.schedule
ScheduleRenewal(cbs) ==
    /\ generation' = generation + 1
    /\ timer' = generation + 1
    /\ callbacks' = WithoutTimer(cbs)
          \cup {[gen |-> generation + 1, pc |-> "armed", token |-> None]}

\* The outcomes of authenticate(): an error, a response without a token, or a
\* token.
AuthError == "error"
AuthOutcome == IF apiUp THEN {AuthError, None, Real} ELSE {AuthError}

\* A response's expiration is any number, and time passes before it is stored.
StoreToken(token) ==
    /\ authToken' = token
    /\ authLive' \in BOOLEAN

\* The second half of updateSilentToken, under authMu.
StampSilent ==
    /\ authToken' = Silent
    /\ authLive' = TRUE

\* Faulty: a failure is retried at once.
OnFailureRetry(c) ==
    /\ pc' = [pc EXCEPT ![c] = "ensure"]
    /\ held' = [held EXCEPT ![c] = None]
    /\ UNCHANGED op

\* Where a remote failure leads: an evaluation falls back when silent mode is
\* configured, everything else returns the error.
OnFailure(c) ==
    /\ pc' = [pc EXCEPT ![c] = IF op[c] = "evaluate" /\ SilentMode
                               THEN "fallback" ELSE "idle"]
    /\ held' = [held EXCEPT ![c] = None]
    /\ UNCHANGED op

-----------------------------------------------------------------------------
(* The foreground: evaluations and calls. *)

\* An evaluation first asks whether it must be answered locally, when silent
\* mode is configured; a call goes straight to ensureToken.
Begin(c, o) ==
    /\ generation < MaxGeneration
    /\ Goto(c, "idle", IF o = "evaluate" /\ SilentMode
                       THEN "authState" ELSE "ensure")
    /\ op' = [op EXCEPT ![c] = o]
    /\ UNCHANGED <<session, renewer, held, env>>

\* Faulty: the retry time is not waited for.
ReadAuthStateEager(c) ==
    /\ \/ authToken # Silent /\ Goto(c, "authState", "ensure")
       \/ authToken = Silent /\ Goto(c, "authState", "rearmStop")
    /\ UNCHANGED <<session, renewer, op, held, env>>

\* shouldUseLocalSilentMode up to the probe: what authState() returned decides.
ReadAuthState(c) ==
    /\ \/ authToken # Silent              /\ Goto(c, "authState", "ensure")
       \/ authToken = Silent /\ authLive  /\ Goto(c, "authState", "local")
       \/ authToken = Silent /\ ~authLive /\ Goto(c, "authState", "rearmStop")
    /\ UNCHANGED <<session, renewer, op, held, env>>

\* updateSilentToken() before the probe: stop the renewer, then stamp.
RearmStop(c) ==
    /\ Goto(c, "rearmStop", "rearmStamp")
    /\ StopRenewer(callbacks)
    /\ UNCHANGED <<session, op, held, env>>

RearmStamp(c) ==
    /\ Goto(c, "rearmStamp", "probe")
    /\ StampSilent
    /\ UNCHANGED <<renewer, op, held, env>>

\* Faulty: a healthy answer does not close the breaker.
ProbeHealthIgnored(c) ==
    /\ Goto(c, "probe", "local")
    /\ UNCHANGED <<session, renewer, op, held, env>>

\* checkAPIHealth()
ProbeHealth(c) ==
    /\ \/ apiUp  /\ Goto(c, "probe", "clear")
       \/ ~apiUp /\ Goto(c, "probe", "local")
    /\ UNCHANGED <<session, renewer, op, held, env>>

\* clearSilentToken()
ClearSilentToken(c) ==
    /\ Goto(c, "clear", "ensure")
    /\ authToken' = None
    /\ authLive' = FALSE
    /\ UNCHANGED <<renewer, op, held, env>>

\* Faulty: the sentinel passes for a cached token.
EnsureTokenSentinel(c) ==
    /\ \/ /\ authToken # None /\ authLive
          /\ Goto(c, "ensure", "request")
          /\ held' = [held EXCEPT ![c] = authToken]
       \/ /\ authToken = None \/ ~authLive
          /\ Goto(c, "ensure", "auth")
          /\ UNCHANGED held
    /\ UNCHANGED <<session, renewer, op, env>>

\* ensureToken(), first critical section: reuse the cached token or not.
EnsureToken(c) ==
    /\ \/ /\ authToken \notin {None, Silent} /\ authLive
          /\ Goto(c, "ensure", "request")
          /\ held' = [held EXCEPT ![c] = authToken]
       \/ /\ authToken \in {None, Silent} \/ ~authLive
          /\ Goto(c, "ensure", "auth")
          /\ UNCHANGED held
    /\ UNCHANGED <<session, renewer, op, env>>

\* ensureToken() outside the lock: authenticate().
Authenticate(c) ==
    /\ pc[c] = "auth"
    /\ \E outcome \in AuthOutcome :
          \/ outcome = AuthError /\ OnFailure(c)
          \/ /\ outcome # AuthError
             /\ Goto(c, "auth", "store")
             /\ held' = [held EXCEPT ![c] = outcome]
             /\ UNCHANGED op
    /\ UNCHANGED <<session, renewer, env>>

\* ensureToken(), second critical section.  A response without a token is
\* stored like any other, and then reported by missingTokenError.
StoreAuth(c) ==
    /\ pc[c] = "store"
    /\ StoreToken(held[c])
    /\ \/ held[c] = None /\ OnFailure(c)
       \/ /\ held[c] # None
          /\ Goto(c, "store", IF AutoRenewToken THEN "schedule" ELSE "request")
          /\ UNCHANGED <<op, held>>
    /\ UNCHANGED <<renewer, env>>

\* ensureToken(): the first renewal is scheduled by the foreground.
ScheduleFirst(c) ==
    /\ Goto(c, "schedule", "request")
    /\ ScheduleRenewal(callbacks)
    /\ UNCHANGED <<session, op, held, env>>

\* The request the token was wanted for: /criteria for an evaluation, the
\* endpoint of the call otherwise (Prepare wants none, and returns).
Request(c) ==
    /\ pc[c] = "request"
    /\ \/ apiUp /\ Return(c) /\ UNCHANGED op
       \/ OnFailure(c)
    /\ UNCHANGED <<session, renewer, env>>

\* fallbackToSilentMode: updateSilentToken() again, then the local snapshot.
FallbackStop(c) ==
    /\ Goto(c, "fallback", "fallbackStamp")
    /\ StopRenewer(callbacks)
    /\ UNCHANGED <<session, op, held, env>>

FallbackStamp(c) ==
    /\ Goto(c, "fallbackStamp", "local")
    /\ StampSilent
    /\ UNCHANGED <<renewer, op, held, env>>

\* checkLocalCriteria on the snapshot in memory.
AnswerLocally(c) ==
    /\ pc[c] = "local"
    /\ Return(c)
    /\ UNCHANGED <<session, renewer, op, env>>

Proceed(c) ==
    \/ ReadAuthState(c)    \/ RearmStop(c)     \/ RearmStamp(c)
    \/ ProbeHealth(c)      \/ ClearSilentToken(c)
    \/ EnsureToken(c)      \/ Authenticate(c)  \/ StoreAuth(c)
    \/ ScheduleFirst(c)    \/ Request(c)
    \/ FallbackStop(c)     \/ FallbackStamp(c) \/ AnswerLocally(c)

-----------------------------------------------------------------------------
(* The background: one callback per scheduled renewal. *)

Move(k, to) ==
    callbacks' = (callbacks \ {k}) \cup {[k EXCEPT !.pc = to]}

Drop(k) == callbacks' = callbacks \ {k}

\* The timer fires and the runtime starts the callback's goroutine.
Fire(k) ==
    /\ k.pc = "armed"
    /\ generation < MaxGeneration
    /\ Move(k, "fired")
    /\ UNCHANGED <<session, generation, timer, pc, op, held, env>>

\* renew: the first generation check.
RenewBegin(k) ==
    /\ k.pc = "fired"
    /\ \/ k.gen = generation /\ Move(k, "auth")
       \/ k.gen # generation /\ Drop(k)
    /\ UNCHANGED <<session, generation, timer, pc, op, held, env>>

\* Faulty: the error of authenticate() is not looked at.
RenewAuthUnchecked(k) ==
    /\ k.pc = "auth"
    /\ \E outcome \in AuthOutcome :
          callbacks' = (callbacks \ {k}) \cup
             {[k EXCEPT !.pc = "check", !.token = outcome]}
    /\ UNCHANGED <<session, generation, timer, pc, op, held, env>>

\* renew: authenticate().  An error and an empty token are treated alike.
RenewAuth(k) ==
    /\ k.pc = "auth"
    /\ \E outcome \in AuthOutcome :
          callbacks' = (callbacks \ {k}) \cup
             {[k EXCEPT !.pc = "check",
                        !.token = IF outcome = AuthError THEN None ELSE outcome]}
    /\ UNCHANGED <<session, generation, timer, pc, op, held, env>>

\* renew: the second generation check, and the choice between stop and store.
RenewCheck(k) ==
    /\ k.pc = "check"
    /\ \/ k.gen # generation /\ Drop(k)
       \/ k.gen = generation /\ k.token = None /\ Move(k, "stop")
       \/ k.gen = generation /\ k.token # None /\ Move(k, "store")
    /\ UNCHANGED <<session, generation, timer, pc, op, held, env>>

\* renew: the token is stored under authMu.
RenewStore(k) ==
    /\ k.pc = "store"
    /\ StoreToken(k.token)
    /\ Move(k, "schedule")
    /\ UNCHANGED <<generation, timer, pc, op, held, env>>

\* renew: the next renewal is scheduled and the callback ends.
RenewSchedule(k) ==
    /\ k.pc = "schedule"
    /\ ScheduleRenewal(callbacks \ {k})
    /\ UNCHANGED <<session, pc, op, held, env>>

\* renew: a failed renewal stops the renewer and the callback ends.
RenewStop(k) ==
    /\ k.pc = "stop"
    /\ StopRenewer(callbacks \ {k})
    /\ UNCHANGED <<session, pc, op, held, env>>

Renew(k) ==
    \/ RenewBegin(k)    \/ RenewAuth(k)     \/ RenewCheck(k)
    \/ RenewStore(k)    \/ RenewSchedule(k) \/ RenewStop(k)

-----------------------------------------------------------------------------
(* The environment. *)

\* Time passes the cached token's expiration, or the end of the silent window.
Expire ==
    /\ authLive
    /\ authLive' = FALSE
    /\ UNCHANGED <<authToken, renewer, pc, op, held, env>>

\* The API becomes unreachable, or reachable again.
FlipApi ==
    /\ apiUp' = ~apiUp
    /\ UNCHANGED <<session, renewer, pc, op, held, discarded>>

\* BuildContext stops the background tasks of the client it replaces.
\* Goroutines that hold the old client go on using it.
Discard ==
    /\ ~discarded
    /\ generation < MaxGeneration
    /\ discarded' = TRUE
    /\ StopRenewer(callbacks)
    /\ UNCHANGED <<session, pc, op, held, apiUp>>

Next ==
    \/ \E c \in Caller : Proceed(c) \/ \E o \in Operation : Begin(c, o)
    \/ \E k \in callbacks : Fire(k) \/ Renew(k)
    \/ Expire
    \/ FlipApi
    \/ Discard

Spec == Init /\ [][Next]_vars

\* A goroutine that is running goes on: the scheduler is fair, the locks are
\* held for a few instructions, and every network call ends because the HTTP
\* client has a timeout.
Fairness ==
    /\ \A c \in Caller : WF_vars(Proceed(c))
    /\ WF_vars(\E k \in callbacks : Renew(k))

FairSpec == Spec /\ Fairness

\* For what needs time to pass and the application to go on evaluating, whatever
\* calls it makes in between.
BusySpec ==
    /\ FairSpec
    /\ WF_vars(Expire)
    /\ \A c \in Caller : SF_vars(\E o \in Operation \cap {"evaluate"} : Begin(c, o))

-----------------------------------------------------------------------------
(* Properties. *)

\* However schedule, stop and the timer interleave, there is one renewal
\* chain: no two callbacks share a generation, so at most one of them can pass
\* the generation checks of renew(), and the only callback still waiting for
\* its time is that of the current generation and of the timer in r.timer.
OneRenewalChain ==
    /\ \A k \in callbacks : k.gen <= generation
    /\ \A k, l \in callbacks : k.gen = l.gen => k = l
    /\ \A k \in callbacks : k.pc = "armed" => k.gen = generation /\ k.gen = timer

\* The token a request carries was issued by the API: whatever other
\* goroutines store in the meantime, neither the SILENT sentinel nor the empty
\* token of a failed authentication reaches the Authorization header.
NoSentinelOnWire ==
    \A c \in Caller : pc[c] = "request" => held[c] = Real

\* Every evaluation and every call comes back to the application, whatever
\* the API does and whatever else uses the session.
OperationsComplete ==
    \A c \in Caller : pc[c] # "idle" ~> pc[c] = "idle"

\* Silent mode is not for ever: once the API stays reachable, time passes and
\* the application goes on evaluating, the client leaves silent mode.
SilentModeEnds ==
    <>[]apiUp => []<>(authToken # Silent)

\* However many goroutines evaluate and call, without background renewals the
\* session is the circuit breaker of silent mode: it opens for a failed
\* evaluation only, evaluations leave the API alone until the retry time is over,
\* and only an answer of the API closes it.
BreakerState == IF authToken = Silent THEN "open" ELSE "closed"

BreakerPhase(c) ==
    CASE pc[c] \in {"idle", "authState", "local"}            -> "away"
      [] pc[c] \in {"rearmStop", "rearmStamp", "probe"}      -> "probing"
      [] pc[c] \in {"clear", "store"}                        -> "answered"
      [] pc[c] \in {"fallback", "fallbackStamp"}             -> "failed"
      [] pc[c] \in {"ensure", "auth", "schedule", "request"} ->
            IF op[c] = "call" THEN "bypassing" ELSE "calling"

Breaker == INSTANCE CircuitBreaker
              WITH User <- Caller,
                   state <- BreakerState,
                   elapsed <- authToken = Silent /\ ~authLive,
                   phase <- [c \in Caller |-> BreakerPhase(c)],
                   healthy <- apiUp

ImplementsBreaker == Breaker!BreakerSpec

\* ARCHITECTURE.md:257: stop(), called on entering silent mode, keeps a stale
\* background renewal from clobbering newer state.
RenewalSparesSilentMode ==
    [][\A k \in callbacks : RenewStore(k) => authToken # Silent]_vars
=============================================================================
