------------------------- MODULE AuthSession_proofs -------------------------
(***************************************************************************)
(* Proofs about AuthSession, for every set of callers, every combination   *)
(* of options and every bound.                                             *)
(***************************************************************************)
EXTENDS AuthSession, TLAPS

\* Facts about the helpers that several actions share.

\* Stopping the renewer leaves no pending callback and keeps the chain single.
LEMMA StopRenewerChain ==
    ASSUME TypeOK, OneRenewalChain,
           NEW cbs \in SUBSET callbacks, StopRenewer(cbs)
    PROVE  /\ generation' \in Nat /\ timer' \in Nat /\ callbacks' \subseteq Callback
           /\ OneRenewalChain'
<1>1. generation' \in Nat /\ generation <= generation'
  BY DEF StopRenewer, NextGeneration, TypeOK
<1>2. callbacks' \subseteq {k \in callbacks : k.pc # "armed"}
  BY DEF StopRenewer, WithoutTimer, OneRenewalChain
<1>3. \A k \in callbacks' : k.gen <= generation'
  BY <1>1, <1>2 DEF OneRenewalChain, TypeOK, Callback
<1>4. \A k, l \in callbacks' : k.gen = l.gen => k = l
  BY <1>2 DEF OneRenewalChain
<1>5. timer' \in Nat /\ callbacks' \subseteq Callback
  BY <1>2 DEF StopRenewer, TypeOK
<1> QED BY <1>1, <1>2, <1>3, <1>4, <1>5 DEF OneRenewalChain

\* Scheduling leaves one pending callback, of a generation never used before.
LEMMA ScheduleRenewalChain ==
    ASSUME TypeOK, OneRenewalChain,
           NEW cbs \in SUBSET callbacks, ScheduleRenewal(cbs)
    PROVE  /\ generation' \in Nat /\ timer' \in Nat /\ callbacks' \subseteq Callback
           /\ OneRenewalChain'
<1> DEFINE new == [gen |-> generation + 1, pc |-> "armed", token |-> None]
<1>1. generation' = generation + 1 /\ timer' = generation + 1 /\ generation \in Nat
  BY DEF ScheduleRenewal, TypeOK
<1>2. new \in Callback /\ new.gen = generation + 1
  BY <1>1 DEF Callback, RenewLabel, None
<1>3. \A k \in callbacks' : k = new \/ (k \in callbacks /\ k.pc # "armed")
  BY DEF ScheduleRenewal, WithoutTimer, OneRenewalChain
<1>4. \A k \in callbacks : k \in Callback /\ k.gen \in Nat /\ k.gen <= generation
  BY DEF OneRenewalChain, TypeOK, Callback
<1>5. callbacks' \subseteq Callback
  BY <1>2, <1>3, <1>4
<1> HIDE DEF new
<1>6. \A k \in callbacks' : k.gen <= generation'
  BY <1>1, <1>2, <1>3, <1>4
<1>7. \A k, l \in callbacks' : k.gen = l.gen => k = l
  BY <1>1, <1>2, <1>3, <1>4 DEF OneRenewalChain
<1>8. \A k \in callbacks' : k.pc = "armed" => k.gen = generation' /\ k.gen = timer'
  BY <1>1, <1>2, <1>3
<1> QED BY <1>1, <1>5, <1>6, <1>7, <1>8 DEF OneRenewalChain

\* A callback that goes on as m, or ends, keeps its generation to itself.
LEMMA MoveChain ==
    ASSUME TypeOK, OneRenewalChain, NEW k \in callbacks,
           NEW m \in Callback, m.gen = k.gen, m.pc # "armed",
           callbacks' \subseteq (callbacks \ {k}) \cup {m},
           UNCHANGED <<generation, timer>>
    PROVE  callbacks' \subseteq Callback /\ OneRenewalChain'
<1>1. \A l \in callbacks' : l = m \/ (l \in callbacks /\ l # k)
  OBVIOUS
<1>2. callbacks' \subseteq Callback
  BY <1>1 DEF TypeOK
<1> QED BY <1>1, <1>2 DEF OneRenewalChain

-----------------------------------------------------------------------------
(* The typing of the session and the single renewal chain are inductive    *)
(* together: the chain needs generations to be numbers, the typing of the  *)
(* callbacks needs nothing more.                                           *)

ChainInv == TypeOK /\ OneRenewalChain

\* The caller's half of an action that leaves the renewer alone.
LEMMA CallerStep ==
    ASSUME TypeOK, NEW c \in Caller, Proceed(c) \/ \E o \in Operation : Begin(c, o)
    PROVE  /\ authToken' \in Token /\ authLive' \in BOOLEAN
           /\ pc' \in [Caller -> CallerLabel]
           /\ op' \in [Caller -> {"evaluate", "call"}]
           /\ held' \in [Caller -> Token]
           /\ UNCHANGED env
<1> USE DEF TypeOK, session, renewer, env, Token, CallerLabel, Goto, Return
<1>1. CASE \E o \in Operation : Begin(c, o)
  BY <1>1, OptionsAssumption DEF Begin
<1>2. CASE ReadAuthState(c)
  BY <1>2 DEF ReadAuthState
<1>3. CASE RearmStop(c)
  BY <1>3 DEF RearmStop
<1>4. CASE RearmStamp(c)
  BY <1>4 DEF RearmStamp, StampSilent
<1>5. CASE ProbeHealth(c)
  BY <1>5 DEF ProbeHealth
<1>6. CASE ClearSilentToken(c)
  BY <1>6 DEF ClearSilentToken
<1>7. CASE EnsureToken(c)
  BY <1>7 DEF EnsureToken
<1>8. CASE Authenticate(c)
  BY <1>8 DEF Authenticate, AuthOutcome, AuthError, OnFailure, None, Real
<1>9. CASE StoreAuth(c)
  BY <1>9 DEF StoreAuth, StoreToken, OnFailure, None
<1>10. CASE ScheduleFirst(c)
  BY <1>10 DEF ScheduleFirst
<1>11. CASE Request(c)
  BY <1>11 DEF Request, OnFailure, None
<1>12. CASE FallbackStop(c)
  BY <1>12 DEF FallbackStop
<1>13. CASE FallbackStamp(c)
  BY <1>13 DEF FallbackStamp, StampSilent
<1>14. CASE AnswerLocally(c)
  BY <1>14 DEF AnswerLocally, None
<1> QED
  BY <1>1, <1>2, <1>3, <1>4, <1>5, <1>6, <1>7, <1>8, <1>9, <1>10, <1>11,
     <1>12, <1>13, <1>14 DEF Proceed

\* The renewer's half of the same actions: they leave it alone, or stop it, or
\* schedule on it.
LEMMA CallerChain ==
    ASSUME ChainInv, NEW c \in Caller, Proceed(c) \/ \E o \in Operation : Begin(c, o)
    PROVE  /\ generation' \in Nat /\ timer' \in Nat /\ callbacks' \subseteq Callback
           /\ OneRenewalChain'
<1> USE DEF ChainInv
<1>1. CASE UNCHANGED renewer
  BY <1>1 DEF renewer, TypeOK, OneRenewalChain
<1>2. CASE StopRenewer(callbacks)
  BY <1>2, StopRenewerChain
<1>3. CASE ScheduleRenewal(callbacks)
  BY <1>3, ScheduleRenewalChain
<1>4. UNCHANGED renewer \/ StopRenewer(callbacks) \/ ScheduleRenewal(callbacks)
  BY DEF Proceed, Begin, ReadAuthState, RearmStop, RearmStamp, ProbeHealth,
         ClearSilentToken, EnsureToken, Authenticate, StoreAuth, ScheduleFirst,
         Request, FallbackStop, FallbackStamp, AnswerLocally
<1> QED BY <1>1, <1>2, <1>3, <1>4

\* A step of a timer callback.
LEMMA CallbackStep ==
    ASSUME ChainInv, NEW k \in callbacks, Fire(k) \/ Renew(k)
    PROVE  ChainInv'
<1> USE DEF ChainInv
<1>1. k \in Callback
  BY DEF TypeOK
<1>2. UNCHANGED <<pc, op, held, env>>
  BY DEF Fire, Renew, RenewBegin, RenewAuth, RenewCheck, RenewStore,
         RenewSchedule, RenewStop
<1>3. authToken' \in Token /\ authLive' \in BOOLEAN
  BY <1>1 DEF Fire, Renew, RenewBegin, RenewAuth, RenewCheck, RenewStore,
              RenewSchedule, RenewStop, StoreToken, session, Callback, TypeOK, Token
<1>4. /\ generation' \in Nat /\ timer' \in Nat /\ callbacks' \subseteq Callback
      /\ OneRenewalChain'
  <2>1. \A to \in RenewLabel \ {"armed"} :
           Move(k, to) /\ UNCHANGED <<generation, timer>>
           => callbacks' \subseteq Callback /\ OneRenewalChain'
    <3> SUFFICES ASSUME NEW to \in RenewLabel \ {"armed"},
                        Move(k, to), UNCHANGED <<generation, timer>>
                 PROVE  callbacks' \subseteq Callback /\ OneRenewalChain'
      OBVIOUS
    <3> DEFINE m == [k EXCEPT !.pc = to]
    <3>1. m \in Callback /\ m.gen = k.gen /\ m.pc # "armed"
      BY <1>1 DEF Callback
    <3>2. callbacks' \subseteq (callbacks \ {k}) \cup {m}
      BY DEF Move
    <3> HIDE DEF m
    <3> QED BY <3>1, <3>2, MoveChain
  <2>2. Drop(k) /\ UNCHANGED <<generation, timer>>
        => callbacks' \subseteq Callback /\ OneRenewalChain'
    BY DEF Drop, TypeOK, OneRenewalChain
  <2>3. CASE Fire(k)
    BY <2>1, <2>3 DEF Fire, RenewLabel, TypeOK
  <2>4. CASE RenewBegin(k)
    BY <2>1, <2>2, <2>4 DEF RenewBegin, RenewLabel, TypeOK
  <2>5. CASE RenewAuth(k)
    <3>1. PICK token \in {None, Real} :
             callbacks' = (callbacks \ {k})
                          \cup {[k EXCEPT !.pc = "check", !.token = token]}
      BY <2>5 DEF RenewAuth, AuthOutcome, AuthError, None, Real
    <3> DEFINE m == [k EXCEPT !.pc = "check", !.token = token]
    <3>2. m \in Callback /\ m.gen = k.gen /\ m.pc # "armed"
      BY <1>1 DEF Callback, RenewLabel
    <3>3. callbacks' \subseteq (callbacks \ {k}) \cup {m}
      BY <3>1
    <3> HIDE DEF m
    <3> QED BY <3>2, <3>3, <2>5, MoveChain DEF RenewAuth, TypeOK
  <2>6. CASE RenewCheck(k)
    BY <2>1, <2>2, <2>6 DEF RenewCheck, RenewLabel, TypeOK
  <2>7. CASE RenewStore(k)
    BY <2>1, <2>7 DEF RenewStore, RenewLabel, TypeOK
  <2>8. CASE RenewSchedule(k)
    BY <2>8, ScheduleRenewalChain DEF RenewSchedule
  <2>9. CASE RenewStop(k)
    BY <2>9, StopRenewerChain DEF RenewStop
  <2> QED BY <2>3, <2>4, <2>5, <2>6, <2>7, <2>8, <2>9 DEF Renew
<1> QED BY <1>2, <1>3, <1>4 DEF TypeOK, env

\* A step of the environment.
LEMMA EnvironmentStep ==
    ASSUME ChainInv, Expire \/ FlipApi \/ Discard
    PROVE  ChainInv'
<1> USE DEF ChainInv
<1>1. CASE Expire
  BY <1>1 DEF Expire, renewer, env, TypeOK, OneRenewalChain
<1>2. CASE FlipApi
  BY <1>2 DEF FlipApi, session, renewer, TypeOK, OneRenewalChain
<1>3. CASE Discard
  BY <1>3, StopRenewerChain DEF Discard, session, TypeOK
<1> QED BY <1>1, <1>2, <1>3

LEMMA ChainInductive ==
    ASSUME ChainInv, [Next]_vars
    PROVE  ChainInv'
<1>1. CASE \E c \in Caller : Proceed(c) \/ \E o \in Operation : Begin(c, o)
  BY <1>1, CallerStep, CallerChain DEF ChainInv, TypeOK, env
<1>2. CASE \E k \in callbacks : Fire(k) \/ Renew(k)
  BY <1>2, CallbackStep
<1>3. CASE Expire \/ FlipApi \/ Discard
  BY <1>3, EnvironmentStep
<1>4. CASE UNCHANGED vars
  BY <1>4 DEF ChainInv, TypeOK, OneRenewalChain, vars
<1> QED BY <1>1, <1>2, <1>3, <1>4 DEF Next

\* One renewal chain, with the types it rests on, whatever callers, timers and
\* the environment do.
THEOREM ChainInvariant == Spec => []ChainInv
<1>1. Init => ChainInv
  <2> SUFFICES ASSUME Init PROVE TypeOK /\ OneRenewalChain
    BY DEF ChainInv
  <2>1. TypeOK
    BY DEF Init, TypeOK, Token, CallerLabel
  <2>2. OneRenewalChain
    BY DEF Init, OneRenewalChain
  <2> QED BY <2>1, <2>2
<1>2. ChainInv /\ [Next]_vars => ChainInv'
  BY ChainInductive
<1> QED BY <1>1, <1>2, PTL DEF Spec

\* The state of the session keeps its types.
THEOREM TypeCorrect == Spec => []TypeOK
<1>1. ChainInv => TypeOK
  BY DEF ChainInv
<1> QED BY <1>1, ChainInvariant, PTL

\* Whatever the callers and the timers do, there is one renewal chain: no
\* timer outlives its replacement, and no two renewals share a generation.
THEOREM SingleChain == Spec => []OneRenewalChain
<1>1. ChainInv => OneRenewalChain
  BY DEF ChainInv
<1> QED BY <1>1, ChainInvariant, PTL

-----------------------------------------------------------------------------
(* The sentinel never reaches the wire.  A token is checked when it is      *)
(* picked up, and used steps later: what has to be carried through is what  *)
(* each caller holds while the others change the session.                  *)

TokenInHand ==
    \A c \in Caller :
        /\ pc[c] = "store" => held[c] \in {None, Real}
        /\ pc[c] \in {"schedule", "request"} => held[c] = Real

LEMMA TokenInHandInductive ==
    ASSUME TypeOK, TokenInHand, [Next]_vars
    PROVE  TokenInHand'
<1> USE DEF TokenInHand, TypeOK, Goto, Return
<1>1. ASSUME NEW c \in Caller, Proceed(c) \/ \E o \in Operation : Begin(c, o)
      PROVE  TokenInHand'
  <2>1. CASE \E o \in Operation : Begin(c, o)
    BY <2>1 DEF Begin
  <2>2. CASE ReadAuthState(c) \/ RearmStop(c) \/ RearmStamp(c) \/ ProbeHealth(c)
             \/ ClearSilentToken(c) \/ FallbackStop(c) \/ FallbackStamp(c)
    BY <2>2 DEF ReadAuthState, RearmStop, RearmStamp, ProbeHealth,
                ClearSilentToken, FallbackStop, FallbackStamp
  <2>3. CASE EnsureToken(c)
    BY <2>3 DEF EnsureToken, Token
  <2>4. CASE Authenticate(c)
    BY <2>4 DEF Authenticate, AuthOutcome, OnFailure
  <2>5. CASE StoreAuth(c)
    BY <2>5 DEF StoreAuth, OnFailure
  <2>6. CASE ScheduleFirst(c)
    BY <2>6 DEF ScheduleFirst
  <2>7. CASE Request(c)
    BY <2>7 DEF Request, OnFailure
  <2>8. CASE AnswerLocally(c)
    BY <2>8 DEF AnswerLocally
  <2> QED
    BY <1>1, <2>1, <2>2, <2>3, <2>4, <2>5, <2>6, <2>7, <2>8 DEF Proceed
<1>2. CASE \E k \in callbacks : Fire(k) \/ Renew(k)
  BY <1>2 DEF Fire, Renew, RenewBegin, RenewAuth, RenewCheck, RenewStore,
              RenewSchedule, RenewStop
<1>3. CASE Expire \/ FlipApi \/ Discard
  BY <1>3 DEF Expire, FlipApi, Discard
<1>4. CASE UNCHANGED vars
  BY <1>4 DEF vars
<1> QED BY <1>1, <1>2, <1>3, <1>4 DEF Next

\* Whatever the other goroutines store while a caller is on its way from the
\* cached token to the request, the request carries a token of the API.
THEOREM SentinelStaysHome == Spec => []NoSentinelOnWire
<1>1. Init => TokenInHand
  BY DEF Init, TokenInHand
<1>2. TypeOK /\ TokenInHand /\ [Next]_vars => TokenInHand'
  BY TokenInHandInductive
<1>3. TokenInHand => NoSentinelOnWire
  BY DEF TokenInHand, NoSentinelOnWire
<1> QED BY <1>1, <1>2, <1>3, TypeCorrect, PTL DEF Spec

-----------------------------------------------------------------------------
(* Without background renewals, silent mode is a circuit breaker, however   *)
(* many goroutines share the session.                                      *)

BreakerOptions == SilentMode /\ ~AutoRenewToken

NoRenewals ==
    /\ callbacks = {}
    /\ \A c \in Caller : pc[c] # "schedule"

\* Nothing schedules a renewal when the option is off.
LEMMA NoRenewalsInductive ==
    ASSUME BreakerOptions, TypeOK, NoRenewals, [Next]_vars
    PROVE  NoRenewals'
<1> USE DEF BreakerOptions, TypeOK, NoRenewals, Goto, Return, session, renewer
<1>1. ASSUME NEW c \in Caller, Proceed(c) \/ \E o \in Operation : Begin(c, o)
      PROVE  NoRenewals'
  <2>1. CASE \E o \in Operation : Begin(c, o)
    BY <2>1 DEF Begin
  <2>2. CASE ReadAuthState(c) \/ RearmStamp(c) \/ ProbeHealth(c)
             \/ ClearSilentToken(c) \/ EnsureToken(c) \/ FallbackStamp(c)
    BY <2>2 DEF ReadAuthState, RearmStamp, ProbeHealth, ClearSilentToken,
                EnsureToken, FallbackStamp
  <2>3. CASE RearmStop(c) \/ FallbackStop(c)
    BY <2>3 DEF RearmStop, FallbackStop, StopRenewer, WithoutTimer
  <2>4. CASE Authenticate(c) \/ StoreAuth(c) \/ Request(c)
    BY <2>4 DEF Authenticate, StoreAuth, Request, OnFailure
  <2>5. CASE ScheduleFirst(c) \/ AnswerLocally(c)
    BY <2>5 DEF ScheduleFirst, AnswerLocally
  <2> QED BY <1>1, <2>1, <2>2, <2>3, <2>4, <2>5 DEF Proceed
<1>2. CASE Expire \/ FlipApi \/ Discard
  BY <1>2 DEF Expire, FlipApi, Discard, StopRenewer, WithoutTimer
<1>3. CASE UNCHANGED vars
  BY <1>3 DEF vars
<1> QED BY <1>1, <1>2, <1>3 DEF Next

\* The phases of all callers.
BreakerPhases == [c \in Caller |-> BreakerPhase(c)]

\* When one caller moves, the phases of the others are what they were.
LEMMA PhasesMove ==
    ASSUME TypeOK, TypeOK', NEW c \in Caller, UNCHANGED apiUp,
           \A d \in Caller \ {c} : pc'[d] = pc[d] /\ op'[d] = op[d]
    PROVE  /\ BreakerPhases' = [BreakerPhases EXCEPT ![c] = BreakerPhase(c)']
           /\ \A from : BreakerPhases[c] \in from =>
                 Breaker!Move(c, from, BreakerPhase(c)')
<1> DEFINE P == [d \in Caller |-> BreakerPhase(d)]
<1>1. \A d \in Caller \ {c} : BreakerPhase(d)' = BreakerPhase(d)
  BY DEF BreakerPhase
<1>2. P' = [P EXCEPT ![c] = BreakerPhase(c)']
  BY <1>1
<1>3. \A from : P[c] \in from => Breaker!Move(c, from, BreakerPhase(c)')
  BY <1>2 DEF Breaker!Move
<1> QED BY <1>2, <1>3 DEF BreakerPhases

\* A step of a caller is a step of that user of the breaker.
LEMMA CallerIsAUser ==
    ASSUME BreakerOptions, TypeOK, TypeOK', TokenInHand, NoRenewals,
           NEW c \in Caller, Proceed(c) \/ \E o \in Operation : Begin(c, o)
    PROVE  [Breaker!BreakerNext]_(Breaker!bvars)
<1> DEFINE elapsed == authToken = Silent /\ ~authLive
<1>a. /\ pc \in [Caller -> CallerLabel] /\ pc' \in [Caller -> CallerLabel]
      /\ op \in [Caller -> {"evaluate", "call"}]
      /\ UNCHANGED apiUp
  BY CallerStep DEF TypeOK, env
<1>b. \A d \in Caller \ {c} : pc'[d] = pc[d] /\ op'[d] = op[d]
  BY <1>a DEF Proceed, Begin, ReadAuthState, RearmStop, RearmStamp, ProbeHealth,
         ClearSilentToken, EnsureToken, Authenticate, StoreAuth, ScheduleFirst,
         Request, FallbackStop, FallbackStamp, AnswerLocally, OnFailure, Goto, Return,
         TypeOK
<1>c. /\ BreakerPhases' = [BreakerPhases EXCEPT ![c] = BreakerPhase(c)']
      /\ \A from : BreakerPhases[c] \in from =>
            Breaker!Move(c, from, BreakerPhase(c)')
  BY <1>a, <1>b, PhasesMove
<1>d. BreakerPhases[c] = BreakerPhase(c)
  BY DEF BreakerPhases
<1>e. ASSUME BreakerPhase(c)' = BreakerPhase(c),
             UNCHANGED <<BreakerState, elapsed>>
      PROVE  UNCHANGED Breaker!bvars
  <2>1. BreakerPhases' = BreakerPhases
    BY <1>c, <1>d, <1>e DEF BreakerPhases
  <2> QED BY <2>1, <1>a, <1>e DEF Breaker!bvars, BreakerPhases
<1> HIDE DEF elapsed
<1>f. ASSUME UNCHANGED session PROVE UNCHANGED <<BreakerState, elapsed>>
  BY <1>f DEF session, BreakerState, elapsed
<1> USE DEF BreakerOptions, Goto, Return, None, Silent, Real
<1>1. CASE \E o \in Operation : Begin(c, o)
  <2>1. UNCHANGED session /\ pc[c] = "idle" /\ pc'[c] \in {"authState", "ensure"}
        /\ (pc'[c] = "ensure" => op'[c] = "call")
    BY <1>1, <1>a, OptionsAssumption DEF Begin, TypeOK
  <2>2. BreakerPhase(c) = "away" /\ BreakerPhase(c)' \in {"away", "bypassing"}
    BY <2>1 DEF BreakerPhase
  <2>3. CASE BreakerPhase(c)' = "away"
    BY <2>1, <2>2, <2>3, <1>e, <1>f
  <2>4. CASE BreakerPhase(c)' = "bypassing"
    <3>1. Breaker!Bypass(c)
      BY <2>1, <2>2, <2>4, <1>c, <1>d, <1>f DEF Breaker!Bypass, elapsed
    <3> QED BY <3>1 DEF Breaker!BreakerNext
  <2> QED BY <2>2, <2>3, <2>4
<1>2. CASE ReadAuthState(c)
  <2>1. UNCHANGED <<session, op>> /\ BreakerPhase(c) = "away"
    BY <1>2 DEF ReadAuthState, BreakerPhase
  <2>2. CASE authToken # Silent
    <3>1. BreakerPhase(c)' \in {"calling", "bypassing"}
      BY <1>2, <1>a, <2>2 DEF ReadAuthState, BreakerPhase
    <3>2. BreakerState = "closed"
      BY <2>2 DEF BreakerState
    <3>3. Breaker!Call(c) \/ Breaker!Bypass(c)
      BY <2>1, <3>1, <3>2, <1>c, <1>d, <1>f
      DEF Breaker!Call, Breaker!Bypass, elapsed
    <3> QED BY <3>3 DEF Breaker!BreakerNext
  <2>3. CASE authToken = Silent /\ authLive
    <3>1. BreakerPhase(c)' = "away"
      BY <1>2, <1>a, <2>3 DEF ReadAuthState, BreakerPhase
    <3> QED BY <3>1, <2>1, <1>e, <1>f
  <2>4. CASE authToken = Silent /\ ~authLive
    <3>1. BreakerPhase(c)' = "probing"
      BY <1>2, <1>a, <2>4 DEF ReadAuthState, BreakerPhase
    <3>2. Breaker!Probe(c)
      BY <2>1, <2>4, <3>1, <1>c, <1>d, <1>f DEF Breaker!Probe, BreakerState, elapsed
    <3> QED BY <3>2 DEF Breaker!BreakerNext
  <2> QED BY <1>2, <2>2, <2>3, <2>4 DEF ReadAuthState
<1>3. CASE RearmStop(c) \/ FallbackStop(c)
  <2>1. UNCHANGED session /\ BreakerPhase(c)' = BreakerPhase(c)
    BY <1>3, <1>a DEF RearmStop, FallbackStop, BreakerPhase
  <2> QED BY <2>1, <1>e, <1>f
<1>4. CASE RearmStamp(c)
  <2>1. BreakerPhase(c) = "probing" /\ BreakerPhase(c)' = "probing"
    BY <1>4, <1>a DEF RearmStamp, BreakerPhase
  <2>2. Breaker!Rearm(c)
    BY <1>4, <2>1, <1>c, <1>d DEF RearmStamp, StampSilent, Breaker!Rearm, BreakerState, elapsed
  <2> QED BY <2>2 DEF Breaker!BreakerNext
<1>5. CASE ProbeHealth(c)
  <2>1. UNCHANGED session /\ BreakerPhase(c) = "probing"
    BY <1>5 DEF ProbeHealth, BreakerPhase
  <2>2. \/ apiUp /\ BreakerPhase(c)' = "answered"
        \/ ~apiUp /\ BreakerPhase(c)' = "away"
    BY <1>5, <1>a DEF ProbeHealth, BreakerPhase
  <2>3. Breaker!Answered(c) \/ Breaker!GiveUp(c)
    BY <2>1, <2>2, <1>c, <1>d, <1>f DEF Breaker!Answered, Breaker!GiveUp, elapsed
  <2> QED BY <2>3 DEF Breaker!BreakerNext
<1>6. CASE ClearSilentToken(c)
  <2>1. BreakerPhase(c) = "answered" /\ BreakerPhase(c)' \in {"calling", "bypassing"}
    BY <1>6, <1>a DEF ClearSilentToken, BreakerPhase
  <2>2. Breaker!Close(c)
    BY <1>6, <2>1, <1>c, <1>d DEF ClearSilentToken, Breaker!Close, BreakerState, elapsed
  <2> QED BY <2>2 DEF Breaker!BreakerNext
<1>7. CASE EnsureToken(c)
  <2>1. UNCHANGED session /\ BreakerPhase(c)' = BreakerPhase(c)
    BY <1>7, <1>a DEF EnsureToken, BreakerPhase
  <2> QED BY <2>1, <1>e, <1>f
<1>8. CASE Authenticate(c)
  <2>1. UNCHANGED <<session, op>> /\ pc[c] = "auth"
    BY <1>8 DEF Authenticate, OnFailure
  <2>2. \/ apiUp /\ pc'[c] = "store"
        \/ OnFailure(c)
    BY <1>8, <1>a DEF Authenticate, AuthOutcome, AuthError
  <2>3. CASE apiUp /\ pc'[c] = "store"
    <3>1. BreakerPhase(c) \in {"calling", "bypassing"} /\ BreakerPhase(c)' = "answered"
      BY <2>1, <2>3 DEF BreakerPhase
    <3>2. Breaker!Answered(c)
      BY <2>1, <2>3, <3>1, <1>c, <1>d, <1>f DEF Breaker!Answered, elapsed
    <3> QED BY <3>2 DEF Breaker!BreakerNext
  <2>4. CASE OnFailure(c)
    <3>1. \/ BreakerPhase(c) = "calling" /\ BreakerPhase(c)' = "failed"
          \/ BreakerPhase(c) = "bypassing" /\ BreakerPhase(c)' = "away"
      BY <2>1, <2>4, <1>a DEF OnFailure, BreakerPhase
    <3>2. Breaker!Fail(c) \/ Breaker!Leave(c)
      BY <2>1, <3>1, <1>c, <1>d, <1>f DEF Breaker!Fail, Breaker!Leave, elapsed
    <3> QED BY <3>2 DEF Breaker!BreakerNext
  <2> QED BY <2>2, <2>3, <2>4
<1>9. CASE StoreAuth(c)
  <2>1. BreakerPhase(c) = "answered"
        /\ BreakerPhase(c)' \in {"calling", "bypassing", "away", "failed"}
    BY <1>9, <1>a DEF StoreAuth, OnFailure, BreakerPhase
  <2>2. authToken' # Silent
    BY <1>9 DEF StoreAuth, StoreToken, TokenInHand
  <2>3. Breaker!Close(c)
    BY <2>1, <2>2, <1>c, <1>d DEF Breaker!Close, BreakerState, elapsed
  <2> QED BY <2>3 DEF Breaker!BreakerNext
<1>10. CASE Request(c)
  <2>1. UNCHANGED <<session, op>> /\ pc[c] = "request"
    BY <1>10 DEF Request, OnFailure
  <2>2. CASE apiUp /\ pc'[c] = "idle"
    <3>1. BreakerPhase(c) \in {"calling", "bypassing"} /\ BreakerPhase(c)' = "away"
      BY <2>1, <2>2 DEF BreakerPhase
    <3>2. Breaker!Leave(c)
      BY <2>1, <2>2, <3>1, <1>c, <1>d, <1>f DEF Breaker!Leave, elapsed
    <3> QED BY <3>2 DEF Breaker!BreakerNext
  <2>3. CASE OnFailure(c)
    <3>1. \/ BreakerPhase(c) = "calling" /\ BreakerPhase(c)' = "failed"
          \/ BreakerPhase(c) = "bypassing" /\ BreakerPhase(c)' = "away"
      BY <2>1, <2>3, <1>a DEF OnFailure, BreakerPhase
    <3>2. Breaker!Fail(c) \/ Breaker!Leave(c)
      BY <2>1, <3>1, <1>c, <1>d, <1>f DEF Breaker!Fail, Breaker!Leave, elapsed
    <3> QED BY <3>2 DEF Breaker!BreakerNext
  <2> QED BY <1>10, <1>a, <2>2, <2>3 DEF Request
<1>11. CASE FallbackStamp(c)
  <2>1. BreakerPhase(c) = "failed" /\ BreakerPhase(c)' = "away"
    BY <1>11, <1>a DEF FallbackStamp, BreakerPhase
  <2>2. Breaker!Trip(c)
    BY <1>11, <2>1, <1>c, <1>d DEF FallbackStamp, StampSilent, Breaker!Trip, BreakerState, elapsed
  <2> QED BY <2>2 DEF Breaker!BreakerNext
<1>12. CASE AnswerLocally(c)
  <2>1. UNCHANGED session /\ BreakerPhase(c)' = BreakerPhase(c)
    BY <1>12, <1>a DEF AnswerLocally, BreakerPhase
  <2> QED BY <2>1, <1>e, <1>f
<1>13. ~ScheduleFirst(c)
  BY DEF ScheduleFirst, NoRenewals
<1> QED
  BY <1>1, <1>2, <1>3, <1>4, <1>5, <1>6, <1>7, <1>8, <1>9, <1>10, <1>11, <1>12, <1>13
  DEF Proceed

LEMMA BreakerStep ==
    ASSUME BreakerOptions, TypeOK, TypeOK', TokenInHand, NoRenewals, [Next]_vars
    PROVE  [Breaker!BreakerNext]_(Breaker!bvars)
<1> USE DEF session, renewer, BreakerState, BreakerPhase
<1>1. CASE \E c \in Caller : Proceed(c) \/ \E o \in Operation : Begin(c, o)
  BY <1>1, CallerIsAUser
<1>2. CASE Expire
  <2>1. UNCHANGED Breaker!bvars \/ Breaker!Elapse
    BY <1>2 DEF Expire, env, Breaker!Elapse, Breaker!bvars
  <2> QED BY <2>1 DEF Breaker!BreakerNext
<1>3. CASE FlipApi
  <2>1. Breaker!Flip
    BY <1>3 DEF FlipApi, Breaker!Flip
  <2> QED BY <2>1 DEF Breaker!BreakerNext
<1>4. CASE Discard \/ UNCHANGED vars
  <2>1. UNCHANGED <<authToken, authLive, pc, op, apiUp>>
    BY <1>4 DEF Discard, vars
  <2> QED BY <2>1 DEF Breaker!bvars
<1> QED BY <1>1, <1>2, <1>3, <1>4 DEF Next, NoRenewals

\* With any number of evaluating and calling goroutines, and no background
\* renewals, the session is a circuit breaker: it opens for a failed evaluation
\* only, is left alone until its retry time is over, and is closed by nothing
\* but an answer of the API.
THEOREM SilentModeIsABreaker ==
    ASSUME BreakerOptions
    PROVE  Spec => ImplementsBreaker
<1>1. Init => NoRenewals /\ TokenInHand
  BY DEF Init, NoRenewals, TokenInHand
<1>2. Init => Breaker!BreakerInit
  BY DEF Init, Breaker!BreakerInit, BreakerState, BreakerPhase, None, Silent
<1>3. TypeOK /\ TokenInHand /\ [Next]_vars => TokenInHand'
  BY TokenInHandInductive
<1>4. TypeOK /\ NoRenewals /\ [Next]_vars => NoRenewals'
  BY NoRenewalsInductive
<1>5. TypeOK /\ TypeOK' /\ TokenInHand /\ NoRenewals /\ [Next]_vars
      => [Breaker!BreakerNext]_(Breaker!bvars)
  BY BreakerStep
<1> QED
  BY <1>1, <1>2, <1>3, <1>4, <1>5, TypeCorrect, PTL
  DEF Spec, ImplementsBreaker, Breaker!BreakerSpec
=============================================================================
