--------------------------- MODULE CircuitBreaker ---------------------------
(***************************************************************************)
(* What silent mode promises: a circuit breaker that several users share.  *)
(*                                                                         *)
(* Closed, evaluations go to the API.  A failure opens it for the retry    *)
(* time, during which evaluations are answered locally.  Once the retry    *)
(* time is over, an evaluation that looks probes the API, and opens the    *)
(* breaker for another retry time while it does.  Only an answer of the    *)
(* API closes the breaker: to a probe, or to an authentication, which the  *)
(* users that bypass the breaker go on asking for.                         *)
(***************************************************************************)
CONSTANT User

VARIABLES
    state,   \* "closed" or "open"
    elapsed, \* the retry time of an open breaker is over
    phase,   \* what each user is doing about the API
    healthy  \* the API answers

bvars == <<state, elapsed, phase, healthy>>

BreakerInit ==
    /\ state = "closed"
    /\ elapsed = FALSE
    /\ phase = [u \in User |-> "away"]
    /\ healthy \in BOOLEAN

Move(u, from, to) ==
    /\ phase[u] \in from
    /\ phase' = [phase EXCEPT ![u] = to]
    /\ UNCHANGED healthy

\* An evaluation finds the breaker closed and goes to the API.
Call(u) ==
    /\ state = "closed"
    /\ Move(u, {"away"}, "calling")
    /\ UNCHANGED <<state, elapsed>>

\* A call that no snapshot could answer goes to the API whatever the breaker is.
Bypass(u) ==
    /\ Move(u, {"away"}, "bypassing")
    /\ UNCHANGED <<state, elapsed>>

\* The user is done with the API: an evaluation only when it has its answer.
Leave(u) ==
    /\ \/ healthy /\ Move(u, {"calling"}, "away")
       \/ Move(u, {"bypassing"}, "away")
    /\ UNCHANGED <<state, elapsed>>

\* The API fails an evaluation.
Fail(u) ==
    /\ Move(u, {"calling"}, "failed")
    /\ UNCHANGED <<state, elapsed>>

\* A failed evaluation opens the breaker, and is answered locally.
Trip(u) ==
    /\ Move(u, {"failed"}, "away")
    /\ state' = "open"
    /\ elapsed' = FALSE

Elapse ==
    /\ state = "open"
    /\ elapsed' = TRUE
    /\ UNCHANGED <<state, phase, healthy>>

\* An evaluation finds the retry time over.
Probe(u) ==
    /\ state = "open"
    /\ elapsed
    /\ Move(u, {"away"}, "probing")
    /\ UNCHANGED <<state, elapsed>>

\* Another retry time, for as long as the probe takes or if it fails.
Rearm(u) ==
    /\ Move(u, {"probing"}, "probing")
    /\ state' = "open"
    /\ elapsed' = FALSE

\* The probe fails.  The breaker is left as the others see it.
GiveUp(u) ==
    /\ ~healthy
    /\ Move(u, {"probing"}, "away")
    /\ UNCHANGED <<state, elapsed>>

\* The API answers a probe or an authentication.
Answered(u) ==
    /\ healthy
    /\ Move(u, {"probing", "calling", "bypassing"}, "answered")
    /\ UNCHANGED <<state, elapsed>>

\* The user goes on from there, or back when the answer was no use.
Close(u) ==
    /\ \E to \in {"calling", "bypassing", "away", "failed"} :
          Move(u, {"answered"}, to)
    /\ state' = "closed"
    /\ elapsed' = FALSE

Flip ==
    /\ healthy' = ~healthy
    /\ UNCHANGED <<state, elapsed, phase>>

BreakerNext ==
    \/ \E u \in User :
          \/ Call(u)  \/ Bypass(u) \/ Leave(u)
          \/ Fail(u)  \/ Trip(u)
          \/ Probe(u) \/ Rearm(u)  \/ GiveUp(u)
          \/ Answered(u) \/ Close(u)
    \/ Elapse
    \/ Flip

BreakerSpec == BreakerInit /\ [][BreakerNext]_bvars
=============================================================================
