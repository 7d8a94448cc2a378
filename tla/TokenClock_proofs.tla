------------------------- MODULE TokenClock_proofs --------------------------
(***************************************************************************)
(* Theorems about TokenClock, for every expiration and every time.         *)
(***************************************************************************)
EXTENDS TokenClock, TLAPS

\* A number of whole seconds is over in the clock cut to seconds when, and only
\* when, as many milliseconds are over.
LEMMA WholeSeconds ==
    ASSUME NEW s \in Int, NEW now \in Nat
    PROVE  now \div 1000 >= s <=> now >= s * 1000
  OBVIOUS

\* tokenExpired ends a token at the moment that autoRenewDelay takes its
\* expiration for, in either unit.
LEMMA OverWhenExpired ==
    ASSUME NEW exp \in Nat \ {0}, NEW now \in Nat
    PROVE  TokenExpired(exp, now) <=> now >= ExpiresAt(exp)
  BY WholeSeconds DEF TokenExpired, ExpiresAt, LastOfSeconds

\* remote.go:388: the heuristic tells seconds from milliseconds without a
\* moment at which the two disagree, for every expiration after 2001.
THEOREM UnitsAgree ==
    ASSUME NEW seconds \in Nat, NEW now \in Nat,
           seconds <= LastOfSeconds, seconds * 1000 > LastOfSeconds
    PROVE  SameMoment(seconds, now)
  <1>1. seconds \in Nat \ {0} /\ seconds * 1000 \in Nat \ {0}
    BY DEF LastOfSeconds
  <1>2. TokenExpired(seconds, now) <=> now >= seconds * 1000
    BY <1>1, OverWhenExpired DEF ExpiresAt, LastOfSeconds
  <1>3. TokenExpired(seconds * 1000, now) <=> now >= seconds * 1000
    BY <1>1, OverWhenExpired DEF ExpiresAt, LastOfSeconds
  <1> QED BY <1>2, <1>3 DEF SameMoment

\* client_auto_renew.go:7-13: a renewal is ahead of the expiration whenever
\* the minimum delay lets it.
THEOREM RenewalIsAhead ==
    ASSUME NEW exp \in Nat \ {0}, NEW now \in Nat
    PROVE  RenewedInTime(exp, now)
  <1> SUFFICES ASSUME now + AutoRenewMinDelay < ExpiresAt(exp)
               PROVE  ~TokenExpired(exp, now + AutoRenewDelay(exp, now))
    BY DEF RenewedInTime
  <1>1. ExpiresAt(exp) \in Nat
    BY DEF ExpiresAt, LastOfSeconds
  <1>2. now + AutoRenewDelay(exp, now) \in Nat
    BY <1>1 DEF AutoRenewDelay, AutoRenewBuffer, AutoRenewMinDelay
  <1>3. now + AutoRenewDelay(exp, now) < ExpiresAt(exp)
    BY <1>1 DEF AutoRenewDelay, AutoRenewBuffer, AutoRenewMinDelay
  <1> QED BY <1>1, <1>2, <1>3, OverWhenExpired
=============================================================================
