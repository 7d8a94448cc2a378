----------------------------- MODULE TokenClock -----------------------------
(***************************************************************************)
(* The expiration of a token, as the API gives it, against the clock.      *)
(*                                                                         *)
(* An expiration is a number of milliseconds or of seconds, told by its    *)
(* size.  now is the clock in milliseconds; delays are in milliseconds.    *)
(* AuthSession takes no more from these than "has expired".                *)
(***************************************************************************)
EXTENDS Integers

LastOfSeconds == 1000000000000

AutoRenewBuffer   == 5000
AutoRenewMinDelay == 1000

\* tokenExpired.  Seconds are compared with the clock cut to seconds.
TokenExpired(exp, now) ==
    \/ exp = 0
    \/ exp > LastOfSeconds /\ now >= exp
    \/ exp <= LastOfSeconds /\ now \div 1000 >= exp

\* The moment that autoRenewDelay takes an expiration for.
ExpiresAt(exp) == IF exp > LastOfSeconds THEN exp ELSE exp * 1000

\* autoRenewDelay
AutoRenewDelay(exp, now) ==
    LET delay == ExpiresAt(exp) - now - AutoRenewBuffer
    IN  IF delay < AutoRenewMinDelay THEN AutoRenewMinDelay ELSE delay

-----------------------------------------------------------------------------
(* What they promise together. *)

\* remote.go:388: the same moment, given in seconds or in milliseconds, is the
\* end of the token for tokenExpired.
SameMoment(seconds, now) ==
    TokenExpired(seconds, now) <=> TokenExpired(seconds * 1000, now)

\* client_auto_renew.go:7-13: a renewal fires while its token still is good,
\* unless the token has no longer than the minimum delay to go.
RenewedInTime(exp, now) ==
    now + AutoRenewMinDelay < ExpiresAt(exp)
        => ~TokenExpired(exp, now + AutoRenewDelay(exp, now))
=============================================================================
