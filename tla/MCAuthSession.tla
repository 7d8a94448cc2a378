--------------------------- MODULE MCAuthSession ---------------------------
(* Small instances of AuthSession for TLC. *)
EXTENDS AuthSession, TLC

\* Callers differ in nothing but their name; sound for safety only.
CallerSymmetry == Permutations(Caller)
=============================================================================
