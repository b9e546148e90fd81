-------------------------- MODULE MCAuthSessions --------------------------
(* Small instances of AuthSessions. *)
EXTENDS AuthSessions, TLC

\* Calls are interchangeable.
Symmetry == Permutations(Caller)
=============================================================================
