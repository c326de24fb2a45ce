-------------------------- MODULE MC_AuthSessions --------------------------
(* Requests are interchangeable; sessions are numbered, so they are not.    *)
EXTENDS AuthSessions, TLC

Symmetry == Permutations(Workers)
=============================================================================
