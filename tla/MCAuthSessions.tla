---------------------------- MODULE MCAuthSessions ----------------------------
(* Instances of AuthSessions for TLC: see the .cfg files for the bounds. *)
EXTENDS AuthSessions, TLC

\* Users, request slots and token ids are interchangeable; used where no
\* liveness property is checked.
Interchangeable == Permutations(User) \cup Permutations(Request) \cup Permutations(Token)
===============================================================================
