------------------------------- MODULE MCPrivacy -------------------------------
(* Instances of Privacy for TLC: see the .cfg files for the bounds. *)
EXTENDS Privacy, TLC

Interchangeable == Permutations(Request)
===============================================================================
