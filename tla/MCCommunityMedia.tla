--------------------------- MODULE MCCommunityMedia ---------------------------
(* Instances of CommunityMedia for TLC: see the .cfg files for the bounds. *)
EXTENDS CommunityMedia, TLC

\* Users and request slots are interchangeable; report ids are ordered by age.
Interchangeable == Permutations(User) \cup Permutations(Request)
===============================================================================
