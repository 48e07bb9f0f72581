-------------------------- MODULE MCChatDirectory --------------------------
(***************************************************************************)
(* Instances of ChatDirectory.  Handlers are interchangeable, and so are   *)
(* users.                                                                  *)
(***************************************************************************)
EXTENDS ChatDirectory, TLC

CONSTANTS h1, h2, alice, bob, carol

Interchangeable == Permutations({h1, h2}) \cup Permutations({alice, bob, carol})
=============================================================================
