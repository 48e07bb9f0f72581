------------------------ MODULE MCPhoneVerification ------------------------
(***************************************************************************)
(* Instances of PhoneVerification.  Requests of a kind are interchangeable.*)
(***************************************************************************)
EXTENDS PhoneVerification, TLC

CONSTANTS s1, s2, v1, v2

Interchangeable == Permutations({s1, s2}) \cup Permutations({v1, v2})
=============================================================================
