----------------------------- MODULE MCDelivery -----------------------------
(***************************************************************************)
(* An instance of Delivery: two connections of others send to a device.    *)
(***************************************************************************)
EXTENDS Delivery, TLC

CONSTANTS r1, r2, alice, bob

Interchangeable == Permutations({r1, r2})
=============================================================================
