---------------------------- MODULE MCPushNotify ----------------------------
(***************************************************************************)
(* Instances of PushNotify.  Tokens are interchangeable, and so are users: *)
(* all of them are members of the chat.                                    *)
(***************************************************************************)
EXTENDS PushNotify, TLC

CONSTANTS alice, bob, carol, phone, tablet, m1, m2

Interchangeable ==
  Permutations({alice, bob, carol}) \cup Permutations({phone, tablet})
=============================================================================
