-------------------------- MODULE MCChatMessaging --------------------------
(***************************************************************************)
(* An instance of ChatMessaging: two connections and one POST /api/chats.  *)
(* No symmetry, as liveness is checked.                                    *)
(***************************************************************************)
EXTENDS ChatMessaging

CONSTANTS r1, r2, opener, alice, bob
=============================================================================
