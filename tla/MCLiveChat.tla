----------------------------- MODULE MCLiveChat -----------------------------
(***************************************************************************)
(* An instance of LiveChat: two connections to one chat, of one member,    *)
(* which nothing tells apart, and a POST /api/chats for the same chat.     *)
(***************************************************************************)
EXTENDS LiveChat, TLC

CONSTANTS r1, r2, opener, alice

MCUserOf == r1 :> alice @@ r2 :> alice

Interchangeable == Permutations({r1, r2})
=============================================================================
