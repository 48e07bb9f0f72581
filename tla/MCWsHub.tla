------------------------------ MODULE MCWsHub ------------------------------
(***************************************************************************)
(* Instances of WsHub: three connections, two of them in one hub, and two  *)
(* of them of one user.                                                    *)
(***************************************************************************)
EXTENDS WsHub, TLC

CONSTANTS c1, c2, c3, chat, feed, alice, bob

MCKeyOf  == c1 :> chat @@ c2 :> chat @@ c3 :> feed
MCUserOf == c1 :> alice @@ c2 :> bob @@ c3 :> alice

\* Two connections in one hub, for the liveness properties.
MCKeyOf2  == c1 :> chat @@ c2 :> chat
MCUserOf2 == c1 :> alice @@ c2 :> alice
=============================================================================
