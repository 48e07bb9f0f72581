----------------------------- MODULE OrderedFeed -----------------------------
(***************************************************************************)
(* What a websocket hub promises to the peers connected to it, with no     *)
(* channels, writer goroutines or evictions: every publication on a key    *)
(* has a position, and a subscriber sees a run of consecutive positions    *)
(* that starts right after the position at which it joined.  A             *)
(* subscription may end at any time; what was published by then need not   *)
(* have been seen.                                                         *)
(***************************************************************************)
EXTENDS Naturals, Sequences

CONSTANTS
  Conns,  \* subscribers
  Keys,   \* independent feeds
  KeyOf   \* KeyOf[c]: the feed that c subscribes to

VARIABLES
  sent,       \* sent[k]: publications on feed k so far
  phase,      \* "before", "subscribed" or "over"
  joined,     \* joined[c]: the position of its feed when c joined
  delivered   \* delivered[c]: positions seen by c, oldest first

vars == <<sent, phase, joined, delivered>>

Init ==
  /\ sent = [k \in Keys |-> 0]
  /\ phase = [c \in Conns |-> "before"]
  /\ joined = [c \in Conns |-> 0]
  /\ delivered = [c \in Conns |-> <<>>]

Publish(k) ==
  /\ sent' = [sent EXCEPT ![k] = @ + 1]
  /\ UNCHANGED <<phase, joined, delivered>>

Subscribe(c) ==
  /\ phase[c] = "before"
  /\ phase' = [phase EXCEPT ![c] = "subscribed"]
  /\ joined' = [joined EXCEPT ![c] = sent[KeyOf[c]]]
  /\ UNCHANGED <<sent, delivered>>

Deliver(c) ==
  LET next == joined[c] + Len(delivered[c]) + 1
  IN  /\ phase[c] = "subscribed"
      /\ next <= sent[KeyOf[c]]
      /\ delivered' = [delivered EXCEPT ![c] = Append(@, next)]
      /\ UNCHANGED <<sent, phase, joined>>

End(c) ==
  /\ phase[c] = "subscribed"
  /\ phase' = [phase EXCEPT ![c] = "over"]
  /\ UNCHANGED <<sent, joined, delivered>>

Next ==
  \/ \E k \in Keys : Publish(k)
  \/ \E c \in Conns : Subscribe(c) \/ Deliver(c) \/ End(c)

Spec == Init /\ [][Next]_vars
=============================================================================
