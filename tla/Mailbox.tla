------------------------------ MODULE Mailbox ------------------------------
(***************************************************************************)
(* What the message path promises about the messages of a chat, with no    *)
(* goroutines, databases or crashes: a message becomes durable, is then    *)
(* shown to the chat, once and in the order of its author, and then is     *)
(* alerted to who is away, once.  At any point before that it may be       *)
(* dropped: it stays in the history and goes no further.                   *)
(***************************************************************************)
EXTENDS Naturals, Sequences

CONSTANT Authors

VARIABLES
  author,   \* author[m]: who wrote message m, in the order of writing
  history,  \* messages that are durable
  feed,     \* messages shown to the chat, oldest first
  alerted,  \* messages alerted to who is away
  dropped   \* messages that go no further

vars == <<author, history, feed, alerted, dropped>>

Shown == {feed[i] : i \in 1..Len(feed)}

Init ==
  /\ author = <<>>
  /\ history = {}
  /\ feed = <<>>
  /\ alerted = {}
  /\ dropped = {}

Write(a) ==
  /\ author' = Append(author, a)
  /\ UNCHANGED <<history, feed, alerted, dropped>>

Store(m) ==
  /\ m \notin history
  /\ history' = history \cup {m}
  /\ UNCHANGED <<author, feed, alerted, dropped>>

Show(m) ==
  /\ m \in history \ (Shown \cup dropped)
  /\ \A n \in Shown : author[n] = author[m] => n < m
  /\ feed' = Append(feed, m)
  /\ UNCHANGED <<author, history, alerted, dropped>>

Alert(m) ==
  /\ m \in Shown \ (alerted \cup dropped)
  /\ alerted' = alerted \cup {m}
  /\ UNCHANGED <<author, history, feed, dropped>>

Drop(ms) ==
  /\ ms \cap (alerted \cup dropped) = {}
  /\ dropped' = dropped \cup ms
  /\ history' = history \cup ms
  /\ UNCHANGED <<author, feed, alerted>>

Next ==
  \/ \E a \in Authors : Write(a)
  \/ \E m \in 1..Len(author) : Store(m) \/ Show(m) \/ Alert(m)
  \/ \E ms \in SUBSET (1..Len(author)) : Drop(ms)

Spec == Init /\ [][Next]_vars
=============================================================================
