------------------------------ MODULE ChatBook ------------------------------
(***************************************************************************)
(* What POST /api/chats promises to its callers, with no transactions,     *)
(* rows, sequences or crashes: the book of chats only grows, and a chat    *)
(* is in it with both its users from the start or not at all.  A request   *)
(* is answered with a chat that the book has for its pair.  It enters a    *)
(* new one only after it has looked and found none, or has looked in vain; *)
(* between the look and the entry others may do the same.                  *)
(***************************************************************************)
EXTENDS Naturals

CONSTANTS
  Callers,  \* those who ask, one request at a time
  Couples,  \* pairs of users
  Chats     \* the chats there may be

VARIABLES
  book,    \* from the chats there are to their pairs
  stage,   \* "idle", "asking", "missed" or "answered"
  wish,    \* the pair that is asked for, or was last
  answer,  \* the chat found or entered, 0 before
  known,   \* pairs <<user, chat>>: who has been told of a chat
  blind    \* looks in vain

vars == <<book, stage, wish, answer, known, blind>>

Init ==
  /\ book = [c \in {} |-> {}]
  /\ stage = [h \in Callers |-> "idle"]
  /\ wish \in [Callers -> Couples]
  /\ answer = [h \in Callers |-> 0]
  /\ known = {}
  /\ blind = 0

From(h, from, to) == stage[h] = from /\ stage' = [stage EXCEPT ![h] = to]

Ask(h) ==
  /\ From(h, "idle", "asking")
  /\ \E p \in Couples : wish' = [wish EXCEPT ![h] = p]
  /\ UNCHANGED <<book, answer, known, blind>>

Find(h, c) ==
  /\ From(h, "asking", "answered")
  /\ c \in DOMAIN book /\ book[c] = wish[h]
  /\ answer' = [answer EXCEPT ![h] = c]
  /\ UNCHANGED <<book, wish, known, blind>>

Miss(h) ==
  /\ From(h, "asking", "missed")
  /\ \A c \in DOMAIN book : book[c] # wish[h]
  /\ UNCHANGED <<book, wish, answer, known, blind>>

LookInVain(h) ==
  /\ From(h, "asking", "missed")
  /\ blind' = blind + 1
  /\ UNCHANGED <<book, wish, answer, known>>

Entered(h, c) ==
  /\ c \notin DOMAIN book
  /\ book' = [d \in DOMAIN book \cup {c} |-> IF d = c THEN wish[h] ELSE book[d]]

Enter(h, c) ==
  /\ From(h, "missed", "answered")
  /\ Entered(h, c)
  /\ answer' = [answer EXCEPT ![h] = c]
  /\ UNCHANGED <<wish, known, blind>>

\* The chat is there, and the caller does not learn of it.
EnterUnheard(h, c) ==
  /\ From(h, "missed", "idle")
  /\ Entered(h, c)
  /\ UNCHANGED <<wish, answer, known, blind>>

Tell(h, us) ==
  /\ From(h, "answered", "idle")
  /\ known' = known \cup (us \X {answer[h]})
  /\ answer' = [answer EXCEPT ![h] = 0]
  /\ UNCHANGED <<book, wish, blind>>

GiveUp(hs) ==
  /\ stage' = [h \in Callers |-> IF h \in hs THEN "idle" ELSE stage[h]]
  /\ answer' = [h \in Callers |-> IF h \in hs THEN 0 ELSE answer[h]]
  /\ UNCHANGED <<book, wish, known, blind>>

Next ==
  \/ \E hs \in SUBSET Callers : GiveUp(hs)
  \/ \E h \in Callers : Ask(h) \/ Miss(h) \/ LookInVain(h)
  \/ \E h \in Callers, c \in Chats : Find(h, c) \/ Enter(h, c) \/ EnterUnheard(h, c)
  \/ \E h \in Callers : \E us \in SUBSET wish[h] : Tell(h, us)

Spec == Init /\ [][Next]_vars
=============================================================================
