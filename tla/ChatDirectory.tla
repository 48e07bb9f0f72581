--------------------------- MODULE ChatDirectory ---------------------------
(***************************************************************************)
(* Direct chats between two users: POST /api/chats (HandleChats) and       *)
(* Repository.FindOrCreateChat.  Several handlers serve such requests at   *)
(* the same time; between the look-up and the commit of one, any step of   *)
(* the others and a crash of the server may come.  Each action is one      *)
(* round trip to the database, which is external and runs each statement   *)
(* atomically; rows of an open transaction are invisible to the others.    *)
(***************************************************************************)
EXTENDS Naturals, FiniteSets

CONSTANTS
  Handlers,  \* goroutines that serve POST /api/chats, one request at a time
  Users,     \* registered users; none is ever deleted
  MaxChats,  \* bound of the model: chat ids drawn from the sequence
  MaxLost    \* bound of the model: look-ups that fail

ASSUME DirectoryAssumption ==
  /\ IsFiniteSet(Handlers)
  /\ MaxChats \in Nat
  /\ MaxLost \in Nat

VARIABLES
  pc,       \* where each handler is
  ask,      \* its caller and peer: the look-up and the rows do not tell them apart
  id,       \* its local variable chatID, 0 before it has a value
  nextId,   \* chats_id_seq: what nextval returns
  chats,    \* committed rows of chats
  members,  \* committed rows of chat_members, as pairs <<chat, user>>
  told,     \* pairs <<user, chat>> for which a chat_update was broadcast
  lost      \* auxiliary: look-ups that failed with a database error

vars == <<pc, ask, id, nextId, chats, members, told, lost>>

\* "find": about to look up; "begin" and "fill": about to insert into chats
\* and into chat_members; "commit"; "notify": FindOrCreateChat has returned.
Stages == {"idle", "find", "begin", "fill", "commit", "notify"}

\* HandleChats refuses a chat with oneself.
Pairs == {{u, v} : u, v \in Users} \ {{u} : u \in Users}

Init ==
  /\ pc = [h \in Handlers |-> "idle"]
  /\ ask \in [Handlers -> Pairs]
  /\ id = [h \in Handlers |-> 0]
  /\ nextId = 1
  /\ chats = {}
  /\ members = {}
  /\ told = {}
  /\ lost = 0

Goto(h, from, to) == pc[h] = from /\ pc' = [pc EXCEPT ![h] = to]

\* A handler that answers forgets its local variables.
Return(h, from) ==
  /\ Goto(h, from, "idle")
  /\ id' = [id EXCEPT ![h] = 0]

\* The chats that both users of a pair are members of.
ChatsWith(pair) == {c \in chats : \A u \in pair : <<c, u>> \in members}

Found(h) == ChatsWith(ask[h])

-----------------------------------------------------------------------------
Request(h) ==
  /\ Goto(h, "idle", "find")
  /\ \E pair \in Pairs : ask' = [ask EXCEPT ![h] = pair]
  /\ UNCHANGED <<id, nextId, chats, members, told, lost>>

\* LIMIT 1 without an ORDER BY: any of the chats of the two.
FindHit(h) ==
  /\ Goto(h, "find", "notify")
  /\ \E c \in Found(h) : id' = [id EXCEPT ![h] = c]
  /\ UNCHANGED <<ask, nextId, chats, members, told, lost>>

\* Mutant: the result of the look-up is ignored.
FindIgnored(h) ==
  /\ Goto(h, "find", "begin")
  /\ UNCHANGED <<ask, id, nextId, chats, members, told, lost>>

FindMiss(h) ==
  /\ Goto(h, "find", "begin")
  /\ Found(h) = {}
  /\ UNCHANGED <<ask, id, nextId, chats, members, told, lost>>

\* Any error of the look-up, sql.ErrNoRows or another, leads to a new chat.
FindError(h) ==
  /\ lost < MaxLost
  /\ Goto(h, "find", "begin")
  /\ lost' = lost + 1
  /\ UNCHANGED <<ask, id, nextId, chats, members, told>>

\* Mutant: the insertion into chats is a transaction of its own.
InsertAutocommitted(h) ==
  /\ nextId <= MaxChats
  /\ Goto(h, "begin", "fill")
  /\ id' = [id EXCEPT ![h] = nextId]
  /\ nextId' = nextId + 1
  /\ chats' = chats \cup {nextId}
  /\ UNCHANGED <<ask, members, told, lost>>

\* Mutant: the new id is computed from the committed rows.
InsertUnreserved(h) ==
  /\ nextId <= MaxChats
  /\ Goto(h, "begin", "fill")
  /\ id' = [id EXCEPT ![h] = nextId]
  /\ UNCHANGED <<ask, nextId, chats, members, told, lost>>

\* nextval is not undone by a rollback.
InsertChat(h) ==
  /\ nextId <= MaxChats
  /\ Goto(h, "begin", "fill")
  /\ id' = [id EXCEPT ![h] = nextId]
  /\ nextId' = nextId + 1
  /\ UNCHANGED <<ask, chats, members, told, lost>>

InsertMembers(h) ==
  /\ Goto(h, "fill", "commit")
  /\ UNCHANGED <<ask, id, nextId, chats, members, told, lost>>

\* BeginTx or one of the insertions fails: rollback and status 500.
InsertError(h) ==
  /\ Return(h, "begin") \/ Return(h, "fill")
  /\ UNCHANGED <<ask, nextId, chats, members, told, lost>>

\* The rows of the transaction become durable together.
Durable(h) ==
  /\ chats' = chats \cup {id[h]}
  /\ members' = members \cup ({id[h]} \X ask[h])

\* Mutant: the error of Commit is ignored.
CommitUnchecked(h) ==
  /\ Goto(h, "commit", "notify")
  /\ Durable(h) \/ UNCHANGED <<chats, members>>
  /\ UNCHANGED <<ask, id, nextId, told, lost>>

Commit(h) ==
  /\ Goto(h, "commit", "notify")
  /\ Durable(h)
  /\ UNCHANGED <<ask, id, nextId, told, lost>>

\* Commit returns an error: the transaction was rolled back, or it was not
\* and only the answer of the database was lost.
CommitError(h) ==
  /\ Return(h, "commit")
  /\ Durable(h) \/ UNCHANGED <<chats, members>>
  /\ UNCHANGED <<ask, nextId, told, lost>>

\* notifyChatUpdate, then status 201.  The member list or the summary of any
\* member may fail to be read; whoever is left is told.
Notify(h) ==
  /\ Return(h, "notify")
  /\ \E us \in SUBSET {u \in Users : <<id[h], u>> \in members} :
       told' = told \cup (us \X {id[h]})
  /\ UNCHANGED <<ask, nextId, chats, members, lost>>

\* The process dies with its handlers; the database rolls back what was not
\* committed.
Crash ==
  /\ \E h \in Handlers : pc[h] # "idle"
  /\ pc' = [h \in Handlers |-> "idle"]
  /\ id' = [h \in Handlers |-> 0]
  /\ UNCHANGED <<ask, nextId, chats, members, told, lost>>

Next ==
  \/ \E h \in Handlers :
       \/ Request(h)
       \/ FindHit(h) \/ FindMiss(h) \/ FindError(h)
       \/ InsertChat(h) \/ InsertMembers(h) \/ InsertError(h)
       \/ Commit(h) \/ CommitError(h)
       \/ Notify(h)
  \/ Crash

Spec == Init /\ [][Next]_vars

-----------------------------------------------------------------------------
\* Every variable has its type, and ids come from the sequence.
TypeOK ==
  /\ pc \in [Handlers -> Stages]
  /\ ask \in [Handlers -> Pairs]
  /\ id \in [Handlers -> Nat]
  /\ nextId \in Nat
  /\ \A h \in Handlers : id[h] < nextId
  /\ chats \subseteq Nat
  /\ \A c \in chats : c < nextId
  /\ members \subseteq Nat \X Users
  /\ told \subseteq Users \X Nat
  /\ lost \in Nat

MembersOf(c) == {u \in Users : <<c, u>> \in members}

\* No chat is ever visible with other than two members, not even after a
\* failed insertion, a failed commit or a crash, and no member is without
\* a chat.
TwoMembers ==
  /\ \A c \in chats : MembersOf(c) \in Pairs
  /\ \A m \in members : m[1] \in chats

\* The race of look-up and insertion can duplicate a chat, but only once for
\* each handler that runs at the same time: whatever the requests, crashes
\* and failed commits, two users never have more chats than there are
\* handlers, unless look-ups failed.
DuplicatesBounded ==
  \A pair \in Pairs :
    Cardinality(ChatsWith(pair)) <= Cardinality(Handlers) + lost

\* What a caller sees of a request, and of the rows.
Phase == [h \in Handlers |->
            CASE pc[h] = "idle"   -> "idle"
              [] pc[h] = "find"   -> "asking"
              [] pc[h] = "notify" -> "answered"
              [] OTHER            -> "missed"]
Reply == [h \in Handlers |-> IF pc[h] = "notify" THEN id[h] ELSE 0]
Listed == [c \in chats |-> MembersOf(c)]

\* To its callers FindOrCreateChat is a book of chats: a chat appears whole,
\* by a request that had found none, or failed to look; it never changes or
\* goes, an answer is a chat of the pair that was asked for, and nobody else
\* is told of it.  Transactions, ids drawn in vain and crashes do not show.
Book == INSTANCE ChatBook WITH
  Callers <- Handlers, Couples <- Pairs, Chats <- 1..MaxChats,
  book <- Listed, stage <- Phase, wish <- ask, answer <- Reply,
  known <- told, blind <- lost

ImplementsBook == Book!Spec
=============================================================================
