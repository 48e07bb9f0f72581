--------------------------- MODULE ChatMessaging ---------------------------
(***************************************************************************)
(* The path of a message in one chat: client.readLoop stores it,           *)
(* broadcasts it to the chat, runs notifyChatUpdate for the chat lists of  *)
(* the members and starts the push goroutine.  Every connection has a      *)
(* readLoop of its own, and POST /api/chats runs notifyChatUpdate too, so  *)
(* all of these steps interleave.  A broadcast is one step: what becomes   *)
(* of it in the hub is the subject of WsHub, and of the push goroutine     *)
(* that of PushNotify.                                                     *)
(***************************************************************************)
EXTENDS Naturals, Sequences, FiniteSets

CONSTANTS
  Readers,   \* readLoops of connections to the chat
  Openers,   \* handlers of POST /api/chats for the chat
  Members,   \* the members of the chat
  MaxMsgs,   \* bound of the model: ids drawn for messages
  MaxFaults  \* bound of the model: database errors and crashes

ASSUME MessagingAssumption ==
  /\ Readers \cap Openers = {}
  /\ IsFiniteSet(Members)
  /\ MaxMsgs \in Nat
  /\ MaxFaults \in Nat

Goroutines == Readers \cup Openers
Ids == 1..MaxMsgs

VARIABLES
  pc,      \* where each goroutine is
  msg,     \* the message it handles, 0 if none
  todo,    \* members that notifyChatUpdate has yet to turn to
  note,    \* the chat_update it has read and not yet broadcast
  nextId,  \* messages_id_seq
  rows,    \* committed rows of messages, by id
  feed,    \* ids in the order in which they were broadcast to the chat
  told,    \* pairs <<member, last message>> broadcast as chat_update
  pushed,  \* ids for which the push goroutine was started
  by,      \* auxiliary: who drew an id
  lost,    \* auxiliary: rows whose goroutine gave them up before broadcast
  dead,    \* auxiliary: rows whose goroutine died after broadcast
  missed,  \* auxiliary: pairs <<member, id>> given up by notifyChatUpdate
  faults   \* errors and crashes so far

auxVars == <<by, lost, dead, missed>>
vars == <<pc, msg, todo, note, nextId, rows, feed, told, pushed, auxVars, faults>>

\* "storing": the INSERT runs; "stored": it has returned; "members" and
\* "update": in notifyChatUpdate; "tell": a summary is about to be broadcast;
\* "gone": HandleChats has returned.
Stages == {"idle", "storing", "stored", "members", "update", "tell", "gone"}
Notifying == {"members", "update", "tell"}

InFeed == {feed[i] : i \in 1..Len(feed)}

Init ==
  /\ pc = [g \in Goroutines |-> "idle"]
  /\ msg = [g \in Goroutines |-> 0]
  /\ todo = [g \in Goroutines |-> {}]
  /\ note = [g \in Goroutines |-> <<>>]
  /\ nextId = 1
  /\ rows = {}
  /\ feed = <<>>
  /\ told = {}
  /\ pushed = {}
  /\ by = <<>>
  /\ lost = {}
  /\ dead = {}
  /\ missed = {}
  /\ faults = 0

Goto(g, from, to) == pc[g] = from /\ pc' = [pc EXCEPT ![g] = to]

Fault == faults < MaxFaults /\ faults' = faults + 1

-----------------------------------------------------------------------------
(* readLoop.                                                               *)

\* A frame of type "send" with a text and a nonce; the INSERT draws an id,
\* before its row is committed.  Other frames change nothing.
Receive(g) ==
  /\ g \in Readers
  /\ nextId <= MaxMsgs
  /\ Goto(g, "idle", "storing")
  /\ msg' = [msg EXCEPT ![g] = nextId]
  /\ nextId' = nextId + 1
  /\ by' = Append(by, g)
  /\ UNCHANGED <<todo, note, rows, feed, told, pushed, lost, dead, missed, faults>>

StoreOk(g) ==
  /\ Goto(g, "storing", "stored")
  /\ rows' = rows \cup {msg[g]}
  /\ UNCHANGED <<msg, todo, note, nextId, feed, told, pushed, auxVars, faults>>

\* Mutant: the error is ignored.
StoreErrorIgnored(g) ==
  /\ Fault
  /\ Goto(g, "storing", "stored")
  /\ UNCHANGED <<msg, todo, note, nextId, rows, feed, told, pushed, auxVars>>

\* StoreMessage returns an error: there is no row, or there is one and only
\* the answer was lost.  The frame is dropped.
StoreError(g) ==
  /\ Fault
  /\ Goto(g, "storing", "idle")
  /\ msg' = [msg EXCEPT ![g] = 0]
  /\ \/ UNCHANGED <<rows, lost>>
     \/ rows' = rows \cup {msg[g]} /\ lost' = lost \cup {msg[g]}
  /\ UNCHANGED <<todo, note, nextId, feed, told, pushed, by, dead, missed>>

\* Mutant: the newest row of the chat is broadcast instead of one's own.
BroadcastLatest(g) ==
  /\ Goto(g, "stored", "members")
  /\ \E m \in rows : (\A n \in rows : n <= m) /\ feed' = Append(feed, m)
  /\ UNCHANGED <<msg, todo, note, nextId, rows, told, pushed, auxVars, faults>>

Broadcast(g) ==
  /\ Goto(g, "stored", "members")
  /\ feed' = Append(feed, msg[g])
  /\ UNCHANGED <<msg, todo, note, nextId, rows, told, pushed, auxVars, faults>>

-----------------------------------------------------------------------------
(* notifyChatUpdate, by a readLoop or by HandleChats.                      *)

\* HandleChats, for a chat that exists.
OpenChat(g) ==
  /\ g \in Openers
  /\ Goto(g, "idle", "members")
  /\ UNCHANGED <<msg, todo, note, nextId, rows, feed, told, pushed, auxVars, faults>>

ListMembers(g) ==
  /\ Goto(g, "members", "update")
  /\ todo' = [todo EXCEPT ![g] = Members]
  /\ UNCHANGED <<msg, note, nextId, rows, feed, told, pushed, auxVars, faults>>

\* What a member is not told about the message of g, if g has one.
Owed(g, us) == us \X ({msg[g]} \ {0})

\* Mutant: the error ends the handling of the message.
MembersErrorReturns(g) ==
  /\ Fault
  /\ Goto(g, "members", "idle")
  /\ missed' = missed \cup Owed(g, Members)
  /\ msg' = [msg EXCEPT ![g] = 0]
  /\ UNCHANGED <<todo, note, nextId, rows, feed, told, pushed, by, lost, dead>>

\* notifyChatUpdate returns; readLoop goes on.
MembersError(g) ==
  /\ Fault
  /\ Goto(g, "members", "update")
  /\ missed' = missed \cup Owed(g, Members)
  /\ UNCHANGED <<msg, todo, note, nextId, rows, feed, told, pushed, by, lost, dead>>

\* Mutant: ORDER BY id without DESC.
IsOldest(m) ==
  /\ m \in rows \/ (rows = {} /\ m = 0)
  /\ \A n \in rows : m <= n

\* ORDER BY id DESC LIMIT 1: the last message, 0 if the chat has none.
IsLast(m) ==
  /\ m \in rows \/ (rows = {} /\ m = 0)
  /\ \A n \in rows : n <= m

\* GetChatSummary for the next member, in any order.
ReadSummary(g, u) ==
  /\ u \in todo[g]
  /\ Goto(g, "update", "tell")
  /\ todo' = [todo EXCEPT ![g] = @ \ {u}]
  /\ \E m \in rows \cup {0} :
       /\ IsLast(m)
       /\ note' = [note EXCEPT ![g] = <<u, m>>]
  /\ UNCHANGED <<msg, nextId, rows, feed, told, pushed, auxVars, faults>>

\* It fails: this member is passed over.
SummaryError(g, u) ==
  /\ Fault
  /\ pc[g] = "update"
  /\ u \in todo[g]
  /\ todo' = [todo EXCEPT ![g] = @ \ {u}]
  /\ missed' = missed \cup Owed(g, {u})
  /\ UNCHANGED <<pc, msg, note, nextId, rows, feed, told, pushed, by, lost, dead>>

\* broadcastChatList.
Tell(g) ==
  /\ Goto(g, "tell", "update")
  /\ told' = told \cup {note[g]}
  /\ note' = [note EXCEPT ![g] = <<>>]
  /\ UNCHANGED <<msg, todo, nextId, rows, feed, pushed, auxVars, faults>>

\* A readLoop waits for the next frame; a handler has had its only request.
AtRest(g) == IF g \in Readers THEN "idle" ELSE "gone"

\* "go s.sendPushForMessage(msg)" in readLoop, nothing in HandleChats.
HandOver(g) ==
  /\ todo[g] = {}
  /\ Goto(g, "update", AtRest(g))
  /\ pushed' = pushed \cup ({msg[g]} \ {0})
  /\ msg' = [msg EXCEPT ![g] = 0]
  /\ UNCHANGED <<todo, note, nextId, rows, feed, told, auxVars, faults>>

-----------------------------------------------------------------------------
\* The members g has not told yet of the message it handles.
Untold(g) ==
  CASE pc[g] = "members" -> Members
    [] pc[g] = "update"  -> todo[g]
    [] pc[g] = "tell"    -> todo[g] \cup {note[g][1]}
    [] OTHER             -> {}

\* The process dies; of the INSERTs that run, some are committed.
Crash ==
  /\ Fault
  /\ \E g \in Goroutines : pc[g] \notin {"idle", "gone"}
  /\ \E done \in SUBSET {msg[g] : g \in {r \in Readers : pc[r] = "storing"}} :
       /\ rows' = rows \cup done
       /\ lost' = lost \cup done
                       \cup {msg[g] : g \in {r \in Readers : pc[r] = "stored"}}
  /\ dead' = dead \cup {msg[g] : g \in {r \in Readers : pc[r] \in Notifying}}
  /\ missed' = missed \cup UNION {Owed(g, Untold(g)) : g \in Goroutines}
  /\ pc' = [g \in Goroutines |-> IF pc[g] = "idle" THEN "idle" ELSE AtRest(g)]
  /\ msg' = [g \in Goroutines |-> 0]
  /\ todo' = [g \in Goroutines |-> {}]
  /\ note' = [g \in Goroutines |-> <<>>]
  /\ UNCHANGED <<nextId, feed, told, pushed, by>>

Step(g) ==
  \/ Receive(g) \/ StoreOk(g) \/ StoreError(g) \/ Broadcast(g)
  \/ OpenChat(g)
  \/ ListMembers(g) \/ MembersError(g)
  \/ \E u \in Members : ReadSummary(g, u) \/ SummaryError(g, u)
  \/ Tell(g) \/ HandOver(g)

Next == (\E g \in Goroutines : Step(g)) \/ Crash

Spec == Init /\ [][Next]_vars

\* A goroutine that is at work goes on: statements return, with or without an
\* error, and the mutexes are held for a bounded time.
FairSpec == Spec /\ \A g \in Goroutines : WF_vars(pc[g] # "idle" /\ Step(g))

-----------------------------------------------------------------------------
\* Every variable has its type, and only a readLoop handles a message.
TypeOK ==
  /\ pc \in [Goroutines -> Stages]
  /\ \A g \in Openers : pc[g] \in {"idle", "gone"} \cup Notifying
  /\ \A g \in Readers : pc[g] # "gone"
  /\ msg \in [Goroutines -> Nat]
  /\ \A g \in Goroutines : msg[g] < nextId
  /\ \A g \in Goroutines : msg[g] # 0 <=> g \in Readers /\ pc[g] # "idle"
  /\ todo \in [Goroutines -> SUBSET Members]
  /\ note \in [Goroutines -> (Members \X Nat) \cup {<<>>}]
  /\ \A g \in Goroutines : pc[g] = "tell" => note[g] \in Members \X Nat
  /\ nextId \in Nat
  /\ by \in Seq(Readers) /\ Len(by) = nextId - 1
  /\ rows \subseteq 1..Len(by)
  /\ feed \in Seq(rows)
  /\ told \subseteq Members \X Nat
  /\ pushed \cup lost \cup dead \subseteq rows
  /\ missed \subseteq Members \X rows
  /\ faults \in Nat

\* The messages that goroutines in one of the stages handle.
HandledIn(stages) == {msg[g] : g \in {r \in Readers : pc[r] \in stages}}

\* A message is broadcast at most once and only when its row is durable;
\* and a row that was not broadcast is in the hands of a readLoop that will
\* do so, unless an error or a crash took it away.
FeedExact ==
  /\ \A i, j \in 1..Len(feed) : feed[i] = feed[j] => i = j
  /\ InFeed \cap (HandledIn({"storing", "stored"}) \cup lost) = {}
  /\ rows = InFeed \cup HandledIn({"stored"}) \cup lost

\* The messages of one connection are broadcast in the order of their ids,
\* which is that of the history; only those of different connections may
\* change places.
SenderOrder ==
  \A i, j \in 1..Len(feed) :
    i < j /\ by[feed[i]] = by[feed[j]] => feed[i] < feed[j]

\* Every member is told, for every message that was broadcast, of this
\* message or of a later one, unless its goroutine has yet to do so or an
\* error or a crash kept it from it: a stale chat_update may come last, but
\* never is the only one.
UpdateCovers ==
  \A u \in Members, m \in InFeed :
    \/ \E t \in told : t[1] = u /\ t[2] >= m
    \/ <<u, m>> \in missed
    \/ \E g \in Readers : msg[g] = m /\ u \in Untold(g)

\* Push follows every broadcast, whatever happens to the chat_update, but
\* for the messages whose goroutine died; and it never comes before it.
PushFollows ==
  /\ InFeed = pushed \cup HandledIn(Notifying) \cup dead
  /\ pushed \cap (HandledIn(Stages) \cup dead) = {}

\* u has been told of m or of what came later, or an error kept it from him.
Informed(u, m) == (\E t \in told : t[1] = u /\ t[2] >= m) \/ <<u, m>> \in missed

\* Every message that is stored is finally broadcast, announced to every
\* member and handed to the push goroutine, however many other messages and
\* chat_updates come between, or its goroutine gave it up or died.
EventuallyServed ==
  \A m \in Ids : m \in rows ~>
    \/ m \in lost \cup dead
    \/ m \in pushed /\ \A u \in Members : Informed(u, m)

\* The path implements a mailbox: durable first, then shown, then alerted,
\* each once and in the order of the connection that sent it; and nothing
\* that an error or a crash stopped is taken up again.
Box == INSTANCE Mailbox WITH
  Authors <- Readers, author <- by, history <- rows,
  alerted <- pushed, dropped <- lost \cup dead

ImplementsMailbox == Box!Spec
=============================================================================
