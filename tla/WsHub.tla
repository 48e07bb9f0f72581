------------------------------- MODULE WsHub -------------------------------
(***************************************************************************)
(* The websocket hubs of handler/websocket.go and the goroutines of their  *)
(* connections.  /ws connections are registered in chatHubs under a chat   *)
(* id, /ws/chats connections in chatListHubs under a user id; the code of  *)
(* the two maps is the same, and a key of this module is a key of either.  *)
(*                                                                         *)
(* Every connection has a handler goroutine (HandleWebsocket: register,    *)
(* mark online, read until an error, unregister, mark offline) and a       *)
(* writer goroutine (writeLoop) joined by the buffered channel             *)
(* client.send.  Each action is one critical section of hubMu, chatListMu  *)
(* or onlineMu, or one channel or socket operation.                        *)
(***************************************************************************)
EXTENDS Naturals, Sequences, FiniteSets

CONSTANTS
  Conns,    \* connections that passed authentication and were upgraded
  Keys,     \* hub keys: chat ids and, for chatListHubs, user ids
  Users,
  KeyOf,    \* KeyOf[c]: the hub key of connection c
  UserOf,   \* UserOf[c]: the user who opened it
  SendCap,  \* capacity of client.send, 16 in the code
  MaxSent   \* bound of the model: broadcasts per key

ASSUME HubAssumption ==
  /\ IsFiniteSet(Conns)
  /\ KeyOf \in [Conns -> Keys]
  /\ UserOf \in [Conns -> Users]
  /\ SendCap \in Nat \ {0}
  /\ MaxSent \in Nat

VARIABLES
  pc,         \* where the handler goroutine of a connection is
  writer,     \* where its writer goroutine is
  sock,       \* the server has not closed the socket
  hub,        \* hub[k]: the clients in the map stored under k, {} if none is
  entries,    \* the keys under which a map is stored
  open,       \* client.send exists and is not closed
  queue,      \* the buffer of client.send
  hand,       \* the local variable msg of writeLoop, as <<>> or <<msg>>
  online,     \* Server.online, an absent entry read as 0
  panicked,   \* connections whose handler panicked in close(c.send)
  sent,       \* broadcasts per key; a message is its position among them
  joined,     \* auxiliary: sent[KeyOf[c]] when c registered
  delivered   \* messages written to the socket of a connection

hubVars    == <<hub, entries, open, sent, joined>>
writerVars == <<writer, hand, delivered>>
vars == <<pc, writer, sock, hub, entries, open, queue, hand, online,
          panicked, sent, joined, delivered>>

HandlerStates ==
  {"new", "registered", "reading", "leaving", "unregistered", "gone"}
WriterStates == {"none", "recv", "writing", "done"}

Init ==
  /\ pc = [c \in Conns |-> "new"]
  /\ writer = [c \in Conns |-> "none"]
  /\ sock = [c \in Conns |-> FALSE]
  /\ hub = [k \in Keys |-> {}]
  /\ entries = {}
  /\ open = [c \in Conns |-> FALSE]
  /\ queue = [c \in Conns |-> <<>>]
  /\ hand = [c \in Conns |-> <<>>]
  /\ online = [u \in Users |-> 0]
  /\ panicked = {}
  /\ sent = [k \in Keys |-> 0]
  /\ joined = [c \in Conns |-> 0]
  /\ delivered = [c \in Conns |-> <<>>]

Goto(c, from, to) == pc[c] = from /\ pc' = [pc EXCEPT ![c] = to]

-----------------------------------------------------------------------------
(* The handler goroutine.                                                  *)
(* Operators marked "Mutant" are what a plausible bug would make of the    *)
(* definition below them; no action uses them.                             *)

RegisterClient(c) ==
  LET k == KeyOf[c]
  IN  /\ Goto(c, "new", "registered")
      /\ sock' = [sock EXCEPT ![c] = TRUE]
      /\ open' = [open EXCEPT ![c] = TRUE]
      /\ hub' = [hub EXCEPT ![k] = @ \cup {c}]
      /\ entries' = entries \cup {k}
      /\ joined' = [joined EXCEPT ![c] = sent[k]]
      /\ UNCHANGED <<queue, online, panicked, sent, writerVars>>

\* markOnline, then "go c.writeLoop()" and the call of readLoop.
MarkOnline(c) ==
  /\ Goto(c, "registered", "reading")
  /\ online' = [online EXCEPT ![UserOf[c]] = @ + 1]
  /\ writer' = [writer EXCEPT ![c] = "recv"]
  /\ UNCHANGED <<sock, queue, hand, delivered, panicked, hubVars>>

\* ReadJSON fails, because the peer left or sent something that is not JSON,
\* or because the writer closed the socket; readLoop closes it and returns.
ReadError(c) ==
  /\ Goto(c, "reading", "leaving")
  /\ sock' = [sock EXCEPT ![c] = FALSE]
  /\ UNCHANGED <<queue, online, panicked, hubVars, writerVars>>

\* Mutant: the emptiness of the map is tested before c is deleted from it.
EntriesTestedEarly(c) ==
  IF hub[KeyOf[c]] = {} THEN entries \ {KeyOf[c]} ELSE entries

\* The map left when c is deleted from it is dropped if it is empty.
EntriesWithout(c) ==
  IF hub[KeyOf[c]] \ {c} = {} THEN entries \ {KeyOf[c]} ELSE entries

\* Mutant: the channel is not closed.
UnregisterWithoutClose(c) ==
  /\ Goto(c, "leaving", "unregistered")
  /\ hub' = [hub EXCEPT ![KeyOf[c]] = @ \ {c}]
  /\ entries' = EntriesWithout(c)
  /\ UNCHANGED <<sock, open, queue, online, panicked, sent, joined, writerVars>>

\* close(c.send) panics if broadcast closed it before.  The deferred unlock
\* and markOffline still run, and net/http recovers the panic.
UnregisterClient(c) ==
  /\ Goto(c, "leaving", "unregistered")
  /\ hub' = [hub EXCEPT ![KeyOf[c]] = @ \ {c}]
  /\ entries' = EntriesWithout(c)
  /\ open' = [open EXCEPT ![c] = FALSE]
  /\ panicked' = IF open[c] THEN panicked ELSE panicked \cup {c}
  /\ UNCHANGED <<sock, queue, online, sent, joined, writerVars>>

\* Mutant: the last connection to leave takes the others with it.
Forgotten(n) == 0

\* Mutant: unregisterClient takes the connection off the count as well.
DecrementedTwice(n) == n - 2

\* An entry that would reach 0 is deleted.
Decremented(n) == IF n > 1 THEN n - 1 ELSE 0

MarkOffline(c) ==
  /\ Goto(c, "unregistered", "gone")
  /\ online' = [online EXCEPT ![UserOf[c]] = Decremented(@)]
  /\ UNCHANGED <<sock, queue, panicked, hubVars, writerVars>>

-----------------------------------------------------------------------------
(* A broadcast, by whichever goroutine: one non-blocking send per client.  *)

\* The clients for whom the send would block.
Overflowing(k) == {c \in hub[k] : Len(queue[c]) = SendCap}

\* Mutant: a message that finds a full buffer is dropped, the client kept.
BroadcastDropping(k) ==
  /\ sent[k] < MaxSent
  /\ sent' = [sent EXCEPT ![k] = @ + 1]
  /\ queue' = [c \in Conns |-> IF c \in hub[k] \ Overflowing(k)
                               THEN Append(queue[c], sent[k] + 1)
                               ELSE queue[c]]
  /\ UNCHANGED <<pc, sock, hub, entries, open, online, panicked, joined,
                 writerVars>>

\* Mutant: a closed client stays in the map.
BroadcastKeeping(k) ==
  /\ sent[k] < MaxSent
  /\ sent' = [sent EXCEPT ![k] = @ + 1]
  /\ queue' = [c \in Conns |-> IF c \in hub[k] \ Overflowing(k)
                               THEN Append(queue[c], sent[k] + 1)
                               ELSE queue[c]]
  /\ open' = [c \in Conns |-> open[c] /\ c \notin Overflowing(k)]
  /\ UNCHANGED <<pc, sock, hub, entries, online, panicked, joined, writerVars>>

\* Mutant: a client is evicted by the message that fills its buffer.
BroadcastEager(k) ==
  LET full == {c \in hub[k] : Len(queue[c]) + 1 = SendCap}
  IN  /\ sent[k] < MaxSent
      /\ sent' = [sent EXCEPT ![k] = @ + 1]
      /\ queue' = [c \in Conns |-> IF c \in hub[k]
                                   THEN Append(queue[c], sent[k] + 1)
                                   ELSE queue[c]]
      /\ open' = [c \in Conns |-> open[c] /\ c \notin full]
      /\ hub' = [hub EXCEPT ![k] = @ \ full]
      /\ UNCHANGED <<pc, sock, entries, online, panicked, joined, writerVars>>

Broadcast(k) ==
  /\ sent[k] < MaxSent
  /\ sent' = [sent EXCEPT ![k] = @ + 1]
  /\ queue' = [c \in Conns |-> IF c \in hub[k] \ Overflowing(k)
                               THEN Append(queue[c], sent[k] + 1)
                               ELSE queue[c]]
  /\ open' = [c \in Conns |-> open[c] /\ c \notin Overflowing(k)]
  /\ hub' = [hub EXCEPT ![k] = @ \ Overflowing(k)]
  /\ UNCHANGED <<pc, sock, entries, online, panicked, joined, writerVars>>

-----------------------------------------------------------------------------
(* The writer goroutine: "for msg := range c.send".                        *)

TakeMsg(c) ==
  /\ writer[c] = "recv"
  /\ queue[c] # <<>>
  /\ writer' = [writer EXCEPT ![c] = "writing"]
  /\ hand' = [hand EXCEPT ![c] = <<Head(queue[c])>>]
  /\ queue' = [queue EXCEPT ![c] = Tail(@)]
  /\ UNCHANGED <<pc, sock, online, panicked, delivered, hubVars>>

WriteOk(c) ==
  /\ writer[c] = "writing"
  /\ sock[c]
  /\ writer' = [writer EXCEPT ![c] = "recv"]
  /\ hand' = [hand EXCEPT ![c] = <<>>]
  /\ delivered' = [delivered EXCEPT ![c] = @ \o hand[c]]
  /\ UNCHANGED <<pc, sock, queue, online, panicked, hubVars>>

\* Mutant: writeLoop returns without closing the socket.
WriterExitSilently(c) ==
  /\ writer' = [writer EXCEPT ![c] = "done"]
  /\ UNCHANGED <<pc, sock, queue, hand, online, panicked, delivered, hubVars>>

\* writeLoop returns, and its deferred call closes the socket.
WriterExit(c) ==
  /\ writer' = [writer EXCEPT ![c] = "done"]
  /\ sock' = [sock EXCEPT ![c] = FALSE]
  /\ UNCHANGED <<pc, queue, hand, online, panicked, delivered, hubVars>>

WriteFail(c) == writer[c] = "writing" /\ WriterExit(c)

\* The channel is closed and drained.
RangeEnd(c) ==
  /\ writer[c] = "recv"
  /\ queue[c] = <<>>
  /\ ~open[c]
  /\ WriterExit(c)

-----------------------------------------------------------------------------
HandlerStep(c) ==
  \/ RegisterClient(c)
  \/ MarkOnline(c)
  \/ ReadError(c)
  \/ UnregisterClient(c)
  \/ MarkOffline(c)

WriterStep(c) == TakeMsg(c) \/ WriteOk(c) \/ WriteFail(c) \/ RangeEnd(c)

\* The only states in which nothing is left to do: any other state without
\* a successor is a goroutine that is stuck, and TLC reports it.
Terminated ==
  /\ \A c \in Conns : pc[c] = "gone" /\ writer[c] = "done"
  /\ \A k \in Keys : sent[k] = MaxSent
  /\ UNCHANGED vars

Next ==
  \/ \E c \in Conns : HandlerStep(c) \/ WriterStep(c)
  \/ \E k \in Keys : Broadcast(k)
  \/ Terminated

Spec == Init /\ [][Next]_vars

\* A goroutine that can run does run: the mutexes are held for a bounded
\* time and no send blocks.  Nothing obliges a peer to read: only on a
\* socket the server closed do a read and a blocked write surely fail.
GoScheduling ==
  \A c \in Conns :
    /\ WF_vars(MarkOnline(c))
    /\ WF_vars(~sock[c] /\ ReadError(c))
    /\ WF_vars(UnregisterClient(c))
    /\ WF_vars(MarkOffline(c))
    /\ WF_vars(TakeMsg(c))
    /\ WF_vars(~sock[c] /\ WriteFail(c))
    /\ WF_vars(RangeEnd(c))

FairSpec == Spec /\ GoScheduling

-----------------------------------------------------------------------------
(* Properties.                                                             *)

\* Every variable has its type, and no channel holds more than its capacity.
TypeOK ==
  /\ pc \in [Conns -> HandlerStates]
  /\ writer \in [Conns -> WriterStates]
  /\ sock \in [Conns -> BOOLEAN]
  /\ hub \in [Keys -> SUBSET Conns]
  /\ entries \in SUBSET Keys
  /\ open \in [Conns -> BOOLEAN]
  /\ queue \in [Conns -> Seq(Nat)]
  /\ \A c \in Conns : Len(queue[c]) <= SendCap
  /\ hand \in [Conns -> Seq(Nat)]
  /\ online \in [Users -> Nat]
  /\ panicked \in SUBSET Conns
  /\ sent \in [Keys -> Nat]
  /\ joined \in [Conns -> Nat]
  /\ delivered \in [Conns -> Seq(Nat)]

\* The handler has registered c and has yet to unregister it.
Active(c) == pc[c] \in {"registered", "reading", "leaving"}

\* A client is in the map of its key, and in no other, exactly as long as
\* its channel is open: broadcast never sends on a closed channel, and no
\* client with an open channel is forgotten by broadcast.
OpenIffRegistered ==
  \A c \in Conns, k \in Keys :
    c \in hub[k] <=> k = KeyOf[c] /\ open[c] /\ Active(c)

\* A map stored under a key is owed to a handler that has still to call
\* unregisterClient: once the last handler of a key is through, evictions
\* and panics included, the key is deleted.
EntriesOwned ==
  \A k \in Keys :
    /\ k \in entries => \E c \in Conns : KeyOf[c] = k /\ Active(c)
    /\ k \notin entries => hub[k] = {}

\* The messages that broadcast has put into the channel of c.
Accepted(c) == Len(delivered[c]) + Len(hand[c]) + Len(queue[c])

\* s is <<n + 1, n + 2, ...>>.
RunAfter(n, s) == \A i \in 1..Len(s) : s[i] = n + i

\* Written, in hand and buffered, the messages of a client are the
\* consecutive broadcasts of its key since it registered; as long as it is
\* registered none is missing.  Eviction cuts the run short and never
\* leaves a hole in it.
StreamExact ==
  \A c \in Conns :
    /\ RunAfter(joined[c], delivered[c])
    /\ RunAfter(joined[c] + Len(delivered[c]), hand[c])
    /\ RunAfter(joined[c] + Len(delivered[c]) + Len(hand[c]), queue[c])
    /\ c \in hub[KeyOf[c]] => joined[c] + Accepted(c) = sent[KeyOf[c]]

\* Connections that markOnline has counted and markOffline has not yet.
Present(u) ==
  {c \in Conns : UserOf[c] = u /\ pc[c] \in {"reading", "leaving", "unregistered"}}

\* Server.online counts the connections of a user, whatever the order in
\* which they come, are evicted, panic and go.
PresenceExact == \A u \in Users : online[u] = Cardinality(Present(u))

\* unregisterClient panics exactly when the client missed a broadcast while
\* its handler was active: the second close of c.send is the price of
\* every eviction, and an orderly client never pays it.
PanicIffMissed ==
  [][\A c \in Conns :
       pc[c] = "leaving" /\ pc'[c] = "unregistered" =>
         (c \in panicked' <=> joined[c] + Accepted(c) < sent[KeyOf[c]])]_vars

\* Once the server has closed the socket of a connection, whichever of its
\* goroutines did, both end and the user's presence is given back.
SocketTeardown ==
  \A c \in Conns :
    (Active(c) /\ ~sock[c]) ~> (pc[c] = "gone" /\ writer[c] = "done")

\* If no write blocks for ever, an evicted connection is torn down.  The
\* hypothesis is needed: there is no write deadline, and a stalled peer
\* keeps an evicted connection, deaf and counted as online.
EvictedLeaves ==
  (\A c \in Conns : []<>(writer[c] # "writing")) =>
    \A c \in Conns : (pc[c] = "reading" /\ ~open[c]) ~> (pc[c] = "gone")

\* The hub implements an ordered feed: a peer is subscribed from the moment
\* its client is registered until the server closes the socket.
Phase == [c \in Conns |-> IF pc[c] = "new" THEN "before"
                          ELSE IF sock[c] THEN "subscribed" ELSE "over"]

Feed == INSTANCE OrderedFeed WITH phase <- Phase

ImplementsFeed == Feed!Spec
=============================================================================
