------------------------------ MODULE LiveChat ------------------------------
(***************************************************************************)
(* ChatMessaging and WsHub as one system: the readLoops that store and     *)
(* broadcast the messages of a chat are those of the connections that the  *)
(* chat's hub serves, so that a connection gets its own messages back, is  *)
(* evicted by what others send, and goes on to store and broadcast while   *)
(* it is deaf.  A broadcast is one step of both; a crash, which keeps the  *)
(* database, leaves a hub with nobody in it.                               *)
(***************************************************************************)
EXTENDS ChatMessaging

CONSTANTS
  Chat,     \* the key of the chat in chatHubs
  UserOf,   \* the user of a connection, a member of the chat
  SendCap   \* capacity of client.send, 16 in the code

ASSUME LiveAssumption ==
  /\ IsFiniteSet(Readers)
  /\ UserOf \in [Readers -> Members]
  /\ SendCap \in Nat \ {0}

VARIABLES
  stage, writer, sock, hub, entries, open, queue, hand, online, panicked,
  sent, joined, delivered,   \* as in WsHub, stage for its pc
  base                       \* auxiliary: Len(feed) when the process started

KeyOf == [c \in Readers |-> Chat]

Hub == INSTANCE WsHub WITH
  Conns <- Readers, Keys <- {Chat}, Users <- Members, MaxSent <- MaxMsgs,
  pc <- stage

hubState == <<stage, writer, sock, hub, entries, open, queue, hand, online,
              panicked, sent, joined, delivered>>
liveVars == <<vars, hubState, base>>

LiveInit == Init /\ Hub!Init /\ base = 0

-----------------------------------------------------------------------------
\* A connection comes, goes or has its writer at work.  Its handler is in
\* ReadJSON, and can see it fail, only between two frames.
Connection(c) ==
  /\ \/ Hub!RegisterClient(c) \/ Hub!MarkOnline(c)
     \/ pc[c] = "idle" /\ Hub!ReadError(c)
     \/ Hub!UnregisterClient(c) \/ Hub!MarkOffline(c)
     \/ Hub!WriterStep(c)
  /\ UNCHANGED <<vars, base>>

\* Mutant: a frame is handled before the connection is in the hub.
FrameBeforeJoin(g) == Receive(g) /\ stage[g] \in {"new", "registered", "reading"}

\* A frame arrives on a connection whose handler is in readLoop.
Frame(g) == Receive(g) /\ stage[g] = "reading"

Publish(g) ==
  /\ Broadcast(g)
  /\ Hub!Broadcast(Chat)
  /\ UNCHANGED base

\* What a readLoop or HandleChats does besides puts nothing into this hub.
Aside(g) ==
  /\ \/ Frame(g) \/ StoreOk(g) \/ StoreError(g) \/ OpenChat(g)
     \/ ListMembers(g) \/ MembersError(g) \/ Tell(g) \/ HandOver(g)
     \/ \E u \in Members : ReadSummary(g, u) \/ SummaryError(g, u)
  /\ UNCHANGED <<hubState, base>>

\* The hub of a process that has just started.
HubReset ==
  /\ stage' = [c \in Readers |-> "new"]
  /\ writer' = [c \in Readers |-> "none"]
  /\ sock' = [c \in Readers |-> FALSE]
  /\ hub' = [k \in {Chat} |-> {}]
  /\ entries' = {}
  /\ open' = [c \in Readers |-> FALSE]
  /\ queue' = [c \in Readers |-> <<>>]
  /\ hand' = [c \in Readers |-> <<>>]
  /\ online' = [u \in Members |-> 0]
  /\ panicked' = {}
  /\ sent' = [k \in {Chat} |-> 0]
  /\ joined' = [c \in Readers |-> 0]
  /\ delivered' = [c \in Readers |-> <<>>]

\* Nobody is at work on a message or a chat_update.
Quiet == \A g \in Goroutines : pc[g] \in {"idle", "gone"}

\* The process dies, at work or not, and is started again.
Restart ==
  /\ Crash \/ (Quiet /\ UNCHANGED vars)
  /\ HubReset
  /\ base' = Len(feed)

LiveNext ==
  \/ \E c \in Readers : Connection(c)
  \/ \E g \in Goroutines : Publish(g) \/ Aside(g)
  \/ Restart

LiveSpec == LiveInit /\ [][LiveNext]_liveVars

-----------------------------------------------------------------------------
(* Properties.  delivered, hand and queue hold positions among the         *)
(* broadcasts of the process; here they are the messages at these.         *)

Messages(s) == [i \in 1..Len(s) |-> feed[base + s[i]]]

\* What was written to the socket of c, oldest first, and what is to be.
Shown(c) == Messages(delivered[c])
Coming(c) == Messages(hand[c] \o queue[c])

Has(s, m) == \E i \in 1..Len(s) : s[i] = m

\* Where the feed stood when c was registered.
Start(c) == base + joined[c]

\* Written and still to be written, a connection has got the feed from where
\* it stood when it was registered, without a hole; as long as its channel
\* is open it lacks nothing of it.
FollowsFeed(c) ==
  /\ \A i \in 1..Len(Shown(c)) : Shown(c)[i] = feed[Start(c) + i]
  /\ \A i \in 1..Len(Coming(c)) : Coming(c)[i] = feed[Start(c) + Len(Shown(c)) + i]
  /\ LET got == Start(c) + Len(Shown(c)) + Len(Coming(c))
     IN  got <= Len(feed) /\ (open[c] => got = Len(feed))

\* A message that its readLoop has broadcast comes back on the connection it
\* was sent on, unless the connection has been evicted.
EchoComes(c) ==
  pc[c] \in Notifying /\ open[c] =>
    Has(Shown(c), msg[c]) \/ Has(Coming(c), msg[c])

\* What a peer is shown is in the history, never twice, and in the order in
\* which its author wrote it: the age of the rows.
ShownInOrder(c) ==
  \A i, j \in 1..Len(Shown(c)) :
    /\ Shown(c)[i] \in rows \ lost
    /\ i # j => Shown(c)[i] # Shown(c)[j]
    /\ i < j /\ by[Shown(c)[i]] = by[Shown(c)[j]] => Shown(c)[i] < Shown(c)[j]

\* No row falls between history and stream: at any time a row is one that was
\* broadcast before c was registered, so that a page of history asked for
\* since has it, or c has got it or will, unless its readLoop has yet to
\* broadcast it or lost it to an error or a crash.
NothingBetween(c) ==
  open[c] =>
    rows \subseteq
      {feed[i] : i \in 1..Start(c)}
      \cup {m \in rows : Has(Shown(c), m) \/ Has(Coming(c), m)}
      \cup HandledIn({"stored"}) \cup lost

\* The two components together, seen from every connection, through
\* evictions, broken sockets, errors and restarts.
PeersServed ==
  \A c \in Readers :
    FollowsFeed(c) /\ EchoComes(c) /\ ShownInOrder(c) /\ NothingBetween(c)
=============================================================================
