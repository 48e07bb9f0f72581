------------------------------ MODULE Delivery ------------------------------
(***************************************************************************)
(* What the device of one recipient ends up with: the message path of      *)
(* ChatMessaging, and next to it the connections of the device, the pages  *)
(* of history and the chat list it asks for, and the look at presence by   *)
(* which sendPushForMessage decides whether to alert it.  Every message of *)
(* the path is sent by somebody else.  A device that opens the chat        *)
(* subscribes first and then asks for pages until one comes back short;    *)
(* one that opens the chat list subscribes first and then asks for it.     *)
(***************************************************************************)
EXTENDS ChatMessaging

CONSTANTS
  Me,            \* the recipient
  Asked,         \* the limit that its device asks for
  MaxLimit,      \* 200
  DefaultLimit   \* 50

\* A device that asks for more than MaxLimit gets the default, and would take
\* the first page for the last.
ASSUME DeliveryAssumption ==
  /\ Me \in Members
  /\ MaxLimit \in Nat
  /\ Asked \in 1..MaxLimit
  /\ DefaultLimit \in Nat \ {0}

VARIABLES
  chat,     \* its connection to /ws for the chat: see Stands
  list,     \* its connection to /ws/chats
  deaf,     \* some connection counts as online and hears nothing of the chat
  known,    \* ids it was given in frames and pages
  paging,   \* "off", "next" page, or "done"
  cursor,   \* before_id of the next page, 0 for none
  pages,    \* full pages it got since it opened the chat
  listed,   \* it has got the chat list since it subscribed to it
  shown,    \* last messages it was shown in the chat list, 0 for none
  alerted,  \* ids for which it was made a target of a push
  passed,   \* ids for which it was passed over, as it is online
  unlooked  \* auxiliary: ids whose push goroutine gave up or died

deviceVars == <<chat, list, deaf, known, paging, cursor, pages, listed, shown>>
lookVars == <<alerted, passed, unlooked>>
deliveryVars == <<vars, deviceVars, lookVars>>

\* "registered": in the hub and not yet counted as online; "open": both.
Stands == {"none", "registered", "open"}

DeliveryInit ==
  /\ Init
  /\ chat = "none" /\ list = "none" /\ deaf = FALSE
  /\ known = {}
  /\ paging = "off" /\ cursor = 0 /\ pages = 0
  /\ listed = FALSE /\ shown = {}
  /\ alerted = {} /\ passed = {} /\ unlooked = {}

-----------------------------------------------------------------------------
(* The connections of the device.                                          *)

\* UserInChat, which guards the chat's websocket and its history.
IsMember == Me \in Members

\* HandleWebsocket up to registerClient.
JoinChat ==
  /\ IsMember
  /\ chat = "none"
  /\ chat' = "registered"
  /\ paging' = "next" /\ cursor' = 0 /\ pages' = 0
  /\ UNCHANGED <<vars, list, deaf, known, listed, shown, lookVars>>

\* HandleChatListWebsocket up to registerChatListClient.
JoinList ==
  /\ list = "none"
  /\ list' = "registered"
  /\ listed' = FALSE /\ shown' = {}
  /\ UNCHANGED <<vars, chat, deaf, known, paging, cursor, pages, lookVars>>

\* markOnline, after the registration.
MarkOnline ==
  /\ \/ chat = "registered" /\ chat' = "open" /\ UNCHANGED list
     \/ list = "registered" /\ list' = "open" /\ UNCHANGED chat
  /\ UNCHANGED <<vars, deaf, known, paging, cursor, pages, listed, shown, lookVars>>

\* The chat's connection breaks, or is evicted: what is on its way no longer
\* arrives, and the handler counts it until it notices.
LeaveChat ==
  /\ chat # "none"
  /\ chat' = "none" /\ deaf' = TRUE
  /\ paging' = "off" /\ cursor' = 0 /\ pages' = 0
  /\ UNCHANGED <<vars, list, known, listed, shown, lookVars>>

LeaveList ==
  /\ list # "none"
  /\ list' = "none" /\ deaf' = TRUE
  /\ listed' = FALSE /\ shown' = {}
  /\ UNCHANGED <<vars, chat, known, paging, cursor, pages, lookVars>>

\* A connection to another chat; or the end of the last one that is deaf,
\* with its markOffline.
Elsewhere ==
  /\ deaf' = ~deaf
  /\ UNCHANGED <<vars, chat, list, known, paging, cursor, pages, listed, shown, lookVars>>

-----------------------------------------------------------------------------
(* GET /api/chats/{id}/messages and GET /api/chats.                        *)

Limit == IF Asked \in 1..MaxLimit THEN Asked ELSE DefaultLimit

\* Mutant: id <= before_id.
OlderOrEqual(before) == IF before > 0 THEN {m \in rows : m <= before} ELSE rows

Older(before) == IF before > 0 THEN {m \in rows : m < before} ELSE rows

\* Mutant: ORDER BY id without DESC.
OldestPage(before) ==
  {m \in Older(before) : Cardinality({n \in Older(before) : n < m}) < Limit}

\* ORDER BY id DESC LIMIT Limit.
Page(before) ==
  {m \in Older(before) : Cardinality({n \in Older(before) : n > m}) < Limit}

\* A full page: the next one is asked for with its first id.
FullPage ==
  /\ paging = "next" /\ IsMember
  /\ Cardinality(Page(cursor)) >= Asked
  /\ \E first \in Page(cursor) :
       /\ \A m \in Page(cursor) : first <= m
       /\ cursor' = first
  /\ known' = known \cup Page(cursor)
  /\ pages' = pages + 1
  /\ UNCHANGED <<vars, chat, list, deaf, paging, listed, shown, lookVars>>

LastPage ==
  /\ paging = "next" /\ IsMember
  /\ Cardinality(Page(cursor)) < Asked
  /\ paging' = "done"
  /\ known' = known \cup Page(cursor)
  /\ UNCHANGED <<vars, chat, list, deaf, cursor, pages, listed, shown, lookVars>>

\* ListChats: the row of the chat carries its last message.
LoadList ==
  /\ list # "none" /\ ~listed
  /\ listed' = TRUE
  /\ \E m \in rows \cup {0} : IsLast(m) /\ shown' = shown \cup {m}
  /\ UNCHANGED <<vars, chat, list, deaf, known, paging, cursor, pages, lookVars>>

-----------------------------------------------------------------------------
(* The message path, as the device sees it.                                *)

\* Mutant: only connections that count as online are served.
DeliverToOpen(g) ==
  /\ Broadcast(g)
  /\ known' = IF chat = "open" THEN known \cup {msg[g]} ELSE known
  /\ UNCHANGED <<chat, list, deaf, paging, cursor, pages, listed, shown, lookVars>>

Deliver(g) ==
  /\ Broadcast(g)
  /\ known' = IF chat # "none" THEN known \cup {msg[g]} ELSE known
  /\ UNCHANGED <<chat, list, deaf, paging, cursor, pages, listed, shown, lookVars>>

ShowUpdate(g) ==
  /\ Tell(g)
  /\ shown' = IF list # "none" /\ note[g][1] = Me
              THEN shown \cup {note[g][2]} ELSE shown
  /\ UNCHANGED <<chat, list, deaf, known, paging, cursor, pages, listed, lookVars>>

\* The other steps of a goroutine do not reach the device.
Unseen(g) ==
  /\ \/ Receive(g) \/ StoreOk(g) \/ StoreError(g) \/ OpenChat(g)
     \/ ListMembers(g) \/ MembersError(g) \/ HandOver(g)
     \/ \E u \in Members : ReadSummary(g, u) \/ SummaryError(g, u)
  /\ UNCHANGED <<deviceVars, lookVars>>

\* The ids whose push goroutine has yet to look.
ToLook == pushed \ (alerted \cup passed \cup unlooked)

CountsAsOnline == chat = "open" \/ list = "open" \/ deaf

\* getOnlineStatus in sendPushForMessage.
Look(m) ==
  /\ m \in ToLook
  /\ IF CountsAsOnline
     THEN passed' = passed \cup {m} /\ UNCHANGED alerted
     ELSE alerted' = alerted \cup {m} /\ UNCHANGED passed
  /\ UNCHANGED <<vars, deviceVars, unlooked>>

\* ListChatMemberIDs fails in sendPushForMessage.
LookError(m) ==
  /\ m \in ToLook
  /\ unlooked' = unlooked \cup {m}
  /\ UNCHANGED <<vars, deviceVars, alerted, passed>>

\* The server dies: no connection is left.
Restart ==
  /\ Crash
  /\ chat' = "none" /\ list' = "none" /\ deaf' = FALSE
  /\ paging' = "off" /\ cursor' = 0 /\ pages' = 0
  /\ listed' = FALSE /\ shown' = {}
  /\ unlooked' = unlooked \cup ToLook
  /\ UNCHANGED <<known, alerted, passed>>

Device ==
  \/ JoinChat \/ JoinList \/ MarkOnline \/ LeaveChat \/ LeaveList \/ Elsewhere
  \/ FullPage \/ LastPage \/ LoadList

DeliveryNext ==
  \/ Device
  \/ \E g \in Goroutines : Deliver(g) \/ ShowUpdate(g) \/ Unseen(g)
  \/ \E m \in pushed : Look(m) \/ LookError(m)
  \/ Restart

DeliverySpec == DeliveryInit /\ [][DeliveryNext]_deliveryVars

-----------------------------------------------------------------------------
\* Every variable of the device has its type, and pages and the chat list
\* belong to an open connection.
DeviceTypeOK ==
  /\ chat \in Stands /\ list \in Stands /\ deaf \in BOOLEAN
  /\ known \subseteq rows
  /\ paging \in {"off", "next", "done"}
  /\ paging = "off" <=> chat = "none"
  /\ cursor \in Nat /\ pages \in Nat
  /\ listed \in BOOLEAN /\ (listed => list # "none")
  /\ shown \subseteq rows \cup {0}
  /\ alerted \cup passed \cup unlooked \subseteq pushed

\* The ids that the pages so far should cover.
Covered == IF paging = "done" THEN rows
           ELSE IF cursor = 0 THEN {} ELSE {m \in rows : m >= cursor}

\* However insertions, commits and pages interleave, ids that are committed
\* after younger ones included, a device that subscribed before it asked for
\* pages has no gap: as far back as it has loaded, it knows every row but
\* those whose readLoop has yet to broadcast them and those that an error of
\* StoreMessage kept from the broadcast.
HistoryComplete ==
  Covered \subseteq known \cup HandledIn({"stored"}) \cup lost

\* Paging back ends and gives nothing twice, though messages keep coming in:
\* every full page accounts for as many rows of its own.
PagesBounded == pages * Asked <= Cardinality({m \in rows : m >= cursor})

\* A device that subscribed to the chat list before it asked for it is not
\* left behind: for every message that was broadcast it has been shown this
\* or a later one, or notifyChatUpdate has yet to turn to it or has failed.
ListNotBehind ==
  listed => \A m \in InFeed :
    \/ \E t \in shown : t >= m
    \/ <<Me, m>> \in missed
    \/ \E g \in Readers : msg[g] = m /\ Me \in Untold(g)

\* The device knows m, or a page that it has yet to load will have it.
ChatBrings(m) == m \in known \/ (paging = "next" /\ (cursor = 0 \/ m < cursor))

\* It has been shown m or what is later, or has yet to load the list, or the
\* update failed.
ListBrings(m) ==
  ~listed \/ (\E t \in shown : t >= m) \/ <<Me, m>> \in missed

\* Nobody falls between broadcast and push without a cause: if no push is
\* sent as the recipient is online, then each of its connections that hears
\* of the chat brings it the message; only who has no other connection than
\* one to another chat, one that was evicted or one that has broken unnoticed
\* is told by nobody.
NoSilentSkip ==
  [][\A m \in passed' \ passed :
       /\ chat # "none" => ChatBrings(m)
       /\ list # "none" => ListBrings(m)
       /\ chat = "none" /\ list = "none" => deaf]_deliveryVars
=============================================================================
