--------------------------- MODULE LiveChatProofs ---------------------------
(***************************************************************************)
(* Proofs about LiveChat, for any finite set of connections, any channel   *)
(* capacity and any number of messages, errors and restarts.  What is      *)
(* known of the path (ChatMessagingProofs) and of the hub (WsHubProofs)    *)
(* carries over to the whole, and a joint invariant ties them together.    *)
(***************************************************************************)
EXTENDS LiveChat, ChatMessagingProofs

\* The theorems about the hub, for the hub of LiveChat.
Known == INSTANCE WsHubProofs WITH
  Conns <- Readers, Keys <- {Chat}, Users <- Members, MaxSent <- MaxMsgs,
  pc <- stage

LEMMA HubAssumed == Known!HubAssumption
<1>1. /\ IsFiniteSet(Readers) /\ KeyOf \in [Readers -> {Chat}]
      /\ UserOf \in [Readers -> Members] /\ SendCap \in Nat \ {0} /\ MaxMsgs \in Nat
  BY LiveAssumption, MessagingAssumption DEF KeyOf
<1>2. Known!IsFiniteSet(Readers)
  BY <1>1 DEF IsFiniteSet, Known!IsFiniteSet
<1> QED BY <1>1, <1>2 DEF Known!HubAssumption

LEMMA KeyIsChat == \A c \in Readers : KeyOf[c] = Chat
BY DEF KeyOf

-----------------------------------------------------------------------------
(* The two components in the steps of the whole.                           *)

LEMMA PathStep == [LiveNext]_liveVars => [Next]_vars
BY DEF LiveNext, liveVars, Connection, Publish, Aside, Frame, Restart, Next, Step

LEMMA HubConnection ==
  ASSUME NEW c \in Readers, Connection(c)
  PROVE  Known!Next /\ UNCHANGED <<vars, base>>
<1>1. CASE Hub!RegisterClient(c)
  <2>1. Known!RegisterClient(c)
    BY <1>1 DEF Hub!RegisterClient, Known!RegisterClient, Hub!Goto, Known!Goto,
                Hub!writerVars, Known!writerVars
  <2> QED BY <2>1 DEF Known!Next, Known!HandlerStep, Connection
<1>2. CASE Hub!MarkOnline(c)
  <2>1. Known!MarkOnline(c)
    BY <1>2 DEF Hub!MarkOnline, Known!MarkOnline, Hub!Goto, Known!Goto,
                Hub!hubVars, Known!hubVars
  <2> QED BY <2>1 DEF Known!Next, Known!HandlerStep, Connection
<1>3. CASE Hub!ReadError(c)
  <2>1. Known!ReadError(c)
    BY <1>3 DEF Hub!ReadError, Known!ReadError, Hub!Goto, Known!Goto,
                Hub!hubVars, Known!hubVars, Hub!writerVars, Known!writerVars
  <2> QED BY <2>1 DEF Known!Next, Known!HandlerStep, Connection
<1>4. CASE Hub!UnregisterClient(c)
  <2>1. Known!UnregisterClient(c)
    BY <1>4 DEF Hub!UnregisterClient, Known!UnregisterClient, Hub!Goto, Known!Goto,
                Hub!EntriesWithout, Known!EntriesWithout,
                Hub!writerVars, Known!writerVars
  <2> QED BY <2>1 DEF Known!Next, Known!HandlerStep, Connection
<1>5. CASE Hub!MarkOffline(c)
  <2>1. Known!MarkOffline(c)
    BY <1>5 DEF Hub!MarkOffline, Known!MarkOffline, Hub!Goto, Known!Goto,
                Hub!Decremented, Known!Decremented,
                Hub!hubVars, Known!hubVars, Hub!writerVars, Known!writerVars
  <2> QED BY <2>1 DEF Known!Next, Known!HandlerStep, Connection
<1>6. CASE Hub!WriterStep(c)
  <2>1. CASE Hub!TakeMsg(c)
    <3>1. Known!TakeMsg(c)
      BY <2>1 DEF Hub!TakeMsg, Known!TakeMsg, Hub!hubVars, Known!hubVars
    <3> QED BY <3>1 DEF Known!WriterStep, Known!Next, Connection
  <2>2. CASE Hub!WriteOk(c)
    <3>1. Known!WriteOk(c)
      BY <2>2 DEF Hub!WriteOk, Known!WriteOk, Hub!hubVars, Known!hubVars
    <3> QED BY <3>1 DEF Known!WriterStep, Known!Next, Connection
  <2>3. CASE Hub!WriteFail(c)
    <3>1. Known!WriteFail(c)
      BY <2>3 DEF Hub!WriteFail, Known!WriteFail, Hub!WriterExit, Known!WriterExit,
                  Hub!hubVars, Known!hubVars
    <3> QED BY <3>1 DEF Known!WriterStep, Known!Next, Connection
  <2>4. CASE Hub!RangeEnd(c)
    <3>1. Known!RangeEnd(c)
      BY <2>4 DEF Hub!RangeEnd, Known!RangeEnd, Hub!WriterExit, Known!WriterExit,
                  Hub!hubVars, Known!hubVars
    <3> QED BY <3>1 DEF Known!WriterStep, Known!Next, Connection
  <2> QED BY <1>6, <2>1, <2>2, <2>3, <2>4 DEF Hub!WriterStep
<1> QED BY <1>1, <1>2, <1>3, <1>4, <1>5, <1>6 DEF Connection

LEMMA HubPublish ==
  ASSUME Hub!Broadcast(Chat)
  PROVE  Known!Next /\ Known!Broadcast(Chat)
<1>1. Known!Broadcast(Chat)
  BY DEF Hub!Broadcast, Known!Broadcast, Hub!Overflowing, Known!Overflowing,
         Hub!writerVars, Known!writerVars
<1> QED BY <1>1 DEF Known!Next

\* Every step is one of the hub, leaves it alone or starts it anew.
LEMMA LiveCases ==
  ASSUME [LiveNext]_liveVars
  PROVE  \/ \E c \in Readers : Connection(c)
         \/ \E g \in Goroutines : Publish(g)
         \/ \E g \in Goroutines : Aside(g)
         \/ Restart
         \/ UNCHANGED liveVars
BY DEF LiveNext

LEMMA HubStep ==
  ASSUME [LiveNext]_liveVars
  PROVE  [Known!Next]_(Known!vars) \/ Restart
<1>1. CASE \E c \in Readers : Connection(c)
  BY <1>1, HubConnection
<1>2. CASE \E g \in Goroutines : Publish(g)
  BY <1>2, HubPublish DEF Publish
<1>3. CASE \E g \in Goroutines : Aside(g)
  BY <1>3 DEF Aside, hubState, Known!vars
<1>4. CASE UNCHANGED liveVars
  BY <1>4 DEF liveVars, hubState, Known!vars
<1> QED BY <1>1, <1>2, <1>3, <1>4, LiveCases
-----------------------------------------------------------------------------
(* What is known of the hub, now that it may be started anew.              *)

HubKnown == Known!TypeOK /\ Known!HubInv /\ Known!StreamInv

LEMMA EmptyHub == LiveInit => Known!Init
BY DEF LiveInit, Hub!Init, Known!Init

LEMMA HubKnownInit == LiveInit => HubKnown
BY EmptyHub, HubAssumed, Known!TypeInit, Known!HubInit, Known!StreamInit DEF HubKnown

LEMMA HubKnownReset ==
  ASSUME HubReset
  PROVE  HubKnown'
<1>1. Known!TypeOK'
  BY LiveAssumption, MessagingAssumption
     DEF HubReset, Known!TypeOK, Known!HandlerStates, Known!WriterStates
<1>2. Known!HubInv'
  BY DEF HubReset, Known!HubInv, Known!OpenIffRegistered, Known!EntriesOwned,
         Known!Active
<1>3. ASSUME NEW c \in Readers PROVE Known!ConnInv(c)'
  <2>1. /\ stage'[c] = "new" /\ writer'[c] = "none" /\ ~open'[c]
        /\ joined'[c] = 0 /\ sent'[KeyOf[c]] = 0 /\ panicked' = {}
        /\ delivered'[c] = <<>> /\ hand'[c] = <<>> /\ queue'[c] = <<>>
    BY KeyIsChat DEF HubReset
  <2>2. Known!Consecutive(c)' /\ Known!HandMatches(c)'
    BY <2>1 DEF Known!Consecutive, Known!RunAfter, Known!HandMatches
  <2>3. joined'[c] + Known!Accepted(c)' = 0
    BY <2>1 DEF Known!Accepted
  <2> QED BY <2>1, <2>2, <2>3 DEF Known!ConnInv, Known!Accounted, Known!Active
<1> QED BY <1>1, <1>2, <1>3 DEF HubKnown, Known!StreamInv

LEMMA HubKnownStep == HubKnown /\ [LiveNext]_liveVars => HubKnown'
<1> SUFFICES ASSUME HubKnown, [LiveNext]_liveVars PROVE HubKnown'
  OBVIOUS
<1>1. CASE [Known!Next]_(Known!vars)
  BY <1>1, HubAssumed, Known!TypeStep, Known!HubStep, Known!StreamStep DEF HubKnown
<1>2. CASE Restart
  BY <1>2, HubKnownReset DEF Restart
<1> QED BY <1>1, <1>2, HubStep

-----------------------------------------------------------------------------
(* The two components together.                                            *)

\* The hub has been given what was appended to the feed since the start.
InStep == base \in Nat /\ base + sent[Chat] = Len(feed)

\* A readLoop has a message in hand only while its handler is in it; once
\* broadcast, the message stands in the feed after where the connection joined.
SentHere(c) ==
  /\ pc[c] # "idle" => stage[c] = "reading"
  /\ pc[c] \in Notifying =>
       \E i \in 1..Len(feed) : i > Start(c) /\ feed[i] = msg[c]

LiveInv ==
  /\ MessagingInv
  /\ HubKnown
  /\ InStep
  /\ \A c \in Readers : SentHere(c)

LEMMA LiveInvInit == LiveInit => LiveInv
<1> SUFFICES ASSUME LiveInit PROVE LiveInv
  OBVIOUS
<1>1. MessagingInv /\ HubKnown
  BY MessagingInit, HubKnownInit DEF LiveInit
<1>2. InStep
  BY DEF LiveInit, Init, Hub!Init, InStep
<1>3. \A c \in Readers : SentHere(c)
  BY DEF LiveInit, Init, SentHere, Goroutines, Notifying
<1> QED BY <1>1, <1>2, <1>3 DEF LiveInv

\* The types that the steps below need.
LEMMA LiveTypes ==
  ASSUME LiveInv
  PROVE  /\ pc \in [Goroutines -> Stages] /\ msg \in [Goroutines -> Nat]
         /\ stage \in [Readers -> Known!HandlerStates]
         /\ joined \in [Readers -> Nat] /\ sent \in [{Chat} -> Nat]
         /\ base \in Nat /\ sent[Chat] \in Nat
         /\ feed \in Seq(Nat) /\ Len(feed) \in Nat
         /\ Readers \subseteq Goroutines
<1>1. rows \subseteq Nat /\ feed \in Seq(rows)
  BY LenProperties DEF LiveInv, MessagingInv, TypeOK
<1>2. feed \in Seq(Nat) /\ Len(feed) \in Nat
  BY <1>1, SeqMonotonic, LenProperties
<1> QED
  BY <1>2 DEF LiveInv, MessagingInv, TypeOK, HubKnown, Known!TypeOK, InStep, Goroutines

\* Only Publish puts something into the feed or into the hub.
LEMMA InStepStep ==
  ASSUME LiveInv, [LiveNext]_liveVars
  PROVE  InStep'
<1> USE LiveTypes
<1>1. ASSUME NEW c \in Readers, Connection(c) PROVE InStep'
  <2>1. sent' = sent
    BY <1>1 DEF Connection, Hub!RegisterClient, Hub!MarkOnline, Hub!ReadError,
                Hub!UnregisterClient, Hub!MarkOffline, Hub!WriterStep, Hub!TakeMsg,
                Hub!WriteOk, Hub!WriteFail, Hub!RangeEnd, Hub!WriterExit, Hub!hubVars
  <2> QED BY <1>1, <2>1 DEF Connection, vars, LiveInv, InStep
<1>2. ASSUME NEW g \in Goroutines, Publish(g) PROVE InStep'
  <2>1. feed' = Append(feed, msg[g]) /\ base' = base
    BY <1>2 DEF Publish, Broadcast
  <2>2. Len(feed') = Len(feed) + 1
    <3>1. msg[g] \in Nat
      OBVIOUS
    <3> QED BY <2>1, <3>1, AppendProperties
  <2>3. sent'[Chat] = sent[Chat] + 1
    BY <1>2 DEF Publish, Hub!Broadcast
  <2> QED BY <2>1, <2>2, <2>3 DEF LiveInv, InStep
<1>3. ASSUME NEW g \in Goroutines, Aside(g) PROVE InStep'
  <2>1. feed' = feed
    BY <1>3 DEF Aside, Frame, Receive, StoreOk, StoreError, OpenChat, ListMembers,
                MembersError, Tell, HandOver, ReadSummary, SummaryError
  <2> QED BY <1>3, <2>1 DEF Aside, hubState, LiveInv, InStep
<1>4. CASE Restart
  <2>1. feed' = feed /\ base' = Len(feed) /\ sent'[Chat] = 0
    BY <1>4 DEF Restart, Crash, vars, HubReset
  <2> QED BY <2>1 DEF InStep
<1>5. CASE UNCHANGED liveVars
  BY <1>5 DEF liveVars, vars, hubState, LiveInv, InStep
<1> QED BY <1>1, <1>2, <1>3, <1>4, <1>5, LiveCases

\* The place at which a message stands after the start of a connection stays.
LEMMA HereSame ==
  ASSUME NEW c \in Readers, SentHere(c), pc'[c] = pc[c], msg'[c] = msg[c],
         feed' = feed, base' = base, joined'[c] = joined[c],
         pc[c] # "idle" => stage'[c] = "reading"
  PROVE  SentHere(c)'
BY DEF SentHere, Start

LEMMA HereConnection ==
  ASSUME LiveInv, NEW d \in Readers, Connection(d), NEW c \in Readers
  PROVE  SentHere(c)'
<1> USE LiveTypes
<1>0. /\ SentHere(c) /\ pc' = pc /\ msg' = msg /\ feed' = feed /\ base' = base
  BY DEF LiveInv, Connection, vars
<1>1. CASE pc[c] = "idle"
  BY <1>0, <1>1 DEF SentHere, Notifying
<1>2. CASE pc[c] # "idle"
  <2>1. stage[c] = "reading"
    BY <1>0, <1>2 DEF SentHere
  <2>2. stage'[c] = "reading" /\ joined'[c] = joined[c]
    BY <1>2, <2>1 DEF Connection, Hub!RegisterClient, Hub!MarkOnline, Hub!ReadError,
       Hub!UnregisterClient, Hub!MarkOffline, Hub!WriterStep, Hub!TakeMsg, Hub!WriteOk,
       Hub!WriteFail, Hub!RangeEnd, Hub!WriterExit, Hub!Goto, Hub!hubVars
  <2> QED BY <1>0, <2>2, HereSame
<1> QED BY <1>1, <1>2

LEMMA HerePublish ==
  ASSUME LiveInv, NEW g \in Goroutines, Publish(g), NEW c \in Readers
  PROVE  SentHere(c)'
<1> USE LiveTypes
<1>0. /\ SentHere(c) /\ stage' = stage /\ joined' = joined /\ base' = base
      /\ pc[g] = "stored" /\ pc' = [pc EXCEPT ![g] = "members"]
      /\ msg' = msg /\ feed' = Append(feed, msg[g])
  BY DEF LiveInv, Publish, Broadcast, Goto, Hub!Broadcast
<1>1. /\ Len(feed') = Len(feed) + 1 /\ feed'[Len(feed) + 1] = msg[g]
      /\ \A i \in 1..Len(feed) : feed'[i] = feed[i]
  BY <1>0, AppendProperties
<1>2. CASE c = g
  <2>1. stage[c] = "reading"
    BY <1>0, <1>2 DEF SentHere
  <2>2. joined[c] <= sent[Chat]
    <3>1. Known!Accounted(c) /\ Known!TypeOK
      BY DEF LiveInv, HubKnown, Known!StreamInv, Known!ConnInv
    <3>2. Known!Accepted(c) \in Nat
      BY <3>1, LenProperties DEF Known!Accepted, Known!TypeOK
    <3> QED BY <3>1, <3>2, KeyIsChat DEF Known!Accounted
  <2>3. Len(feed) + 1 > Start(c)'
    BY <1>0, <2>2 DEF LiveInv, InStep, Start
  <2> QED BY <1>0, <1>1, <1>2, <2>1, <2>3 DEF SentHere, Notifying
<1>3. CASE c # g
  <2>1. pc'[c] = pc[c] /\ msg'[c] = msg[c] /\ Start(c)' = Start(c)
    BY <1>0, <1>3 DEF Start
  <2>2. ASSUME pc[c] \in Notifying
        PROVE  \E i \in 1..Len(feed') : i > Start(c) /\ feed'[i] = msg[c]
    <3>1. PICK i \in 1..Len(feed) : i > Start(c) /\ feed[i] = msg[c]
      BY <1>0, <2>2 DEF SentHere
    <3>2. i \in 1..Len(feed') /\ feed'[i] = msg[c]
      BY <1>1, <3>1
    <3> QED BY <3>1, <3>2
  <2> QED BY <1>0, <2>1, <2>2 DEF SentHere
<1> QED BY <1>2, <1>3

LEMMA HereAside ==
  ASSUME LiveInv, NEW g \in Goroutines, Aside(g), NEW c \in Readers
  PROVE  SentHere(c)'
<1> USE LiveTypes
<1>0. /\ SentHere(c) /\ stage' = stage /\ joined' = joined /\ base' = base
      /\ feed' = feed
  BY DEF LiveInv, Aside, hubState, Frame, Receive, StoreOk, StoreError, OpenChat,
         ListMembers, MembersError, Tell, HandOver, ReadSummary, SummaryError
<1>1. CASE c # g
  <2>1. pc'[c] = pc[c] /\ msg'[c] = msg[c]
    BY <1>1 DEF Aside, Frame, Receive, StoreOk, StoreError, OpenChat, ListMembers,
                MembersError, Tell, HandOver, ReadSummary, SummaryError, Goto
  <2> QED BY <1>0, <2>1, HereSame DEF SentHere
<1>2. CASE c = g
  <2>1. CASE Frame(g)
    BY <1>0, <1>2, <2>1 DEF Frame, Receive, Goto, SentHere, Notifying
  <2>2. CASE StoreOk(g)
    BY <1>0, <1>2, <2>2 DEF StoreOk, Goto, SentHere, Notifying
  <2>3. CASE StoreError(g) \/ HandOver(g)
    <3>1. pc'[c] = "idle"
      BY <1>2, <2>3 DEF StoreError, HandOver, Goto, AtRest
    <3> QED BY <3>1 DEF SentHere, Notifying
  <2>4. CASE OpenChat(g)
    BY <1>2, <2>4, MessagingAssumption DEF OpenChat
  <2>5. CASE \/ ListMembers(g) \/ MembersError(g) \/ Tell(g)
             \/ \E u \in Members : ReadSummary(g, u) \/ SummaryError(g, u)
    <3>1. pc[c] \in Notifying /\ pc'[c] \in Notifying /\ msg' = msg
      BY <1>2, <2>5 DEF ListMembers, MembersError, Tell, ReadSummary, SummaryError,
                        Goto, Notifying
    <3> QED BY <1>0, <3>1 DEF SentHere, Start, Notifying
  <2> QED BY <1>2, <2>1, <2>2, <2>3, <2>4, <2>5 DEF Aside
<1> QED BY <1>1, <1>2

LEMMA HereRestart ==
  ASSUME LiveInv, Restart, NEW c \in Readers
  PROVE  SentHere(c)'
<1> USE LiveTypes
<1>1. pc'[c] = "idle"
  <2>1. CASE Crash
    BY <2>1 DEF Crash, AtRest
  <2>2. CASE Quiet /\ UNCHANGED vars
    BY <2>2 DEF Quiet, vars, LiveInv, MessagingInv, TypeOK
  <2> QED BY <2>1, <2>2 DEF Restart
<1> QED BY <1>1 DEF SentHere, Notifying

LEMMA LiveInvStep == LiveInv /\ [LiveNext]_liveVars => LiveInv'
<1> SUFFICES ASSUME LiveInv, [LiveNext]_liveVars PROVE LiveInv'
  OBVIOUS
<1>1. MessagingInv'
  BY PathStep, MessagingStep DEF LiveInv
<1>2. HubKnown'
  BY HubKnownStep DEF LiveInv
<1>3. ASSUME NEW c \in Readers PROVE SentHere(c)'
  <2>1. CASE UNCHANGED liveVars
    BY <2>1, HereSame DEF LiveInv, liveVars, vars, hubState, SentHere
  <2> QED
    BY <2>1, LiveCases, HereConnection, HerePublish, HereAside, HereRestart
<1> QED BY <1>1, <1>2, <1>3, InStepStep DEF LiveInv

LEMMA LiveInductive == LiveSpec => []LiveInv
BY LiveInvInit, LiveInvStep, PTL DEF LiveSpec

-----------------------------------------------------------------------------
(* What the peers get.                                                     *)

\* The path of the messages is the one of ChatMessaging: connections, hub and
\* restarts add nothing to it.
THEOREM LivePath == LiveSpec => Spec
BY PathStep, PTL DEF LiveSpec, LiveInit, Spec

\* So the whole, with its connections, evictions and restarts, is a mailbox,
\* leaves no message half way, and what a readLoop has begun comes to an end.
THEOREM LiveMailbox ==
  LiveSpec => ImplementsMailbox /\ [][WorkEnds]_vars /\ []NoneHalfway
BY LivePath, MailboxCorrect, WorkEndsCorrect, NoneHalfwayCorrect, PTL

\* The hub keeps its promises although its process dies and starts again with
\* empty maps, and although the broadcasts come from the very goroutines of
\* its connections: what is registered is open, every entry of a map is owed
\* to a handler, streams have no hole, and the counts of presence are exact.
HubSound ==
  /\ Known!OpenIffRegistered
  /\ Known!EntriesOwned
  /\ Known!StreamExact
  /\ Known!PresenceExact

LEMMA PresenceReset ==
  ASSUME HubReset
  PROVE  Known!PresenceExact'
<1> SUFFICES ASSUME NEW u \in Members
             PROVE  online'[u] = Known!Cardinality(Known!Present(u)')
  BY DEF Known!PresenceExact
<1>1. online'[u] = 0 /\ Known!Present(u)' = {}
  BY DEF HubReset, Known!Present
<1>2. Known!Cardinality({}) = 0
  BY FS_EmptySet DEF Cardinality, Known!Cardinality
<1> QED BY <1>1, <1>2

LEMMA PresenceLive ==
  HubKnown /\ Known!PresenceExact /\ [LiveNext]_liveVars => Known!PresenceExact'
<1> SUFFICES ASSUME HubKnown, Known!PresenceExact, [LiveNext]_liveVars
             PROVE  Known!PresenceExact'
  OBVIOUS
<1>1. CASE [Known!Next]_(Known!vars)
  BY <1>1, HubAssumed, Known!PresenceStep DEF HubKnown
<1>2. CASE Restart
  BY <1>2, PresenceReset DEF Restart
<1> QED BY <1>1, <1>2, HubStep

THEOREM HubSoundCorrect == LiveSpec => []HubSound
<1>1. LiveInit => Known!PresenceExact
  BY EmptyHub, HubAssumed, Known!PresenceInit
<1>2. LiveInv /\ Known!PresenceExact /\ [LiveNext]_liveVars => Known!PresenceExact'
  BY PresenceLive DEF LiveInv
<1>3. LiveInv => Known!OpenIffRegistered /\ Known!EntriesOwned
  BY DEF LiveInv, HubKnown, Known!HubInv
<1>4. LiveInv => Known!StreamExact
  <2> SUFFICES ASSUME Known!HubInv, Known!StreamInv PROVE Known!StreamExact
    BY DEF LiveInv, HubKnown
  <2> QED
    BY HubAssumed DEF Known!HubAssumption, Known!HubInv, Known!StreamInv, Known!StreamExact,
       Known!OpenIffRegistered, Known!ConnInv, Known!Consecutive, Known!Accounted
<1> QED BY <1>1, <1>2, <1>3, <1>4, LiveInductive, PTL DEF LiveSpec, HubSound

\* The sockets and writers of the hub, now that it may be started anew.
TeardownKnown == Known!SockInv /\ Known!WriterInv

LEMMA TeardownKnownStep == HubKnown /\ TeardownKnown /\ [LiveNext]_liveVars => TeardownKnown'
<1> SUFFICES ASSUME HubKnown, TeardownKnown, [LiveNext]_liveVars PROVE TeardownKnown'
  OBVIOUS
<1>1. CASE [Known!Next]_(Known!vars)
  BY <1>1, HubAssumed, Known!SockStep, Known!WriterInvStep DEF HubKnown, TeardownKnown
<1>2. CASE Restart
  BY <1>2 DEF Restart, HubReset, TeardownKnown, Known!SockInv, Known!WriterInv
<1> QED BY <1>1, <1>2, HubStep

\* What the teardown of a connection rests on holds of a hub that is started
\* anew, too, and whose broadcasts come from its own readLoops: both
\* goroutines of a closed connection can go on to their ends, but for a
\* message that the readLoop has in hand, which comes to an end by WorkEnds,
\* and for a peer that does not take what the writer is at.
THEOREM LiveTeardown == LiveSpec => []Known!TeardownReady
<1>1. LiveInit => TeardownKnown
  BY EmptyHub, HubAssumed, Known!SockInit, Known!WriterInvInit DEF TeardownKnown
<1>2. LiveInv /\ TeardownKnown /\ [LiveNext]_liveVars => TeardownKnown'
  BY TeardownKnownStep DEF LiveInv
<1>3. LiveInv /\ TeardownKnown => Known!TeardownReady
  BY HubAssumed, Known!TeardownFacts DEF LiveInv, HubKnown, TeardownKnown
<1> QED BY <1>1, <1>2, <1>3, LiveInductive, PTL DEF LiveSpec

\* Positions that follow one another stand for a run of the feed.
LEMMA MessagesRun ==
  ASSUME NEW n \in Nat, NEW s \in Seq(Nat), Known!RunAfter(n, s), base \in Nat
  PROVE  /\ Len(Messages(s)) = Len(s)
         /\ \A i \in 1..Len(s) : Messages(s)[i] = feed[base + n + i]
<1>1. Len(s) \in Nat
  BY LenProperties
<1>2. Len(Messages(s)) = Len(s)
  BY <1>1 DEF Messages
<1>3. ASSUME NEW i \in 1..Len(s) PROVE Messages(s)[i] = feed[base + n + i]
  <2>1. s[i] = n + i
    BY DEF Known!RunAfter
  <2>2. base + (n + i) = base + n + i
    BY <1>1
  <2> QED BY <2>1, <2>2 DEF Messages
<1> QED BY <1>2, <1>3

LEMMA FollowsAlways ==
  ASSUME LiveInv, NEW c \in Readers
  PROVE  /\ FollowsFeed(c)
         /\ Start(c) \in Nat /\ Len(Shown(c)) \in Nat /\ Len(Coming(c)) \in Nat
<1> USE LiveTypes
<1> DEFINE d == delivered[c]
           h == hand[c]
           q == queue[c]
<1>1. Known!TypeOK /\ Known!HubInv /\ Known!Consecutive(c) /\ Known!Accounted(c)
  BY DEF LiveInv, HubKnown, Known!StreamInv, Known!ConnInv
<1>2. /\ d \in Seq(Nat) /\ h \in Seq(Nat) /\ q \in Seq(Nat)
      /\ joined[c] \in Nat
  BY <1>1 DEF Known!TypeOK
<1>3. /\ Known!RunAfter(joined[c], d)
      /\ Known!RunAfter(joined[c] + Len(d), h)
      /\ Known!RunAfter(joined[c] + Len(d) + Len(h), q)
  BY <1>1 DEF Known!Consecutive
<1>4. Known!Accepted(c) = Len(d) + Len(h) + Len(q)
  BY DEF Known!Accepted
<1>5. /\ joined[c] + Known!Accepted(c) <= sent[Chat]
      /\ open[c] => joined[c] + Known!Accepted(c) = sent[Chat]
  BY <1>1, KeyIsChat DEF Known!Accounted, Known!HubInv
<1> HIDE DEF d, h, q
<1>6. /\ Len(d) \in Nat /\ Len(h) \in Nat /\ Len(q) \in Nat
      /\ h \o q \in Seq(Nat) /\ Len(h \o q) = Len(h) + Len(q)
  BY <1>2, LenProperties, ConcatProperties
<1>7. Known!RunAfter(joined[c] + Len(d), h \o q)
  BY <1>2, <1>3, <1>6, Known!RunConcat, HubAssumed
<1>8. /\ Len(Messages(d)) = Len(d)
      /\ \A i \in 1..Len(d) : Messages(d)[i] = feed[base + joined[c] + i]
  BY <1>2, <1>3, MessagesRun
<1>9. /\ Len(Messages(h \o q)) = Len(h) + Len(q)
      /\ \A i \in 1..(Len(h) + Len(q)) :
           Messages(h \o q)[i] = feed[base + (joined[c] + Len(d)) + i]
  <2> DEFINE n == joined[c] + Len(d)
             s == h \o q
  <2>1. n \in Nat /\ s \in Seq(Nat) /\ Len(s) = Len(h) + Len(q) /\ Known!RunAfter(n, s)
    BY <1>2, <1>6, <1>7
  <2> HIDE DEF n, s
  <2>2. /\ Len(Messages(s)) = Len(s)
        /\ \A i \in 1..Len(s) : Messages(s)[i] = feed[base + n + i]
    BY <2>1, MessagesRun
  <2>3. /\ Len(Messages(s)) = Len(h) + Len(q)
        /\ \A i \in 1..(Len(h) + Len(q)) : Messages(s)[i] = feed[base + n + i]
    BY <2>1, <2>2
  <2> QED BY <2>3 DEF n, s
<1>10. Shown(c) = Messages(d) /\ Coming(c) = Messages(h \o q)
  BY DEF Shown, Coming, d, h, q
<1>11. /\ Start(c) = base + joined[c] /\ Start(c) \in Nat
       /\ Start(c) + Len(d) = base + (joined[c] + Len(d))
       /\ base + sent[Chat] = Len(feed)
  BY <1>2, <1>6 DEF Start, LiveInv, InStep
<1>12. Start(c) + Len(d) + (Len(h) + Len(q)) = base + (joined[c] + Known!Accepted(c))
  BY <1>2, <1>4, <1>6, <1>11
<1>13. LET got == Start(c) + Len(d) + (Len(h) + Len(q))
       IN  got <= Len(feed) /\ (open[c] => got = Len(feed))
  <2>1. joined[c] + Known!Accepted(c) \in Nat
    BY <1>2, <1>4, <1>6
  <2> QED BY <1>5, <1>11, <1>12, <2>1
<1>14. Len(Shown(c)) = Len(d) /\ Len(Coming(c)) = Len(h) + Len(q)
  BY <1>8, <1>9, <1>10
<1>15. \A i \in 1..Len(Shown(c)) : Shown(c)[i] = feed[Start(c) + i]
  BY <1>8, <1>10, <1>11, <1>14
<1>16. \A i \in 1..Len(Coming(c)) :
         Coming(c)[i] = feed[Start(c) + Len(Shown(c)) + i]
  BY <1>9, <1>10, <1>11, <1>14
<1>17. LET got == Start(c) + Len(Shown(c)) + Len(Coming(c))
       IN  got <= Len(feed) /\ (open[c] => got = Len(feed))
  BY <1>13, <1>14
<1> QED BY <1>6, <1>11, <1>14, <1>15, <1>16, <1>17 DEF FollowsFeed

\* Every place of the feed after the start of an open connection is one that
\* it has got.
LEMMA PlaceServed ==
  ASSUME LiveInv, NEW c \in Readers, open[c],
         NEW i \in 1..Len(feed), i > Start(c)
  PROVE  Has(Shown(c), feed[i]) \/ Has(Coming(c), feed[i])
<1>1. /\ FollowsFeed(c) /\ Len(feed) \in Nat
      /\ Start(c) \in Nat /\ Len(Shown(c)) \in Nat /\ Len(Coming(c)) \in Nat
  BY FollowsAlways, LiveTypes
<1>2. i - Start(c) \in 1..(Len(Shown(c)) + Len(Coming(c)))
  BY <1>1 DEF FollowsFeed
<1>3. CASE i - Start(c) <= Len(Shown(c))
  <2>1. i - Start(c) \in 1..Len(Shown(c)) /\ Start(c) + (i - Start(c)) = i
    BY <1>1, <1>2, <1>3
  <2>2. Shown(c)[i - Start(c)] = feed[i]
    BY <1>1, <2>1 DEF FollowsFeed
  <2> QED BY <2>1, <2>2 DEF Has
<1>4. CASE i - Start(c) > Len(Shown(c))
  <2> DEFINE j == i - Start(c) - Len(Shown(c))
  <2>1. j \in 1..Len(Coming(c)) /\ Start(c) + Len(Shown(c)) + j = i
    BY <1>1, <1>2, <1>4
  <2>2. Coming(c)[j] = feed[i]
    BY <1>1, <2>1 DEF FollowsFeed
  <2> QED BY <2>1, <2>2 DEF Has
<1> QED BY <1>1, <1>2, <1>3, <1>4

LEMMA EchoAlways ==
  ASSUME LiveInv, NEW c \in Readers
  PROVE  EchoComes(c)
<1> SUFFICES ASSUME pc[c] \in Notifying, open[c]
             PROVE  Has(Shown(c), msg[c]) \/ Has(Coming(c), msg[c])
  BY DEF EchoComes
<1>1. PICK i \in 1..Len(feed) : i > Start(c) /\ feed[i] = msg[c]
  BY DEF LiveInv, SentHere
<1> QED BY <1>1, PlaceServed

LEMMA OrderAlways ==
  ASSUME LiveInv, NEW c \in Readers
  PROVE  ShownInOrder(c)
<1>1. /\ FollowsFeed(c) /\ Len(feed) \in Nat
      /\ Start(c) \in Nat /\ Len(Shown(c)) \in Nat /\ Len(Coming(c)) \in Nat
  BY FollowsAlways, LiveTypes
<1>2. ASSUME NEW i \in 1..Len(Shown(c))
      PROVE  Start(c) + i \in 1..Len(feed) /\ Shown(c)[i] = feed[Start(c) + i]
  BY <1>1 DEF FollowsFeed
<1>3. /\ \A i \in 1..Len(feed) : feed[i] \in rows \ lost
      /\ Once /\ SenderOrder
  BY DEF LiveInv, MessagingInv, Placed, InFeed
<1> SUFFICES ASSUME NEW i \in 1..Len(Shown(c)), NEW j \in 1..Len(Shown(c))
             PROVE  /\ Shown(c)[i] \in rows \ lost
                    /\ i # j => Shown(c)[i] # Shown(c)[j]
                    /\ i < j /\ by[Shown(c)[i]] = by[Shown(c)[j]] =>
                         Shown(c)[i] < Shown(c)[j]
  BY DEF ShownInOrder
<1> DEFINE p == Start(c) + i
           q == Start(c) + j
<1>4. /\ p \in 1..Len(feed) /\ Shown(c)[i] = feed[p]
      /\ q \in 1..Len(feed) /\ Shown(c)[j] = feed[q]
      /\ (i # j => p # q) /\ (i < j => p < q)
  BY <1>1, <1>2
<1> HIDE DEF p, q
<1> QED BY <1>3, <1>4 DEF Once, SenderOrder

LEMMA NothingBetweenAlways ==
  ASSUME LiveInv, NEW c \in Readers
  PROVE  NothingBetween(c)
<1> SUFFICES ASSUME open[c], NEW m \in rows
             PROVE  \/ m \in {feed[i] : i \in 1..Start(c)}
                    \/ Has(Shown(c), m) \/ Has(Coming(c), m)
                    \/ m \in HandledIn({"stored"}) \cup lost
  BY DEF NothingBetween
<1>1. m \in InFeed \cup lost \/ Holding(m, {"stored"})
  BY DEF LiveInv, MessagingInv, Placed
<1>2. CASE Holding(m, {"stored"})
  BY <1>2 DEF Holding, HandledIn
<1>3. CASE m \in InFeed
  <2>1. PICK i \in 1..Len(feed) : feed[i] = m
    BY <1>3 DEF InFeed
  <2>2. Start(c) \in Nat /\ Len(feed) \in Nat
    BY FollowsAlways, LiveTypes
  <2>3. CASE i > Start(c)
    BY <2>1, <2>3, PlaceServed
  <2>4. CASE i <= Start(c)
    <3>1. i \in 1..Start(c)
      BY <2>2, <2>4
    <3> QED BY <2>1, <3>1
  <2> QED BY <2>2, <2>3, <2>4
<1> QED BY <1>1, <1>2, <1>3

\* Through evictions, broken sockets, errors and restarts, every connection
\* gets the feed from where it joined without a hole, its own messages come
\* back on it, what it shows is history in the order of its authors, and no
\* row falls between history and stream.
THEOREM PeersServedCorrect == LiveSpec => []PeersServed
<1>1. LiveInv => PeersServed
  BY FollowsAlways, EchoAlways, OrderAlways, NothingBetweenAlways DEF PeersServed
<1> QED BY <1>1, LiveInductive, PTL
=============================================================================
