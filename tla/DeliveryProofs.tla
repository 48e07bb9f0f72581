--------------------------- MODULE DeliveryProofs ---------------------------
(***************************************************************************)
(* Proofs about Delivery, for any number of connections, members,          *)
(* messages, page sizes, errors and crashes.  Its steps are steps of       *)
(* ChatMessaging or leave the message path alone, so that MessagingInv is  *)
(* at hand.                                                                *)
(***************************************************************************)
EXTENDS Delivery, ChatMessagingProofs

\* What a chat_update carries is a row, or no message at all.
NotesReal == \A g \in Goroutines : pc[g] = "tell" => note[g][2] \in rows \cup {0}

\* Without a page there is no cursor, and without a cursor no page.
PagesBegun == (paging = "off" => cursor = 0) /\ (cursor = 0 => pages = 0)

\* One message of HistoryComplete.
Accounted(m) == m \in known \cup lost \/ Holding(m, {"stored"})

\* One message of ListNotBehind.
Listed(m) ==
  \/ \E t \in shown : t >= m
  \/ <<Me, m>> \in missed
  \/ \E r \in Readers : msg[r] = m /\ Me \in Untold(r)

DeliveryInv ==
  /\ MessagingInv
  /\ DeviceTypeOK
  /\ NotesReal
  /\ PagesBegun
  /\ \A m \in Covered : Accounted(m)
  /\ PagesBounded
  /\ listed => \A m \in InFeed : Listed(m)

-----------------------------------------------------------------------------
(* Sets of rows.                                                           *)

LEMMA RowsFinite ==
  ASSUME TypeOK, NEW S, S \subseteq rows
  PROVE  IsFiniteSet(S) /\ Cardinality(S) \in Nat
<1>1. Len(by) \in Nat /\ S \subseteq 1..Len(by)
  BY DEF TypeOK
<1>2. IsFiniteSet(1..Len(by))
  BY <1>1, FS_Interval
<1> QED BY <1>1, <1>2, FS_Subset, FS_CardinalityType

LEMMA RowsInNat ==
  ASSUME TypeOK
  PROVE  rows \subseteq Nat \ {0} /\ Len(by) \in Nat /\ rows \subseteq 1..Len(by)
BY DEF TypeOK

-----------------------------------------------------------------------------
(* Pages.                                                                  *)

LEMMA LimitHonoured == Limit = Asked /\ Asked \in Nat \ {0}
BY DeliveryAssumption DEF Limit

\* A page that is not full has all rows that are left.
LEMMA ShortPage ==
  ASSUME TypeOK, NEW before \in Nat, Cardinality(Page(before)) < Limit
  PROVE  Page(before) = Older(before)
<1> DEFINE Rest == Older(before) \ Page(before)
<1>1. /\ Older(before) \subseteq rows /\ Page(before) \subseteq rows
      /\ Page(before) \subseteq Older(before)
  BY DEF Older, Page
<1>2. SUFFICES ASSUME Rest # {} PROVE FALSE
  BY <1>1
<1>3. PICK m \in Rest : \A n \in Rest : n <= m
  <2>1. Rest \subseteq 1..Len(by) /\ Len(by) \in Nat
    BY <1>1, RowsInNat
  <2> HIDE DEF Rest
  <2> QED BY <1>2, <2>1, Greatest
<1> DEFINE Newer == {n \in Older(before) : n > m}
<1>4. Newer \subseteq Page(before)
  <2>1. Rest \subseteq Nat
    BY <1>1, RowsInNat
  <2> QED BY <1>3, <2>1
<1>5. /\ Cardinality(Newer) <= Cardinality(Page(before))
      /\ Cardinality(Newer) \in Nat /\ Cardinality(Page(before)) \in Nat
  <2>1. IsFiniteSet(Page(before)) /\ Cardinality(Page(before)) \in Nat
    BY <1>1, RowsFinite
  <2>2. Newer \subseteq rows
    BY <1>1
  <2> HIDE DEF Newer
  <2>3. Cardinality(Newer) \in Nat
    BY <2>2, RowsFinite
  <2> QED BY <1>4, <2>1, <2>3, FS_Subset
<1>6. ~(Cardinality(Newer) < Limit)
  BY <1>3 DEF Page
<1>7. Limit \in Nat
  BY LimitHonoured
<1> HIDE DEF Newer
<1> QED BY <1>5, <1>6, <1>7

\* A page goes down to its first id without a gap.
LEMMA PageWithoutGap ==
  ASSUME TypeOK, NEW before \in Nat, NEW first \in Page(before),
         NEW m \in Older(before), first <= m
  PROVE  m \in Page(before)
<1> DEFINE Above(x) == {n \in Older(before) : n > x}
<1>1. Older(before) \subseteq rows /\ first \in Older(before)
  BY DEF Older, Page
<1>2. Above(m) \subseteq Above(first) /\ Above(first) \subseteq rows
  BY <1>1, RowsInNat
<1>3. Cardinality(Above(first)) < Limit
  BY DEF Page
<1>4. Cardinality(Above(m)) < Limit
  <2> DEFINE A == Above(m)
             B == Above(first)
  <2>0. A \subseteq B /\ B \subseteq rows /\ Cardinality(B) < Limit
    BY <1>2, <1>3
  <2> HIDE DEF A, B
  <2>1. IsFiniteSet(B) /\ Cardinality(B) \in Nat /\ Cardinality(A) \in Nat
    BY <2>0, RowsFinite
  <2>2. Cardinality(A) <= Cardinality(B)
    BY <2>0, <2>1, FS_Subset
  <2>3. Cardinality(A) < Limit
    BY <2>0, <2>1, <2>2, LimitHonoured
  <2> QED BY <2>3 DEF A
<1> QED BY <1>4 DEF Page
-----------------------------------------------------------------------------
(* The steps.                                                              *)

LEMMA StepCases ==
  ASSUME [DeliveryNext]_deliveryVars
  PROVE  \/ Device
         \/ \E g \in Goroutines : Deliver(g) \/ ShowUpdate(g) \/ Unseen(g)
         \/ \E m \in pushed : Look(m) \/ LookError(m)
         \/ Restart
         \/ UNCHANGED deliveryVars
BY DEF DeliveryNext

LEMMA DeviceKeepsPath ==
  ASSUME Device \/ (\E m \in pushed : Look(m) \/ LookError(m))
  PROVE  UNCHANGED vars
BY DEF Device, JoinChat, JoinList, MarkOnline, LeaveChat, LeaveList, Elsewhere,
       FullPage, LastPage, LoadList, Look, LookError

LEMMA GoroutineSteps ==
  ASSUME NEW g \in Goroutines, Deliver(g) \/ ShowUpdate(g) \/ Unseen(g)
  PROVE  Step(g)
BY DEF Deliver, ShowUpdate, Unseen, Step

\* Every step is one of the message path, or leaves it alone.
LEMMA PathStep ==
  ASSUME [DeliveryNext]_deliveryVars
  PROVE  [Next]_vars
<1>1. CASE Device \/ (\E m \in pushed : Look(m) \/ LookError(m))
  BY <1>1, DeviceKeepsPath
<1>2. ASSUME NEW g \in Goroutines, Deliver(g) \/ ShowUpdate(g) \/ Unseen(g)
      PROVE  Next
  BY <1>2, GoroutineSteps DEF Next
<1>3. CASE Restart
  BY <1>3 DEF Restart, Next
<1>4. CASE UNCHANGED deliveryVars
  BY <1>4 DEF deliveryVars
<1> QED BY <1>1, <1>2, <1>3, <1>4, StepCases

\* When the path stands still.
LEMMA PathSame ==
  ASSUME UNCHANGED vars
  PROVE  /\ UNCHANGED <<pc, msg, todo, note, rows, feed, pushed, by, lost, missed>>
         /\ InFeed' = InFeed
         /\ \A m, S : Holding(m, S) => Holding(m, S)'
BY DEF vars, auxVars, InFeed, Holding

LEMMA RowsGrow ==
  ASSUME MessagingInv, [Next]_vars
  PROVE  rows \subseteq rows'
<1>1. ASSUME NEW g \in Goroutines, Step(g) PROVE rows \subseteq rows'
  BY <1>1, SetsGrow
<1> QED BY <1>1 DEF Next, Crash, vars

LEMMA PushedGrow ==
  ASSUME [Next]_vars
  PROVE  pushed \subseteq pushed'
<1>1. ASSUME NEW g \in Goroutines,
             \/ Receive(g) \/ StoreOk(g) \/ StoreError(g) \/ Broadcast(g)
             \/ OpenChat(g) \/ ListMembers(g) \/ MembersError(g)
             \/ Tell(g) \/ HandOver(g)
      PROVE  pushed \subseteq pushed'
  BY <1>1 DEF Receive, StoreOk, StoreError, Broadcast, OpenChat, ListMembers,
              MembersError, Tell, HandOver
<1>2. ASSUME NEW g \in Goroutines, NEW u \in Members, ReadSummary(g, u) \/ SummaryError(g, u)
      PROVE  pushed \subseteq pushed'
  BY <1>2 DEF ReadSummary, SummaryError
<1>3. CASE Crash \/ UNCHANGED vars
  BY <1>3 DEF Crash, vars
<1> QED BY <1>1, <1>2, <1>3, NextCases

\* The goroutine that broadcasts holds a row.
LEMMA BroadcastRow ==
  ASSUME MessagingInv, NEW g \in Goroutines, Broadcast(g)
  PROVE  msg[g] \in rows
BY Storers DEF Broadcast, Goto

-----------------------------------------------------------------------------
(* Types.                                                                  *)

LEMMA NotesStep ==
  ASSUME MessagingInv, NotesReal, [Next]_vars
  PROVE  NotesReal'
<1>0. TypeOK /\ rows \subseteq rows'
  BY RowsGrow DEF MessagingInv
<1>1. ASSUME NEW g \in Goroutines, Step(g), ~(\E u \in Members : ReadSummary(g, u)),
             NEW h \in Goroutines, pc'[h] = "tell"
      PROVE  pc[h] = "tell" /\ note'[h] = note[h]
  <2>1. CASE h # g
    BY <1>0, <1>1, <2>1, OthersKeep
  <2>2. CASE h = g
    <3>1. CASE Receive(g) \/ StoreOk(g) \/ StoreError(g) \/ Broadcast(g) \/ OpenChat(g)
      BY <1>0, <1>1, <2>2, <3>1 DEF Receive, StoreOk, StoreError, Broadcast, OpenChat, Goto, TypeOK
    <3>2. CASE ListMembers(g) \/ MembersError(g) \/ Tell(g) \/ HandOver(g)
      BY <1>0, <1>1, <2>2, <3>2 DEF AtRest, ListMembers, MembersError, Tell, HandOver, Goto, TypeOK
    <3>3. ASSUME NEW u \in Members, SummaryError(g, u)
          PROVE  pc[h] = "tell" /\ note'[h] = note[h]
      BY <1>1, <3>3 DEF SummaryError
    <3> QED BY <1>1, <3>1, <3>2, <3>3 DEF Step
  <2> QED BY <2>1, <2>2
<1>2. ASSUME NEW g \in Goroutines, NEW u \in Members, ReadSummary(g, u) PROVE NotesReal'
  <2>1. PICK n \in rows \cup {0} : note' = [note EXCEPT ![g] = <<u, n>>]
    BY <1>2 DEF ReadSummary
  <2>2. note'[g][2] = n
    BY <1>0, <2>1 DEF TypeOK
  <2>3. ASSUME NEW h \in Goroutines, h # g PROVE pc'[h] = pc[h] /\ note'[h] = note[h]
    BY <1>0, <1>2, <2>3, OthersKeep DEF Step
  <2> QED BY <1>0, <2>2, <2>3 DEF NotesReal
<1>3. ASSUME NEW g \in Goroutines, Step(g), ~(\E u \in Members : ReadSummary(g, u))
      PROVE  NotesReal'
  BY <1>0, <1>1, <1>3 DEF NotesReal
<1>4. CASE Crash
  BY <1>4 DEF AtRest, Crash, NotesReal
<1>5. CASE UNCHANGED vars
  BY <1>5 DEF vars, NotesReal
<1> QED BY <1>2, <1>3, <1>4, <1>5 DEF Next

LEMMA DeviceTypeStep ==
  ASSUME DeliveryInv, [DeliveryNext]_deliveryVars
  PROVE  DeviceTypeOK'
<1>0. /\ DeviceTypeOK /\ MessagingInv /\ TypeOK
      /\ rows \subseteq rows' /\ pushed \subseteq pushed'
  BY PathStep, RowsGrow, PushedGrow DEF DeliveryInv, MessagingInv
<1>1. CASE JoinChat
  BY <1>0, <1>1 DEF JoinChat, DeviceTypeOK, Stands, lookVars
<1>14. CASE JoinList
  BY <1>0, <1>14 DEF JoinList, DeviceTypeOK, Stands, lookVars
<1>2. CASE MarkOnline
  BY <1>0, <1>2 DEF MarkOnline, DeviceTypeOK, Stands, lookVars
<1>3. CASE LeaveChat
  BY <1>0, <1>3 DEF LeaveChat, DeviceTypeOK, Stands, lookVars
<1>15. CASE LeaveList
  BY <1>0, <1>15 DEF LeaveList, DeviceTypeOK, Stands, lookVars
<1>4. CASE Elsewhere
  BY <1>0, <1>4 DEF Elsewhere, DeviceTypeOK, lookVars
<1>5. CASE FullPage
  <2>1. Page(cursor) \subseteq rows /\ cursor' \in Page(cursor)
    BY <1>5 DEF FullPage, Page, Older
  <2>2. cursor' \in Nat
    BY <1>0, <2>1, RowsInNat
  <2>3. known' \subseteq rows'
    BY <1>0, <1>5, <2>1 DEF FullPage, DeviceTypeOK
  <2>4. pages' \in Nat
    BY <1>0, <1>5 DEF FullPage, DeviceTypeOK
  <2>5. UNCHANGED <<chat, list, deaf, paging, listed, shown, alerted, passed, unlooked>>
    BY <1>5 DEF FullPage, lookVars
  <2> QED BY <1>0, <2>2, <2>3, <2>4, <2>5 DEF DeviceTypeOK
<1>6. CASE LastPage
  <2>1. Page(cursor) \subseteq rows
    BY DEF Page, Older
  <2> QED BY <1>0, <1>6, <2>1 DEF LastPage, DeviceTypeOK, lookVars
<1>7. CASE LoadList
  <2>1. shown' \subseteq rows \cup {0}
    BY <1>0, <1>7 DEF LoadList, DeviceTypeOK
  <2> QED BY <1>0, <1>7, <2>1 DEF LoadList, DeviceTypeOK, lookVars
<1>8. ASSUME NEW g \in Goroutines, Deliver(g) PROVE DeviceTypeOK'
  <2>1. known' \subseteq rows'
    BY <1>0, <1>8, BroadcastRow DEF Deliver, DeviceTypeOK
  <2>2. UNCHANGED <<chat, list, deaf, paging, cursor, pages, listed, shown,
                    alerted, passed, unlooked>>
    BY <1>8 DEF Deliver, lookVars
  <2> QED BY <1>0, <2>1, <2>2 DEF DeviceTypeOK
<1>9. ASSUME NEW g \in Goroutines, ShowUpdate(g) PROVE DeviceTypeOK'
  <2>1. note[g][2] \in rows \cup {0}
    BY <1>9 DEF ShowUpdate, Tell, Goto, DeliveryInv, NotesReal
  <2>2. shown' \subseteq rows' \cup {0}
    BY <1>0, <1>9, <2>1 DEF ShowUpdate, DeviceTypeOK
  <2>3. UNCHANGED <<chat, list, deaf, known, paging, cursor, pages, listed,
                    alerted, passed, unlooked>>
    BY <1>9 DEF ShowUpdate, lookVars
  <2> QED BY <1>0, <2>2, <2>3 DEF DeviceTypeOK
<1>10. ASSUME NEW g \in Goroutines, Unseen(g) PROVE DeviceTypeOK'
  BY <1>0, <1>10 DEF Unseen, deviceVars, lookVars, DeviceTypeOK
<1>11. ASSUME NEW m \in pushed, Look(m) \/ LookError(m) PROVE DeviceTypeOK'
  <2>1. alerted' \cup passed' \cup unlooked' \subseteq pushed'
    BY <1>0, <1>11 DEF Look, LookError, DeviceTypeOK
  <2>2. UNCHANGED deviceVars
    BY <1>11 DEF Look, LookError
  <2> QED BY <1>0, <2>1, <2>2 DEF deviceVars, DeviceTypeOK
<1>12. CASE Restart
  <2>1. unlooked' \subseteq pushed'
    BY <1>0, <1>12 DEF Restart, ToLook, DeviceTypeOK
  <2> QED BY <1>0, <1>12, <2>1 DEF Restart, DeviceTypeOK, Stands
<1>13. CASE UNCHANGED deliveryVars
  BY <1>0, <1>13 DEF deliveryVars, deviceVars, lookVars, DeviceTypeOK
<1> QED BY <1>1, <1>2, <1>3, <1>4, <1>5, <1>6, <1>7, <1>8, <1>9, <1>10, <1>11,
           <1>12, <1>13, <1>14, <1>15, StepCases DEF Device

LEMMA PagesBegunStep ==
  ASSUME DeliveryInv, [DeliveryNext]_deliveryVars
  PROVE  PagesBegun'
<1>0. PagesBegun /\ DeviceTypeOK /\ TypeOK
  BY DEF DeliveryInv, MessagingInv
<1>1. CASE JoinChat \/ LeaveChat \/ Restart
  BY <1>1 DEF JoinChat, LeaveChat, Restart, PagesBegun
<1>2. CASE FullPage
  <2>1. cursor' \in rows
    BY <1>2 DEF FullPage, Page, Older
  <2> QED BY <1>0, <1>2, <2>1, RowsInNat DEF FullPage, PagesBegun
<1>3. CASE LastPage
  BY <1>0, <1>3 DEF LastPage, PagesBegun
<1>4. CASE JoinList \/ MarkOnline \/ LeaveList \/ Elsewhere \/ LoadList
  BY <1>0, <1>4 DEF JoinList, MarkOnline, LeaveList, Elsewhere, LoadList, PagesBegun
<1>5. ASSUME NEW g \in Goroutines, Deliver(g) \/ ShowUpdate(g) \/ Unseen(g)
      PROVE  PagesBegun'
  BY <1>0, <1>5 DEF Deliver, ShowUpdate, Unseen, deviceVars, PagesBegun
<1>6. ASSUME NEW m \in pushed, Look(m) \/ LookError(m) PROVE PagesBegun'
  BY <1>0, <1>6 DEF Look, LookError, deviceVars, PagesBegun
<1>7. CASE UNCHANGED deliveryVars
  BY <1>0, <1>7 DEF deliveryVars, deviceVars, PagesBegun
<1> QED BY <1>1, <1>2, <1>3, <1>4, <1>5, <1>6, <1>7, StepCases DEF Device
-----------------------------------------------------------------------------
(* History.                                                                *)

\* Only Broadcast takes a message out of "stored".
LEMMA StoredStays ==
  ASSUME MessagingInv, NEW g \in Goroutines, Step(g), ~Broadcast(g),
         NEW m \in rows, Holding(m, {"stored"})
  PROVE  Holding(m, {"stored"})'
<1>1. CASE m # msg[g]
  BY <1>1, OthersHold
<1>2. CASE m = msg[g]
  <2>1. PICK h \in Readers : msg[h] = m /\ pc[h] = "stored"
    BY DEF Holding
  <2>2. m # 0 /\ TypeOK
    BY RowsInNat DEF MessagingInv
  <2>3. h = g
    BY <1>2, <2>1, <2>2, Distinct DEF Goroutines
  <2>4. pc[g] = "stored"
    BY <2>1, <2>3
  <2> QED BY <2>4 DEF Step, Receive, StoreOk, StoreError, OpenChat, ListMembers,
                      MembersError, ReadSummary, SummaryError, Tell, HandOver, Goto
<1> QED BY <1>1, <1>2

\* A goroutine gives nothing back that was given up.
LEMMA LostGrow ==
  ASSUME NEW g \in Goroutines, Step(g)
  PROVE  lost \subseteq lost'
<1>1. CASE Receive(g) \/ StoreOk(g) \/ StoreError(g) \/ Broadcast(g) \/ OpenChat(g)
  BY <1>1 DEF Receive, StoreOk, StoreError, Broadcast, OpenChat, auxVars
<1>2. CASE ListMembers(g) \/ MembersError(g) \/ Tell(g) \/ HandOver(g)
  BY <1>2 DEF ListMembers, MembersError, Tell, HandOver, auxVars
<1>3. ASSUME NEW u \in Members, ReadSummary(g, u) \/ SummaryError(g, u)
      PROVE  lost \subseteq lost'
  BY <1>3 DEF ReadSummary, SummaryError, auxVars
<1> QED BY <1>1, <1>2, <1>3 DEF Step

\* A new row is in hand, or was given up at once.
LEMMA NewRow ==
  ASSUME MessagingInv, NEW g \in Goroutines, Step(g), NEW m \in rows' \ rows
  PROVE  m \in lost' \/ Holding(m, {"stored"})'
<1>0. TypeOK
  BY DEF MessagingInv
<1>1. CASE StoreOk(g)
  <2>1. m = msg[g] /\ g \in Readers
    BY <1>1, Storers DEF StoreOk, Goto
  <2>2. msg' = msg /\ pc'[g] = "stored"
    BY <1>0, <1>1 DEF StoreOk, Goto, TypeOK
  <2>3. msg'[g] = m
    BY <2>1, <2>2
  <2> QED BY <2>1, <2>2, <2>3 DEF Holding
<1>2. CASE StoreError(g)
  BY <1>2 DEF StoreError
<1>3. CASE Receive(g) \/ Broadcast(g) \/ OpenChat(g) \/ ListMembers(g) \/ MembersError(g)
  BY <1>3 DEF Receive, Broadcast, OpenChat, ListMembers, MembersError
<1>4. CASE Tell(g) \/ HandOver(g)
  BY <1>4 DEF Tell, HandOver
<1>5. ASSUME NEW u \in Members, ReadSummary(g, u) \/ SummaryError(g, u) PROVE FALSE
  BY <1>5 DEF ReadSummary, SummaryError
<1> QED BY <1>1, <1>2, <1>3, <1>4, <1>5 DEF Step

\* An open chat is needed for anything to be covered.
LEMMA CoveredOpen ==
  ASSUME DeviceTypeOK, PagesBegun, chat = "none"
  PROVE  Covered = {}
BY DEF DeviceTypeOK, PagesBegun, Covered

LEMMA CoveredRows ==
  /\ Covered \subseteq rows
  /\ cursor = 0 /\ paging # "done" => Covered = {}
BY DEF Covered

LEMMA HistoryStep ==
  ASSUME DeliveryInv, [DeliveryNext]_deliveryVars, NEW m \in Covered'
  PROVE  Accounted(m)'
<1>0. /\ DeviceTypeOK /\ PagesBegun /\ MessagingInv /\ TypeOK
      /\ \A n \in Covered : Accounted(n)
  BY DEF DeliveryInv, MessagingInv
<1>1. CASE JoinChat \/ LeaveChat \/ Restart
  <2>1. cursor' = 0 /\ paging' # "done"
    BY <1>1 DEF JoinChat, LeaveChat, Restart
  <2> QED BY <2>1 DEF Covered
<1>2. ASSUME UNCHANGED <<vars, known, paging, cursor>> PROVE Accounted(m)'
  <2>1. m \in Covered
    BY <1>2, PathSame DEF Covered
  <2> QED BY <1>0, <1>2, <2>1, PathSame DEF Accounted
<1>3. CASE FullPage \/ LastPage
  <2>1. UNCHANGED vars /\ known' = known \cup Page(cursor) /\ paging = "next"
    BY <1>3 DEF FullPage, LastPage
  <2>2. ASSUME m \in known' \/ m \in Covered PROVE Accounted(m)'
    <3>1. known \subseteq known' /\ lost' = lost
      BY <2>1, PathSame
    <3>2. CASE m \in known'
      BY <3>2 DEF Accounted
    <3>3. CASE m \in Covered
      BY <1>0, <2>1, <3>1, <3>3, PathSame DEF Accounted
    <3> QED BY <2>2, <3>2, <3>3
  <2>3. m \in rows /\ m \in Nat /\ cursor \in Nat
    BY <1>0, <2>1, PathSame, RowsInNat DEF Covered, DeviceTypeOK
  <2>4. m \in Older(cursor) \/ m \in Covered
    BY <2>1, <2>3 DEF Older, Covered
  <2>5. CASE FullPage /\ m \in Older(cursor)
    <3>1. cursor' \in Page(cursor) /\ paging' = "next"
      BY <2>1, <2>5 DEF FullPage
    <3>2. cursor' <= m
      BY <1>0, <3>1 DEF Covered, Page
    <3>3. m \in Page(cursor)
      BY <1>0, <2>3, <2>5, <3>1, <3>2, PageWithoutGap
    <3> QED BY <2>1, <2>2, <3>3
  <2>6. CASE LastPage /\ m \in Older(cursor)
    <3>1. Cardinality(Page(cursor)) < Limit
      BY <2>6, LimitHonoured DEF LastPage
    <3>2. m \in Page(cursor)
      BY <1>0, <2>3, <2>6, <3>1, ShortPage
    <3> QED BY <2>1, <2>2, <3>2
  <2> QED BY <1>3, <2>2, <2>4, <2>5, <2>6
<1>4. CASE JoinList \/ MarkOnline \/ LeaveList \/ Elsewhere \/ LoadList
  BY <1>2, <1>4 DEF JoinList, MarkOnline, LeaveList, Elsewhere, LoadList
<1>5. ASSUME NEW g \in Goroutines, Deliver(g) \/ ShowUpdate(g) \/ Unseen(g)
      PROVE  Accounted(m)'
  <2>1. Step(g) /\ UNCHANGED <<chat, paging, cursor>> /\ known \subseteq known'
    BY <1>5, GoroutineSteps DEF Deliver, ShowUpdate, Unseen, deviceVars
  <2>2. m \in rows' /\ chat # "none"
    <3>1. chat = "none" => paging' # "done" /\ cursor' = 0
      BY <1>0, <2>1 DEF DeviceTypeOK, PagesBegun
    <3> QED BY <3>1 DEF Covered
  <2>3. CASE m \notin rows
    BY <1>0, <2>1, <2>2, <2>3, NewRow DEF Accounted
  <2>4. CASE m \in rows
    <3>1. m \in Covered
      BY <2>1, <2>4 DEF Covered
    <3>2. CASE m \in known \cup lost
      BY <2>1, <3>2, LostGrow DEF Accounted
    <3>3. CASE Holding(m, {"stored"}) /\ ~Broadcast(g)
      BY <1>0, <2>1, <2>4, <3>3, StoredStays DEF Accounted
    <3>4. CASE Holding(m, {"stored"}) /\ Broadcast(g) /\ m # msg[g]
      BY <1>0, <2>1, <3>4, OthersHold DEF Accounted
    <3>5. CASE Broadcast(g) /\ m = msg[g]
      <4>1. Deliver(g)
        <5>1. pc[g] = "stored"
          BY <3>5 DEF Broadcast, Goto
        <5> QED BY <1>5, <5>1, <3>5 DEF ShowUpdate, Unseen, Tell, Receive, StoreOk,
                  StoreError, OpenChat, ListMembers, MembersError, HandOver,
                  ReadSummary, SummaryError, Goto
      <4>2. m \in known'
        BY <2>2, <3>5, <4>1 DEF Deliver
      <4> QED BY <4>2 DEF Accounted
    <3> QED BY <1>0, <3>1, <3>2, <3>3, <3>4, <3>5 DEF Accounted
  <2> QED BY <2>3, <2>4
<1>6. ASSUME NEW n \in pushed, Look(n) \/ LookError(n) PROVE Accounted(m)'
  BY <1>2, <1>6 DEF Look, LookError, deviceVars
<1>7. CASE UNCHANGED deliveryVars
  BY <1>2, <1>7 DEF deliveryVars, deviceVars
<1> QED BY <1>1, <1>3, <1>4, <1>5, <1>6, <1>7, StepCases DEF Device
-----------------------------------------------------------------------------
(* Pages.                                                                  *)

From(c) == {m \in rows : m >= c}

LEMMA PagesStep ==
  ASSUME DeliveryInv, [DeliveryNext]_deliveryVars
  PROVE  PagesBounded'
<1>0. /\ DeviceTypeOK /\ PagesBegun /\ MessagingInv /\ TypeOK /\ TypeOK'
      /\ pages * Asked <= Cardinality(From(cursor)) /\ rows \subseteq rows'
  BY PathStep, TypeStep, RowsGrow DEF DeliveryInv, MessagingInv, PagesBounded, From
<1> DEFINE Seen == {m \in rows' : m >= cursor'}
<1>t. /\ IsFiniteSet(Seen) /\ Cardinality(Seen) \in Nat
      /\ IsFiniteSet(From(cursor)) /\ Cardinality(From(cursor)) \in Nat
  <2>1. From(cursor) \subseteq rows
    BY DEF From
  <2>2. IsFiniteSet(From(cursor)) /\ Cardinality(From(cursor)) \in Nat
    BY <1>0, <2>1, RowsFinite
  <2>3. Seen \subseteq 1..Len(by') /\ Len(by') \in Nat
    <3>1. rows' \subseteq 1..Len(by') /\ by' \in Seq(Readers)
      BY <1>0 DEF TypeOK
    <3>2. Seen \subseteq rows'
      OBVIOUS
    <3> HIDE DEF Seen
    <3> QED BY <3>1, <3>2
  <2>4. IsFiniteSet(Seen)
    <3> HIDE DEF Seen
    <3>1. IsFiniteSet(1..Len(by'))
      BY <2>3, FS_Interval
    <3> QED BY <2>3, <3>1, FS_Subset
  <2> HIDE DEF Seen
  <2> QED BY <2>2, <2>4, FS_CardinalityType
<1>g. ASSUME pages' * Asked <= Cardinality(Seen) PROVE PagesBounded'
  BY <1>g DEF PagesBounded
<1>1. CASE JoinChat \/ LeaveChat \/ Restart
  <2>1. pages' = 0
    BY <1>1 DEF JoinChat, LeaveChat, Restart
  <2>2. pages' * Asked = 0
    BY <2>1, LimitHonoured
  <2> HIDE DEF Seen
  <2> QED BY <1>g, <1>t, <2>2
<1>2. ASSUME UNCHANGED <<pages, cursor>> PROVE PagesBounded'
  <2>1. From(cursor) \subseteq Seen
    BY <1>0, <1>2 DEF From
  <2>2. Cardinality(From(cursor)) <= Cardinality(Seen)
    <3> HIDE DEF Seen
    <3> QED BY <1>t, <2>1, FS_Subset
  <2>3. pages * Asked \in Nat
    BY <1>0, LimitHonoured DEF DeviceTypeOK
  <2>4. pages' * Asked <= Cardinality(Seen)
    <3> HIDE DEF Seen
    <3> QED BY <1>0, <1>2, <1>t, <2>2, <2>3
  <2> QED BY <1>g, <2>4
<1>3. CASE FullPage
  <2>1. /\ cursor' \in Page(cursor) /\ \A m \in Page(cursor) : cursor' <= m
        /\ pages' = pages + 1 /\ rows' = rows
        /\ Cardinality(Page(cursor)) >= Asked
    BY <1>3, PathSame DEF FullPage
  <2>2. /\ Page(cursor) \subseteq Older(cursor) /\ Older(cursor) \subseteq rows
        /\ cursor \in Nat /\ rows \subseteq Nat \ {0}
    BY <1>0, RowsInNat DEF Page, Older, DeviceTypeOK
  <2>3. IsFiniteSet(Page(cursor)) /\ Cardinality(Page(cursor)) \in Nat
    BY <1>0, <2>2, RowsFinite
  <2>4. Page(cursor) \subseteq Seen
    BY <2>1, <2>2
  <2>5. CASE cursor = 0
    <3>1. Cardinality(Page(cursor)) <= Cardinality(Seen)
      <4> HIDE DEF Seen
      <4> QED BY <1>t, <2>4, FS_Subset
    <3>2. pages = 0
      BY <1>0, <2>5 DEF PagesBegun
    <3>3. pages' * Asked = Asked
      BY <2>1, <3>2, LimitHonoured
    <3> HIDE DEF Seen
    <3> QED BY <1>g, <1>t, <2>1, <2>3, <3>1, <3>3, LimitHonoured
  <2>6. CASE cursor # 0
    <3>1. \A m \in Page(cursor) : m < cursor
      BY <2>2, <2>6 DEF Page, Older
    <3>2. From(cursor) \cap Page(cursor) = {}
      <4> SUFFICES ASSUME NEW m \in Page(cursor), m \in From(cursor) PROVE FALSE
        OBVIOUS
      <4>1. m < cursor /\ m >= cursor /\ m \in Nat
        BY <2>2, <3>1 DEF From
      <4> QED BY <2>2, <4>1
    <3>3. From(cursor) \cup Page(cursor) \subseteq Seen
      <4> SUFFICES ASSUME NEW m \in From(cursor) PROVE m \in Seen
        BY <2>4
      <4>1. m \in rows /\ m \in Nat /\ m >= cursor
        BY <2>2 DEF From
      <4>2. cursor' < cursor /\ cursor' \in Nat
        BY <2>1, <2>2, <3>1
      <4>3. m >= cursor'
        BY <2>2, <4>1, <4>2
      <4> QED BY <2>1, <4>1, <4>3
    <3>4. Cardinality(From(cursor) \cup Page(cursor))
            = Cardinality(From(cursor)) + Cardinality(Page(cursor))
      <4> DEFINE A == From(cursor)
                 B == Page(cursor)
      <4>1. /\ IsFiniteSet(A) /\ IsFiniteSet(B) /\ A \cap B = {}
            /\ Cardinality(A) \in Nat /\ Cardinality(B) \in Nat
        BY <1>t, <2>3, <3>2
      <4> HIDE DEF A, B, Seen
      <4>2. Cardinality(A \cap B) = 0
        BY <4>1, FS_EmptySet
      <4>3. Cardinality(A \cup B) = Cardinality(A) + Cardinality(B) - Cardinality(A \cap B)
        BY <4>1, FS_Union
      <4>4. Cardinality(A \cup B) = Cardinality(A) + Cardinality(B)
        BY <4>1, <4>2, <4>3
      <4> QED BY <4>4 DEF A, B
    <3>5. Cardinality(From(cursor) \cup Page(cursor)) <= Cardinality(Seen)
      <4> HIDE DEF Seen
      <4> QED BY <1>t, <3>3, FS_Subset
    <3>6. pages * Asked \in Nat /\ pages' * Asked = pages * Asked + Asked
      BY <1>0, <2>1, LimitHonoured DEF DeviceTypeOK
    <3>7. pages' * Asked <= Cardinality(Seen)
      <4> HIDE DEF Seen
      <4> DEFINE p == pages * Asked
                 q == pages' * Asked
                 a == Cardinality(From(cursor))
                 b == Cardinality(Page(cursor))
                 c == Cardinality(Seen)
      <4>1. /\ p \in Nat /\ q = p + Asked /\ a \in Nat /\ b \in Nat /\ c \in Nat
            /\ p <= a /\ Asked <= b /\ a + b <= c /\ Asked \in Nat
        BY <1>0, <1>t, <2>1, <2>3, <3>4, <3>5, <3>6, LimitHonoured
      <4>2. q <= c
        <5> HIDE DEF p, q, a, b, c
        <5> QED BY <4>1
      <4> QED BY <4>2
    <3> QED BY <1>g, <3>7
  <2> QED BY <2>5, <2>6
<1>4. CASE JoinList \/ MarkOnline \/ LeaveList \/ Elsewhere \/ LoadList \/ LastPage
  BY <1>2, <1>4 DEF JoinList, MarkOnline, LeaveList, Elsewhere, LoadList, LastPage
<1>5. ASSUME NEW g \in Goroutines, Deliver(g) \/ ShowUpdate(g) \/ Unseen(g)
      PROVE  PagesBounded'
  BY <1>2, <1>5 DEF Deliver, ShowUpdate, Unseen, deviceVars
<1>6. ASSUME NEW n \in pushed, Look(n) \/ LookError(n) PROVE PagesBounded'
  BY <1>2, <1>6 DEF Look, LookError, deviceVars
<1>7. CASE UNCHANGED deliveryVars
  BY <1>2, <1>7 DEF deliveryVars, deviceVars
<1> QED BY <1>1, <1>3, <1>4, <1>5, <1>6, <1>7, StepCases DEF Device

-----------------------------------------------------------------------------
(* The chat list.                                                          *)

\* Who has yet to turn to the device still has, has failed or tells it now.
LEMMA OwingStep ==
  ASSUME MessagingInv, NEW g \in Goroutines, Step(g), NEW m \in InFeed,
         NEW r \in Readers, msg[r] = m, Me \in Untold(r)
  PROVE  \/ msg'[r] = m /\ Me \in Untold(r)'
         \/ <<Me, m>> \in missed'
         \/ Tell(g) /\ r = g /\ note[g][1] = Me
<1>0. /\ TypeOK /\ r \in Goroutines /\ m # 0 /\ Me \in Members
  BY RowsInNat, DeliveryAssumption DEF MessagingInv, Placed, Goroutines
<1>1. CASE r # g
  <2>1. pc'[r] = pc[r] /\ msg'[r] = msg[r] /\ todo'[r] = todo[r] /\ note'[r] = note[r]
    BY <1>0, <1>1, OthersKeep
  <2> QED BY <2>1 DEF Untold
<1>2. CASE r = g
  <2>1. pc[g] \in Notifying
    BY <1>2 DEF Untold, Notifying
  <2>2. CASE ListMembers(g)
    <3>1. pc'[g] = "update" /\ todo'[g] = Members /\ msg' = msg
      BY <1>0, <2>2 DEF ListMembers, Goto, TypeOK
    <3>2. Untold(g)' = Members
      BY <3>1 DEF Untold
    <3> QED BY <1>0, <1>2, <3>1, <3>2
  <2>3. CASE MembersError(g)
    <3>1. <<Me, m>> \in Owed(g, Members)
      BY <1>0, <1>2 DEF Owed
    <3> QED BY <2>3, <3>1 DEF MembersError
  <2>4. ASSUME NEW v \in Members, ReadSummary(g, v)
        PROVE  msg'[r] = m /\ Me \in Untold(r)'
    <3>1. PICK n \in rows \cup {0} : note' = [note EXCEPT ![g] = <<v, n>>]
      BY <2>4 DEF ReadSummary
    <3>2. /\ pc[g] = "update" /\ pc'[g] = "tell" /\ msg' = msg /\ v \in todo[g]
          /\ todo'[g] = todo[g] \ {v} /\ note'[g] = <<v, n>>
      BY <1>0, <2>4, <3>1 DEF ReadSummary, Goto, TypeOK
    <3>3. Untold(g) = todo[g] /\ Untold(g)' = todo'[g] \cup {v}
      BY <3>2 DEF Untold
    <3> QED BY <1>2, <3>2, <3>3
  <2>5. ASSUME NEW v \in Members, SummaryError(g, v)
        PROVE  (msg'[r] = m /\ Me \in Untold(r)') \/ <<Me, m>> \in missed'
    <3>1. /\ pc[g] = "update" /\ pc' = pc /\ msg' = msg
          /\ todo'[g] = todo[g] \ {v} /\ missed' = missed \cup Owed(g, {v})
      BY <1>0, <2>5 DEF SummaryError, TypeOK
    <3>2. Untold(g) = todo[g] /\ Untold(g)' = todo'[g]
      BY <3>1 DEF Untold
    <3>3. <<v, m>> \in missed'
      BY <1>0, <1>2, <3>1 DEF Owed
    <3> QED BY <1>2, <3>1, <3>2, <3>3
  <2>6. CASE Tell(g)
    <3>1. /\ pc[g] = "tell" /\ pc'[g] = "update" /\ msg' = msg /\ todo' = todo
      BY <1>0, <2>6 DEF Tell, Goto, TypeOK
    <3>2. Untold(g) = todo[g] \cup {note[g][1]} /\ Untold(g)' = todo[g]
      BY <3>1 DEF Untold
    <3> QED BY <1>2, <2>6, <3>1, <3>2
  <2>7. CASE HandOver(g)
    BY <1>2, <2>7 DEF HandOver, Goto, Untold
  <2>8. CASE Receive(g) \/ StoreOk(g) \/ StoreError(g) \/ Broadcast(g)
    BY <2>1, <2>8 DEF Receive, StoreOk, StoreError, Broadcast, Goto, Notifying
  <2>9. CASE OpenChat(g)
    BY <2>1, <2>9 DEF OpenChat, Goto, Notifying
  <2> QED BY <2>2, <2>3, <2>4, <2>5, <2>6, <2>7, <2>8, <2>9 DEF Step
<1> QED BY <1>1, <1>2

LEMMA ListStep ==
  ASSUME DeliveryInv, [DeliveryNext]_deliveryVars, listed', NEW m \in InFeed'
  PROVE  Listed(m)'
<1>0. /\ DeviceTypeOK /\ MessagingInv /\ TypeOK /\ Placed
      /\ listed => \A n \in InFeed : Listed(n)
  BY DEF DeliveryInv, MessagingInv
<1>1. CASE JoinList \/ LeaveList \/ Restart
  BY <1>1 DEF JoinList, LeaveList, Restart
<1>2. ASSUME UNCHANGED <<vars, shown, listed>> PROVE Listed(m)'
  <2>1. /\ Listed(m)
        /\ UNCHANGED <<shown, missed, msg, pc, todo, note>>
    BY <1>0, <1>2, PathSame
  <2> QED BY <2>1 DEF Listed, Untold
<1>3. CASE LoadList
  <2>1. PICK t \in rows \cup {0} : IsLast(t) /\ shown' = shown \cup {t}
    BY <1>3 DEF LoadList
  <2>2. m \in rows /\ rows \subseteq Nat
    BY <1>0, <1>3, PathSame, RowsInNat DEF LoadList, Placed
  <2>3. t >= m /\ t \in shown'
    BY <2>1, <2>2 DEF IsLast
  <2> QED BY <2>3 DEF Listed
<1>4. CASE JoinChat \/ MarkOnline \/ LeaveChat \/ Elsewhere \/ FullPage \/ LastPage
  BY <1>2, <1>4 DEF JoinChat, MarkOnline, LeaveChat, Elsewhere, FullPage, LastPage
<1>5. ASSUME NEW g \in Goroutines, Deliver(g) \/ ShowUpdate(g) \/ Unseen(g)
      PROVE  Listed(m)'
  <2>1. Step(g) /\ UNCHANGED <<list, listed>> /\ shown \subseteq shown'
    BY <1>5, GoroutineSteps DEF Deliver, ShowUpdate, Unseen, deviceVars
  <2>2. missed \subseteq missed' /\ InFeed' \subseteq InFeed \cup {msg[g]}
    BY <1>0, <2>1, SetsGrow
  <2>3. CASE m \in InFeed
    <3>1. Listed(m)
      BY <1>0, <2>1, <2>3
    <3>2. ASSUME NEW r \in Readers, msg[r] = m, Me \in Untold(r) PROVE Listed(m)'
      <4>1. CASE Tell(g) /\ r = g /\ note[g][1] = Me
        <5>1. ShowUpdate(g)
          <6>1. pc[g] = "tell"
            BY <4>1 DEF Tell, Goto
          <6> QED BY <1>5, <4>1, <6>1 DEF Deliver, Unseen, Broadcast, Receive, StoreOk,
                  StoreError, OpenChat, ListMembers, MembersError, HandOver,
                  ReadSummary, SummaryError, Goto
        <5>2. note[g][2] >= m
          BY <1>0, <3>2, <4>1 DEF MessagingInv, Fresh, Tell, Goto
        <5>3. list # "none"
          BY <1>0, <2>1 DEF DeviceTypeOK
        <5>4. note[g][2] \in shown'
          BY <4>1, <5>1, <5>3 DEF ShowUpdate
        <5> QED BY <5>2, <5>4 DEF Listed
      <4>2. CASE msg'[r] = m /\ Me \in Untold(r)'
        BY <4>2 DEF Listed
      <4>3. CASE <<Me, m>> \in missed'
        BY <4>3 DEF Listed
      <4> QED BY <1>0, <2>1, <2>3, <3>2, <4>1, <4>2, <4>3, OwingStep
    <3> QED BY <2>1, <2>2, <3>1, <3>2 DEF Listed
  <2>4. CASE m \notin InFeed
    <3>1. Broadcast(g)
      <4>1. feed' # feed
        BY <2>4, FeedSame
      <4> QED BY <2>1, <4>1 DEF Step, Receive, StoreOk, StoreError, OpenChat, ListMembers,
                  MembersError, ReadSummary, SummaryError, Tell, HandOver
    <3>2. m = msg[g] /\ g \in Readers
      BY <1>0, <2>2, <2>4, <3>1, Storers DEF Broadcast, Goto
    <3>3. msg' = msg /\ pc'[g] = "members"
      BY <1>0, <3>1 DEF Broadcast, Goto, TypeOK
    <3>4. Me \in Untold(g)'
      BY <3>3, DeliveryAssumption DEF Untold
    <3>5. msg'[g] = m
      BY <3>2, <3>3
    <3> QED BY <3>2, <3>4, <3>5 DEF Listed
  <2> QED BY <2>3, <2>4
<1>6. ASSUME NEW n \in pushed, Look(n) \/ LookError(n) PROVE Listed(m)'
  BY <1>2, <1>6 DEF Look, LookError, deviceVars
<1>7. CASE UNCHANGED deliveryVars
  BY <1>2, <1>7 DEF deliveryVars, deviceVars
<1> QED BY <1>1, <1>3, <1>4, <1>5, <1>6, <1>7, StepCases DEF Device

-----------------------------------------------------------------------------
(* The theorems.                                                           *)

LEMMA DeliveryBegins == DeliveryInit => DeliveryInv
<1> SUFFICES ASSUME DeliveryInit PROVE DeliveryInv
  OBVIOUS
<1>1. MessagingInv
  BY MessagingInit DEF DeliveryInit
<1>2. DeviceTypeOK /\ PagesBegun
  BY DEF DeliveryInit, DeviceTypeOK, Stands, PagesBegun
<1>3. NotesReal
  BY DEF DeliveryInit, Init, NotesReal
<1>4. Covered = {}
  BY DEF DeliveryInit, Covered
<1>5. PagesBounded
  <2> DEFINE S == {m \in rows : m >= cursor}
  <2>1. S = {}
    BY DEF DeliveryInit, Init
  <2>2. Cardinality(S) = 0
    BY <2>1, FS_EmptySet
  <2>3. pages * Asked = 0
    BY LimitHonoured DEF DeliveryInit
  <2> QED BY <2>2, <2>3 DEF PagesBounded
<1> QED BY <1>1, <1>2, <1>3, <1>4, <1>5 DEF DeliveryInv, DeliveryInit

LEMMA DeliveryStep == DeliveryInv /\ [DeliveryNext]_deliveryVars => DeliveryInv'
<1> SUFFICES ASSUME DeliveryInv, [DeliveryNext]_deliveryVars PROVE DeliveryInv'
  OBVIOUS
<1>1. MessagingInv'
  BY PathStep, MessagingStep DEF DeliveryInv
<1>2. DeviceTypeOK' /\ PagesBegun' /\ PagesBounded'
  BY DeviceTypeStep, PagesBegunStep, PagesStep
<1>3. NotesReal'
  BY PathStep, NotesStep DEF DeliveryInv
<1>4. \A m \in Covered' : Accounted(m)'
  BY HistoryStep
<1>5. listed' => \A m \in InFeed' : Listed(m)'
  BY ListStep
<1> QED BY <1>1, <1>2, <1>3, <1>4, <1>5 DEF DeliveryInv

LEMMA DeliveryInductive == DeliverySpec => []DeliveryInv
BY DeliveryBegins, DeliveryStep, PTL DEF DeliverySpec

\* What the handlers and goroutines do for the device implements the message
\* path: its theorems hold here too.
THEOREM PathImplemented == DeliverySpec => Spec
<1>1. DeliveryInit => Init
  BY DEF DeliveryInit
<1>2. [DeliveryNext]_deliveryVars => [Next]_vars
  BY PathStep
<1> QED BY <1>1, <1>2, PTL DEF DeliverySpec, Spec

\* So the whole, whatever devices and looks at presence do in between, is a
\* mailbox, keeps what was promised of the feed, of chat_updates and of push,
\* and what a readLoop has begun comes to an end.
THEOREM PathPromises ==
  DeliverySpec =>
    /\ ImplementsMailbox /\ [][WorkEnds]_vars
    /\ [](FeedExact /\ SenderOrder /\ UpdateCovers /\ PushFollows /\ NoneHalfway)
BY PathImplemented, MailboxCorrect, WorkEndsCorrect, FeedExactCorrect, SenderOrderCorrect,
   UpdateCoversCorrect, PushFollowsCorrect, NoneHalfwayCorrect, PTL

\* The device only ever knows committed rows, and pages and the chat list are
\* those of an open connection.
THEOREM DeviceTypeCorrect == DeliverySpec => []DeviceTypeOK
<1>1. DeliveryInv => DeviceTypeOK
  BY DEF DeliveryInv
<1> QED BY <1>1, DeliveryInductive, PTL

\* ListMessages with before_id, together with the broadcasts since the
\* subscription, leaves no gap in the history.
THEOREM HistoryCorrect == DeliverySpec => []HistoryComplete
<1>1. DeliveryInv => HistoryComplete
  <2> SUFFICES ASSUME DeliveryInv, NEW m \in Covered
               PROVE  m \in known \cup HandledIn({"stored"}) \cup lost
    BY DEF HistoryComplete
  <2>1. Accounted(m)
    BY DEF DeliveryInv
  <2> QED BY <2>1 DEF Accounted, Holding, HandledIn
<1> QED BY <1>1, DeliveryInductive, PTL

\* Paging back with before_id ends: no full page repeats what another gave.
THEOREM PagesCorrect == DeliverySpec => []PagesBounded
<1>1. DeliveryInv => PagesBounded
  BY DEF DeliveryInv
<1> QED BY <1>1, DeliveryInductive, PTL

\* ListChats, asked for after /ws/chats was opened, and the updates since
\* then show the last message.
THEOREM ListCorrect == DeliverySpec => []ListNotBehind
<1>1. DeliveryInv => ListNotBehind
  BY DEF DeliveryInv, ListNotBehind, Listed
<1> QED BY <1>1, DeliveryInductive, PTL

\* Who is not pushed because he counts as online is told of the message by
\* the connections that hear of the chat.
Skipped(m) ==
  /\ chat # "none" => ChatBrings(m)
  /\ list # "none" => ListBrings(m)
  /\ chat = "none" /\ list = "none" => deaf

LEMMA SkipStep ==
  ASSUME DeliveryInv, [DeliveryNext]_deliveryVars, NEW m \in passed' \ passed
  PROVE  Skipped(m)
<1>0. /\ DeviceTypeOK /\ PagesBegun /\ MessagingInv /\ TypeOK /\ Placed
      /\ \A n \in Covered : Accounted(n)
      /\ listed => \A n \in InFeed : Listed(n)
      /\ \A r \in Readers : HeldBy(r)
  BY DEF DeliveryInv, MessagingInv
<1>1. m \in pushed /\ CountsAsOnline
  <2>1. CASE Device
    BY <2>1 DEF Device, JoinChat, JoinList, MarkOnline, LeaveChat, LeaveList, Elsewhere,
                FullPage, LastPage, LoadList, lookVars
  <2>2. ASSUME NEW g \in Goroutines, Deliver(g) \/ ShowUpdate(g) \/ Unseen(g) PROVE FALSE
    BY <2>2 DEF Deliver, ShowUpdate, Unseen, lookVars
  <2>3. ASSUME NEW n \in pushed, Look(n) PROVE m \in pushed /\ CountsAsOnline
    BY <2>3 DEF Look
  <2>4. ASSUME NEW n \in pushed, LookError(n) PROVE FALSE
    BY <2>4 DEF LookError
  <2>5. CASE Restart \/ UNCHANGED deliveryVars
    BY <2>5 DEF Restart, deliveryVars, lookVars
  <2> QED BY <2>1, <2>2, <2>3, <2>4, <2>5, StepCases
<1>2. m \in InFeed /\ m \in rows /\ m \in Nat
  BY <1>0, <1>1, RowsInNat DEF Placed
<1>3. ~Holding(m, {"stored"}) /\ m \notin lost
  BY <1>0, <1>2 DEF Holding, HeldBy, Placed
<1>4. ASSUME chat # "none" PROVE ChatBrings(m)
  <2>1. m \in Covered => m \in known
    BY <1>0, <1>3 DEF Accounted
  <2>2. paging \in {"next", "done"} /\ cursor \in Nat
    BY <1>0, <1>4 DEF DeviceTypeOK
  <2>3. m \notin Covered => paging = "next" /\ (cursor = 0 \/ m < cursor)
    BY <1>2, <2>2 DEF Covered
  <2> QED BY <2>1, <2>3 DEF ChatBrings
<1>5. ASSUME list # "none" PROVE ListBrings(m)
  <2>1. ~\E r \in Readers : msg[r] = m /\ Me \in Untold(r)
    <3> SUFFICES ASSUME NEW r \in Readers, msg[r] = m, Me \in Untold(r) PROVE FALSE
      OBVIOUS
    <3>1. pc[r] \in Notifying
      BY DEF Untold, Notifying
    <3> QED BY <1>0, <1>1, <3>1 DEF HeldBy
  <2> QED BY <1>0, <1>2, <2>1 DEF ListBrings, Listed
<1>6. chat = "none" /\ list = "none" => deaf
  BY <1>1 DEF CountsAsOnline
<1> QED BY <1>4, <1>5, <1>6 DEF Skipped

\* sendPushForMessage passes nobody over whom no connection brings the
\* message, but those whose only connections do not hear of the chat.
THEOREM SkipCorrect == DeliverySpec => NoSilentSkip
<1>1. DeliveryInv /\ [DeliveryNext]_deliveryVars
        => [\A m \in passed' \ passed :
              /\ chat # "none" => ChatBrings(m)
              /\ list # "none" => ListBrings(m)
              /\ chat = "none" /\ list = "none" => deaf]_deliveryVars
  BY SkipStep DEF Skipped
<1> QED BY <1>1, DeliveryInductive, PTL DEF DeliverySpec, NoSilentSkip
-----------------------------------------------------------------------------
(* Paging back comes to an end.                                            *)

\* A page that is full has a first id to ask for the next one with.
PageAnswered ==
  paging = "next" =>
    \/ Cardinality(Page(cursor)) < Asked
    \/ \E first \in Page(cursor) : \A m \in Page(cursor) : first <= m

\* Every full page takes the cursor to a lower id, and as long as the
\* connection stands nothing else moves it: there are fewer full pages to come
\* than there are ids below it, though rows are added all the time.
PagesDescend ==
  /\ PageAnswered
  /\ FullPage => cursor' \in Nat \ {0} /\ (cursor = 0 \/ cursor' < cursor)
  /\ cursor' # cursor => FullPage \/ chat' = "none"

LEMMA PageAlwaysAnswered ==
  ASSUME DeliveryInv
  PROVE  PageAnswered
<1>1. TypeOK /\ Page(cursor) \subseteq rows
  BY DEF DeliveryInv, MessagingInv, Page, Older
<1> DEFINE P == Page(cursor)
<1>2. P \subseteq Nat
  BY <1>1, RowsInNat
<1> HIDE DEF P
<1>3. CASE P = {}
  <2>1. Cardinality(P) = 0
    BY <1>3, FS_EmptySet
  <2> QED BY <2>1, LimitHonoured DEF P, PageAnswered
<1>4. CASE P # {}
  <2>1. \E first \in P : \A m \in P : first <= m
    BY <1>2, <1>4, Least
  <2> QED BY <2>1 DEF P, PageAnswered
<1> QED BY <1>3, <1>4

LEMMA CursorMoves ==
  ASSUME DeliveryInv, [DeliveryNext]_deliveryVars, cursor' # cursor
  PROVE  FullPage \/ chat' = "none"
<1>0. PagesBegun /\ DeviceTypeOK
  BY DEF DeliveryInv
<1>1. CASE JoinChat
  BY <1>0, <1>1 DEF JoinChat, DeviceTypeOK, PagesBegun
<1>2. CASE LeaveChat \/ Restart
  BY <1>2 DEF LeaveChat, Restart
<1>3. CASE JoinList \/ MarkOnline \/ LeaveList \/ Elsewhere \/ LastPage \/ LoadList
  BY <1>3 DEF JoinList, MarkOnline, LeaveList, Elsewhere, LastPage, LoadList
<1>4. ASSUME NEW g \in Goroutines, Deliver(g) \/ ShowUpdate(g) \/ Unseen(g) PROVE FALSE
  BY <1>4 DEF Deliver, ShowUpdate, Unseen, deviceVars
<1>5. ASSUME NEW m \in pushed, Look(m) \/ LookError(m) PROVE FALSE
  BY <1>5 DEF Look, LookError, deviceVars
<1>6. ~UNCHANGED deliveryVars
  BY DEF deliveryVars, deviceVars
<1> QED BY <1>1, <1>2, <1>3, <1>4, <1>5, <1>6, StepCases DEF Device

\* GET .../messages, asked with the first id of each page, comes to the page
\* that is not full, however many messages arrive meanwhile.
THEOREM PagesDescendCorrect == DeliverySpec => [][PagesDescend]_deliveryVars
<1>1. DeliveryInv /\ [DeliveryNext]_deliveryVars => PagesDescend
  <2> SUFFICES ASSUME DeliveryInv, [DeliveryNext]_deliveryVars PROVE PagesDescend
    OBVIOUS
  <2>1. ASSUME FullPage
        PROVE  cursor' \in Nat \ {0} /\ (cursor = 0 \/ cursor' < cursor)
    <3>1. cursor' \in rows /\ (cursor > 0 => cursor' < cursor)
      BY <2>1 DEF FullPage, Page, Older
    <3>2. TypeOK /\ cursor \in Nat
      BY DEF DeliveryInv, MessagingInv, DeviceTypeOK
    <3> QED BY <3>1, <3>2, RowsInNat
  <2> QED BY <2>1, PageAlwaysAnswered, CursorMoves DEF PagesDescend
<1> QED BY <1>1, DeliveryInductive, PTL DEF DeliverySpec
=============================================================================
