------------------------ MODULE ChatMessagingProofs ------------------------
(***************************************************************************)
(* Proofs about ChatMessaging, for any number of connections, members,     *)
(* messages, errors and crashes.                                           *)
(***************************************************************************)
EXTENDS ChatMessaging, SequenceTheorems, FiniteSetTheorems, WellFoundedInduction,
        TLAPS

\* A message in hand was drawn by the goroutine that holds it, so no two
\* hold the same, and its stage says where it has been.
HeldBy(g) ==
  /\ msg[g] # 0 => msg[g] \in 1..Len(by) /\ by[msg[g]] = g
  /\ pc[g] = "storing" => msg[g] \notin rows
  /\ pc[g] = "stored" => msg[g] \in rows /\ msg[g] \notin InFeed \cup lost
  /\ pc[g] \in Notifying => msg[g] \in InFeed /\ msg[g] \notin pushed \cup dead

\* Conversely, a message that is not at the end of its way is in hand.
Holding(m, stages) == \E g \in Readers : msg[g] = m /\ pc[g] \in stages

Placed ==
  /\ InFeed \subseteq rows /\ InFeed \cap lost = {}
  /\ pushed \cup dead \subseteq InFeed /\ pushed \cap dead = {}
  /\ \A m \in rows : m \in InFeed \cup lost \/ Holding(m, {"stored"})
  /\ \A m \in InFeed : m \in pushed \cup dead \/ Holding(m, Notifying)

Once == \A i, j \in 1..Len(feed) : feed[i] = feed[j] => i = j

\* What a goroutine has yet to broadcast is younger than what it has.
Younger(g) ==
  pc[g] \in {"storing", "stored"} =>
    \A m \in InFeed : by[m] = g => m < msg[g]

\* A summary that was read for a message is of this message or a later one.
Fresh(g) == pc[g] = "tell" => note[g][2] >= msg[g]

MessagingInv ==
  /\ TypeOK
  /\ \A g \in Readers : HeldBy(g) /\ Younger(g) /\ Fresh(g)
  /\ Placed
  /\ Once
  /\ SenderOrder
  /\ UpdateCovers

\* The steps of one goroutine, with the member it turns to.
LEMMA NextCases ==
  ASSUME [Next]_vars
  PROVE  \/ \E g \in Goroutines :
              \/ Receive(g) \/ StoreOk(g) \/ StoreError(g) \/ Broadcast(g)
              \/ OpenChat(g) \/ ListMembers(g) \/ MembersError(g)
              \/ Tell(g) \/ HandOver(g)
         \/ \E g \in Goroutines, u \in Members : ReadSummary(g, u) \/ SummaryError(g, u)
         \/ Crash
         \/ UNCHANGED vars
BY DEF Next, Step

LEMMA MessagingInit == Init => MessagingInv
<1> SUFFICES ASSUME Init PROVE MessagingInv
  OBVIOUS
<1>1. TypeOK
  BY DEF Init, TypeOK, Stages, Goroutines
<1>2. InFeed = {}
  BY DEF Init, InFeed
<1>3. \A g \in Readers : HeldBy(g) /\ Younger(g) /\ Fresh(g)
  BY <1>2 DEF Init, HeldBy, Younger, Fresh, Goroutines, Notifying
<1>4. Placed /\ Once /\ SenderOrder /\ UpdateCovers
  BY <1>2 DEF Init, Placed, Once, SenderOrder, UpdateCovers
<1> QED BY <1>1, <1>3, <1>4 DEF MessagingInv

-----------------------------------------------------------------------------
(* What a step leaves alone.                                               *)

\* A goroutine changes its own variables only.
LEMMA OthersKeep ==
  ASSUME TypeOK, NEW g \in Goroutines, Step(g),
         NEW h \in Goroutines, h # g
  PROVE  /\ pc'[h] = pc[h] /\ msg'[h] = msg[h]
         /\ todo'[h] = todo[h] /\ note'[h] = note[h]
<1>1. CASE Receive(g) \/ StoreOk(g) \/ Broadcast(g) \/ OpenChat(g)
  BY <1>1 DEF Receive, StoreOk, Broadcast, OpenChat, Goto, TypeOK
<1>2. CASE StoreError(g)
  BY <1>2 DEF StoreError, Goto, TypeOK
<1>3. CASE ListMembers(g) \/ MembersError(g)
  BY <1>3 DEF ListMembers, MembersError, Goto, TypeOK
<1>4. CASE Tell(g) \/ HandOver(g)
  BY <1>4 DEF Tell, HandOver, Goto, TypeOK
<1>5. ASSUME NEW u \in Members, ReadSummary(g, u)
      PROVE  /\ pc'[h] = pc[h] /\ msg'[h] = msg[h]
             /\ todo'[h] = todo[h] /\ note'[h] = note[h]
  BY <1>5 DEF ReadSummary, Goto, TypeOK
<1>6. ASSUME NEW u \in Members, SummaryError(g, u)
      PROVE  /\ pc'[h] = pc[h] /\ msg'[h] = msg[h]
             /\ todo'[h] = todo[h] /\ note'[h] = note[h]
  BY <1>6 DEF SummaryError, TypeOK
<1> QED BY <1>1, <1>2, <1>3, <1>4, <1>5, <1>6 DEF Step

\* The feed keeps what is in it and gets a message only by Broadcast.
LEMMA FeedSame ==
  ASSUME UNCHANGED feed
  PROVE  InFeed' = InFeed
BY DEF InFeed

LEMMA FeedGrows ==
  ASSUME TypeOK, NEW g \in Goroutines, Broadcast(g)
  PROVE  /\ Len(feed') = Len(feed) + 1
         /\ \A i \in 1..Len(feed) : feed'[i] = feed[i]
         /\ feed'[Len(feed) + 1] = msg[g]
         /\ InFeed' = InFeed \cup {msg[g]}
<1>1. feed' = Append(feed, msg[g]) /\ feed \in Seq(rows)
  BY DEF TypeOK, Broadcast
<1>2. /\ Len(feed) \in Nat /\ Len(feed') = Len(feed) + 1
      /\ \A i \in 1..Len(feed) : feed'[i] = feed[i]
      /\ feed'[Len(feed) + 1] = msg[g]
  BY <1>1
<1>3. 1..(Len(feed) + 1) = 1..Len(feed) \cup {Len(feed) + 1}
  BY <1>2
<1>4. InFeed' = InFeed \cup {msg[g]}
  BY <1>2, <1>3 DEF InFeed
<1> QED BY <1>2, <1>4

LEMMA AuthorsKeep ==
  ASSUME TypeOK, NEW g \in Goroutines, Receive(g)
  PROVE  /\ by' \in Seq(Readers)
         /\ Len(by') = Len(by) + 1
         /\ \A m \in 1..Len(by) : by'[m] = by[m]
         /\ by'[Len(by) + 1] = g
BY DEF TypeOK, Receive

-----------------------------------------------------------------------------
(* Type correctness.                                                       *)

LEMMA OwedRows ==
  ASSUME MessagingInv, NEW g \in Goroutines,
         pc[g] \in Notifying, NEW us \in SUBSET Members
  PROVE  Owed(g, us) \subseteq Members \X rows
<1>1. msg[g] # 0 => msg[g] \in rows
  BY DEF MessagingInv, TypeOK, HeldBy, Placed, Goroutines
<1> QED BY <1>1 DEF Owed

LEMMA Storers ==
  ASSUME MessagingInv, NEW g \in Goroutines, pc[g] \in {"storing", "stored"}
  PROVE  g \in Readers /\ msg[g] \in 1..Len(by) /\ (pc[g] = "stored" => msg[g] \in rows)
BY DEF MessagingInv, TypeOK, HeldBy, Goroutines, Notifying

\* Only a readLoop stores, and only a handler of POST /api/chats ends.
StagesOK ==
  /\ pc \in [Goroutines -> Stages]
  /\ \A g \in Openers : pc[g] \in {"idle", "gone"} \cup Notifying
  /\ \A g \in Readers : pc[g] # "gone"

LEMMA StagesStep ==
  ASSUME TypeOK, [Next]_vars
  PROVE  StagesOK'
<1>0. StagesOK
  BY DEF StagesOK, TypeOK
<1>1. CASE UNCHANGED vars
  BY <1>0, <1>1 DEF vars, StagesOK
<1>2. ASSUME NEW g \in Goroutines, NEW to \in Stages, NEW from \in Stages,
             Goto(g, from, to),
             \/ g \in Readers /\ to # "gone"
             \/ to \in {"idle"} \cup Notifying
             \/ g \notin Readers /\ to = "gone"
      PROVE  StagesOK'
  BY <1>0, <1>2, MessagingAssumption DEF Goto, StagesOK, Goroutines, Notifying
<1>3. ASSUME NEW g \in Goroutines, Receive(g) \/ StoreOk(g) PROVE StagesOK'
  <2>1. g \in Readers
    BY <1>3 DEF Receive, StoreOk, Goto, TypeOK, Goroutines, Notifying
  <2> QED BY <1>2, <1>3, <2>1 DEF Receive, StoreOk, Stages
<1>4. ASSUME NEW g \in Goroutines,
             \/ StoreError(g) \/ Broadcast(g) \/ OpenChat(g) \/ ListMembers(g)
             \/ MembersError(g) \/ Tell(g)
      PROVE  StagesOK'
  BY <1>2, <1>4 DEF StoreError, Broadcast, OpenChat, ListMembers, MembersError,
                    Tell, Stages, Notifying
<1>5. ASSUME NEW g \in Goroutines, NEW u \in Members, ReadSummary(g, u) PROVE StagesOK'
  BY <1>2, <1>5 DEF ReadSummary, Stages, Notifying
<1>6. ASSUME NEW g \in Goroutines, NEW u \in Members, SummaryError(g, u) PROVE StagesOK'
  BY <1>0, <1>6 DEF SummaryError, StagesOK
<1>7. ASSUME NEW g \in Goroutines, HandOver(g) PROVE StagesOK'
  <2>1. /\ g \in Readers => AtRest(g) = "idle"
        /\ g \notin Readers => AtRest(g) = "gone"
    BY DEF AtRest
  <2> QED BY <1>2, <1>7, <2>1 DEF HandOver, Stages
<1>8. CASE Crash
  BY <1>8, MessagingAssumption DEF Crash, AtRest, StagesOK, Stages, Goroutines
<1> QED BY <1>1, <1>3, <1>4, <1>5, <1>6, <1>7, <1>8, NextCases

LEMMA TypeStep == MessagingInv /\ [Next]_vars => TypeOK'
<1> SUFFICES ASSUME MessagingInv, [Next]_vars PROVE TypeOK'
  OBVIOUS
<1>0. TypeOK
  BY DEF MessagingInv
<1>p. /\ pc' \in [Goroutines -> Stages]
      /\ \A h \in Openers : pc'[h] \in {"idle", "gone"} \cup Notifying
      /\ \A h \in Readers : pc'[h] # "gone"
  BY <1>0, StagesStep DEF StagesOK
<1>1. CASE UNCHANGED vars
  BY <1>0, <1>1 DEF TypeOK, vars, auxVars
<1>2. ASSUME NEW g \in Goroutines, Receive(g) PROVE TypeOK'
  <2>1. /\ by' \in Seq(Readers) /\ Len(by') = Len(by) + 1
    BY <1>0, <1>2, AuthorsKeep
  <2>2. nextId' = nextId + 1 /\ msg' \in [Goroutines -> Nat]
    BY <1>0, <1>2 DEF Receive, TypeOK
  <2>4. /\ \A h \in Goroutines : msg'[h] < nextId'
        /\ \A h \in Goroutines : msg'[h] # 0 <=> h \in Readers /\ pc'[h] # "idle"
        /\ \A h \in Goroutines : pc'[h] = "tell" => note[h] \in Members \X Nat
    BY <1>0, <1>2 DEF Receive, Goto, TypeOK
  <2>5. UNCHANGED <<todo, note, rows, feed, told, pushed, lost, dead, missed, faults>>
    BY <1>2 DEF Receive
  <2> QED BY <1>0, <1>p, <2>1, <2>2, <2>4, <2>5 DEF TypeOK
<1>3. ASSUME NEW g \in Goroutines, StoreOk(g) PROVE TypeOK'
  <2>1. msg[g] \in 1..Len(by)
    BY <1>3, Storers DEF StoreOk, Goto
  <2>2. rows' \subseteq 1..Len(by) /\ feed \in Seq(rows')
    <3>1. rows' = rows \cup {msg[g]} /\ rows \subseteq 1..Len(by) /\ feed \in Seq(rows)
      BY <1>0, <1>3 DEF StoreOk, TypeOK
    <3> QED BY <2>1, <3>1, SeqMonotonic
  <2>3. /\ \A h \in Goroutines : pc'[h] = "idle" <=> pc[h] = "idle"
        /\ \A h \in Goroutines : pc'[h] = "tell" <=> pc[h] = "tell"
    BY <1>0, <1>3 DEF StoreOk, Goto, TypeOK, Stages
  <2>4. rows \subseteq rows'
    BY <1>3 DEF StoreOk
  <2>5. UNCHANGED <<msg, todo, note, nextId, feed, told, pushed, auxVars, faults>>
    BY <1>3 DEF StoreOk
  <2> QED BY <1>0, <1>p, <2>2, <2>3, <2>4, <2>5 DEF TypeOK, auxVars
<1>4. ASSUME NEW g \in Goroutines, StoreError(g) PROVE TypeOK'
  <2>1. msg[g] \in 1..Len(by)
    BY <1>4, Storers DEF StoreError, Goto
  <2>2. /\ rows' \subseteq 1..Len(by) /\ rows \subseteq rows'
        /\ lost' \subseteq rows' /\ feed \in Seq(rows')
    <3>1. /\ rows \subseteq 1..Len(by) /\ feed \in Seq(rows) /\ lost \subseteq rows
          /\ \/ rows' = rows /\ lost' = lost
             \/ rows' = rows \cup {msg[g]} /\ lost' = lost \cup {msg[g]}
      BY <1>0, <1>4 DEF StoreError, TypeOK
    <3> QED BY <2>1, <3>1, SeqMonotonic
  <2>3. /\ \A h \in Goroutines : pc'[h] = "tell" <=> pc[h] = "tell"
    BY <1>0, <1>4 DEF StoreError, Goto, TypeOK, Stages
  <2>4. /\ msg' \in [Goroutines -> Nat]
        /\ \A h \in Goroutines : msg'[h] < nextId
        /\ \A h \in Goroutines : msg'[h] # 0 <=> h \in Readers /\ pc'[h] # "idle"
    BY <1>0, <1>4 DEF StoreError, Goto, TypeOK
  <2>5. UNCHANGED <<todo, note, nextId, feed, told, pushed, by, dead, missed>>
    BY <1>4 DEF StoreError
  <2>6. faults' \in Nat
    BY <1>0, <1>4 DEF StoreError, Fault, TypeOK
  <2> QED BY <1>0, <1>p, <2>2, <2>3, <2>4, <2>5, <2>6 DEF TypeOK
<1>5. ASSUME NEW g \in Goroutines, Broadcast(g) PROVE TypeOK'
  <2>1. feed' \in Seq(rows)
    <3>1. msg[g] \in rows
      BY <1>5, Storers DEF Broadcast, Goto
    <3> QED BY <1>0, <1>5, <3>1 DEF Broadcast, TypeOK
  <2>2. /\ \A h \in Goroutines : pc'[h] = "idle" <=> pc[h] = "idle"
        /\ \A h \in Goroutines : pc'[h] = "tell" <=> pc[h] = "tell"
    BY <1>0, <1>5 DEF Broadcast, Goto, TypeOK, Stages
  <2>3. UNCHANGED <<msg, todo, note, nextId, rows, told, pushed, auxVars, faults>>
    BY <1>5 DEF Broadcast
  <2> QED BY <1>0, <1>p, <2>1, <2>2, <2>3 DEF TypeOK, auxVars
<1>6. ASSUME NEW g \in Goroutines, OpenChat(g) PROVE TypeOK'
  <2>1. g \notin Readers
    BY <1>6, MessagingAssumption DEF OpenChat
  <2>2. /\ \A h \in Readers : pc'[h] = "idle" <=> pc[h] = "idle"
        /\ \A h \in Goroutines : pc'[h] = "tell" <=> pc[h] = "tell"
    BY <1>0, <1>6, <2>1 DEF OpenChat, Goto, TypeOK, Stages, Goroutines
  <2>3. UNCHANGED <<msg, todo, note, nextId, rows, feed, told, pushed, auxVars, faults>>
    BY <1>6 DEF OpenChat
  <2> QED BY <1>0, <1>p, <2>2, <2>3 DEF TypeOK, auxVars
<1>7. ASSUME NEW g \in Goroutines, ListMembers(g) \/ MembersError(g) PROVE TypeOK'
  <2>1. /\ \A h \in Goroutines : pc'[h] = "idle" <=> pc[h] = "idle"
        /\ \A h \in Goroutines : pc'[h] = "tell" <=> pc[h] = "tell"
    BY <1>0, <1>7 DEF ListMembers, MembersError, Goto, TypeOK, Stages
  <2>2. todo' \in [Goroutines -> SUBSET Members]
    BY <1>0, <1>7 DEF ListMembers, MembersError, TypeOK
  <2>3. missed' \subseteq Members \X rows
    <3>1. Owed(g, Members) \subseteq Members \X rows
      BY <1>7, OwedRows DEF ListMembers, MembersError, Goto, Notifying
    <3> QED BY <1>0, <1>7, <3>1 DEF ListMembers, MembersError, TypeOK, auxVars
  <2>4. faults' \in Nat
    BY <1>0, <1>7 DEF ListMembers, MembersError, Fault, TypeOK
  <2>5. UNCHANGED <<msg, note, nextId, rows, feed, told, pushed, by, lost, dead>>
    BY <1>7 DEF ListMembers, MembersError, auxVars
  <2> QED BY <1>0, <1>p, <2>1, <2>2, <2>3, <2>4, <2>5 DEF TypeOK
<1>8. ASSUME NEW g \in Goroutines, NEW u \in Members, ReadSummary(g, u) PROVE TypeOK'
  <2>1. PICK m \in rows \cup {0} : note' = [note EXCEPT ![g] = <<u, m>>]
    BY <1>8 DEF ReadSummary
  <2>2. m \in Nat
    BY <1>0, <2>1 DEF TypeOK
  <2>3. /\ \A h \in Goroutines : pc'[h] = "idle" <=> pc[h] = "idle"
        /\ \A h \in Goroutines : h # g => (pc'[h] = "tell" <=> pc[h] = "tell")
    BY <1>0, <1>8 DEF ReadSummary, Goto, TypeOK, Stages
  <2>4. /\ note' \in [Goroutines -> (Members \X Nat) \cup {<<>>}]
        /\ \A h \in Goroutines : pc'[h] = "tell" => note'[h] \in Members \X Nat
    BY <1>0, <2>1, <2>2, <2>3 DEF TypeOK
  <2>5. todo' \in [Goroutines -> SUBSET Members]
    BY <1>0, <1>8 DEF ReadSummary, TypeOK
  <2>6. UNCHANGED <<msg, nextId, rows, feed, told, pushed, auxVars, faults>>
    BY <1>8 DEF ReadSummary
  <2> QED BY <1>0, <1>p, <2>3, <2>4, <2>5, <2>6 DEF TypeOK, auxVars
<1>9. ASSUME NEW g \in Goroutines, NEW u \in Members, SummaryError(g, u) PROVE TypeOK'
  <2>1. Owed(g, {u}) \subseteq Members \X rows
    BY <1>9, OwedRows DEF SummaryError, Notifying
  <2>2. missed' \subseteq Members \X rows /\ faults' \in Nat
    <3>1. missed' = missed \cup Owed(g, {u}) /\ missed \subseteq Members \X rows
      BY <1>0, <1>9 DEF SummaryError, TypeOK
    <3>2. faults' \in Nat
      BY <1>0, <1>9 DEF SummaryError, Fault, TypeOK
    <3> QED BY <2>1, <3>1, <3>2
  <2>3. todo' \in [Goroutines -> SUBSET Members]
    BY <1>0, <1>9 DEF SummaryError, TypeOK
  <2>4. UNCHANGED <<pc, msg, note, nextId, rows, feed, told, pushed, by, lost, dead>>
    BY <1>9 DEF SummaryError
  <2> QED BY <1>0, <1>p, <2>2, <2>3, <2>4 DEF TypeOK
<1>10. ASSUME NEW g \in Goroutines, Tell(g) PROVE TypeOK'
  <2>1. note[g] \in Members \X Nat
    BY <1>0, <1>10 DEF Tell, Goto, TypeOK
  <2>2. /\ \A h \in Goroutines : pc'[h] = "idle" <=> pc[h] = "idle"
        /\ \A h \in Goroutines : pc'[h] = "tell" => h # g /\ pc[h] = "tell"
    BY <1>0, <1>10 DEF Tell, Goto, TypeOK, Stages
  <2>3. /\ note' \in [Goroutines -> (Members \X Nat) \cup {<<>>}]
        /\ \A h \in Goroutines : pc'[h] = "tell" => note'[h] \in Members \X Nat
    BY <1>0, <1>10, <2>2 DEF Tell, TypeOK
  <2>4. told' \subseteq Members \X Nat
    BY <1>0, <1>10, <2>1 DEF Tell, TypeOK
  <2>5. UNCHANGED <<msg, todo, nextId, rows, feed, pushed, auxVars, faults>>
    BY <1>10 DEF Tell
  <2> QED BY <1>0, <1>p, <2>2, <2>3, <2>4, <2>5 DEF TypeOK, auxVars
<1>11. ASSUME NEW g \in Goroutines, HandOver(g) PROVE TypeOK'
  <2>1. msg[g] = 0 \/ msg[g] \in rows
    BY <1>0, <1>11 DEF HandOver, Goto, Notifying, TypeOK, MessagingInv, HeldBy, Placed, Goroutines
  <2>2. pushed' \subseteq rows
    BY <1>0, <1>11, <2>1 DEF HandOver, TypeOK
  <2>3. /\ \A h \in Goroutines : pc'[h] = "tell" <=> pc[h] = "tell"
    BY <1>0, <1>11 DEF HandOver, Goto, AtRest, TypeOK, Stages
  <2>4. /\ msg' \in [Goroutines -> Nat]
        /\ \A h \in Goroutines : msg'[h] < nextId
        /\ \A h \in Goroutines : msg'[h] # 0 <=> h \in Readers /\ pc'[h] # "idle"
    BY <1>0, <1>11 DEF HandOver, Goto, AtRest, TypeOK
  <2>5. UNCHANGED <<todo, note, nextId, rows, feed, told, auxVars, faults>>
    BY <1>11 DEF HandOver
  <2> QED BY <1>0, <1>p, <2>2, <2>3, <2>4, <2>5 DEF TypeOK, auxVars
<1>12. CASE Crash
  <2>1. PICK done \in SUBSET HandledIn({"storing"}) :
          /\ rows' = rows \cup done
          /\ lost' = lost \cup done \cup HandledIn({"stored"})
    BY <1>12 DEF Crash, HandledIn
  <2>2. done \subseteq 1..Len(by)
    BY <1>0, <2>1 DEF HandledIn, TypeOK, MessagingInv, HeldBy, Goroutines
  <2>3. HandledIn({"stored"}) \subseteq rows
    BY <1>0 DEF HandledIn, MessagingInv, HeldBy
  <2>4. HandledIn(Notifying) \subseteq rows
    BY <1>0 DEF HandledIn, MessagingInv, HeldBy, Placed
  <2>5. dead' = dead \cup HandledIn(Notifying)
    BY <1>12 DEF Crash, HandledIn
  <2>6. \A g \in Goroutines : Owed(g, Untold(g)) \subseteq Members \X rows
    <3> SUFFICES ASSUME NEW g \in Goroutines
                 PROVE  Owed(g, Untold(g)) \subseteq Members \X rows
      OBVIOUS
    <3>1. CASE pc[g] \in Notifying
      <4>1. Untold(g) \in SUBSET Members
        BY <1>0, <3>1 DEF Untold, Notifying, TypeOK
      <4> QED BY <3>1, <4>1, OwedRows
    <3>2. CASE pc[g] \notin Notifying
      <4>1. Untold(g) = {}
        BY <3>2 DEF Untold, Notifying
      <4> QED BY <4>1 DEF Owed
    <3> QED BY <3>1, <3>2
  <2>7. missed' \subseteq Members \X rows
    BY <1>0, <1>12, <2>6 DEF Crash, TypeOK
  <2>8. /\ rows' \subseteq 1..Len(by) /\ rows \subseteq rows'
        /\ pushed \cup lost' \cup dead' \subseteq rows' /\ feed \in Seq(rows')
    BY <1>0, <2>1, <2>2, <2>3, <2>4, <2>5 DEF TypeOK
  <2>9. missed' \subseteq Members \X rows'
    BY <2>7, <2>8
  <2>10. /\ pc' = [g \in Goroutines |-> IF pc[g] = "idle" THEN "idle" ELSE AtRest(g)]
         /\ msg' = [g \in Goroutines |-> 0]
         /\ todo' = [g \in Goroutines |-> {}] /\ note' = [g \in Goroutines |-> <<>>]
         /\ UNCHANGED <<nextId, feed, told, pushed, by>> /\ faults' = faults + 1
    BY <1>12 DEF Crash, Fault
  <2>11. /\ msg' \in [Goroutines -> Nat]
         /\ \A h \in Goroutines : msg'[h] < nextId'
         /\ \A h \in Goroutines : msg'[h] # 0 <=> h \in Readers /\ pc'[h] # "idle"
         /\ nextId' \in Nat /\ nextId \in Nat
    <3>1. nextId \in Nat \ {0}
      BY <1>0 DEF TypeOK
    <3>2. \A h \in Readers : h \in Goroutines /\ pc'[h] = "idle"
      BY <2>10 DEF AtRest, Goroutines
    <3> QED BY <2>10, <3>1, <3>2
  <2>12. /\ note' \in [Goroutines -> (Members \X Nat) \cup {<<>>}]
         /\ \A h \in Goroutines : pc'[h] = "tell" => note'[h] \in Members \X Nat
         /\ todo' \in [Goroutines -> SUBSET Members]
    BY <2>10 DEF AtRest
  <2>13. faults' \in Nat
    BY <1>0, <2>10 DEF TypeOK
  <2> QED BY <1>0, <1>p, <2>8, <2>9, <2>10, <2>11, <2>12, <2>13 DEF TypeOK
<1> QED BY <1>1, <1>2, <1>3, <1>4, <1>5, <1>6, <1>7, <1>8, <1>9, <1>10, <1>11, <1>12, NextCases

-----------------------------------------------------------------------------
(* Where messages are.                                                     *)

\* Two goroutines never hold the same message.
LEMMA Distinct ==
  ASSUME MessagingInv, NEW g \in Goroutines, NEW h \in Goroutines, h # g, msg[h] # 0
  PROVE  msg[h] # msg[g]
BY DEF MessagingInv, TypeOK, HeldBy

\* A step of g adds at most the message of g to each set.
LEMMA SetsGrow ==
  ASSUME MessagingInv, NEW g \in Goroutines, Step(g)
  PROVE  /\ rows \subseteq rows' /\ rows' \subseteq rows \cup {msg[g]}
         /\ InFeed \subseteq InFeed' /\ InFeed' \subseteq InFeed \cup {msg[g]}
         /\ lost' \subseteq lost \cup {msg[g]}
         /\ pushed' \subseteq pushed \cup {msg[g]}
         /\ dead' = dead
         /\ told \subseteq told' /\ missed \subseteq missed'
         /\ \A m \in 1..Len(by) : m \in 1..Len(by') /\ by'[m] = by[m]
<1>0. TypeOK
  BY DEF MessagingInv
<1>1. CASE Receive(g)
  <2>1. UNCHANGED <<rows, feed, told, pushed, lost, dead, missed>>
    BY <1>1 DEF Receive
  <2>2. Len(by) \in Nat
    BY <1>0 DEF TypeOK
  <2> QED BY <1>0, <1>1, <2>1, <2>2, AuthorsKeep, FeedSame
<1>2. CASE StoreOk(g)
  BY <1>2, FeedSame DEF StoreOk, auxVars
<1>3. CASE StoreError(g)
  BY <1>3, FeedSame DEF StoreError
<1>4. CASE Broadcast(g)
  <2>1. UNCHANGED <<rows, told, pushed, auxVars>>
    BY <1>4 DEF Broadcast
  <2> QED BY <1>0, <1>4, <2>1, FeedGrows DEF auxVars
<1>5. CASE OpenChat(g) \/ ListMembers(g)
  BY <1>5, FeedSame DEF OpenChat, ListMembers, auxVars
<1>6. CASE MembersError(g)
  BY <1>6, FeedSame DEF MembersError
<1>7. ASSUME NEW u \in Members, ReadSummary(g, u) \/ SummaryError(g, u)
      PROVE  /\ UNCHANGED <<rows, feed, lost, pushed, dead, told, by>>
             /\ missed \subseteq missed'
  BY <1>7 DEF ReadSummary, SummaryError, auxVars
<1>8. CASE Tell(g)
  BY <1>8, FeedSame DEF Tell, auxVars
<1>9. CASE HandOver(g)
  BY <1>9, FeedSame DEF HandOver, auxVars
<1> QED BY <1>1, <1>2, <1>3, <1>4, <1>5, <1>6, <1>7, <1>8, <1>9, FeedSame DEF Step

\* A message in the hands of another goroutine stays there.
LEMMA OthersHold ==
  ASSUME MessagingInv, NEW g \in Goroutines, Step(g), NEW S,
         NEW m, m # msg[g], Holding(m, S)
  PROVE  Holding(m, S)'
<1>1. PICK h \in Readers : msg[h] = m /\ pc[h] \in S
  BY DEF Holding
<1>2. h \in Goroutines /\ h # g
  BY <1>1 DEF Goroutines
<1>3. pc'[h] = pc[h] /\ msg'[h] = msg[h]
  BY <1>2, OthersKeep DEF MessagingInv
<1> QED BY <1>1, <1>3 DEF Holding

LEMMA HeldStep ==
  ASSUME MessagingInv, [Next]_vars, NEW h \in Readers
  PROVE  HeldBy(h)'
<1>0. TypeOK /\ Placed /\ HeldBy(h) /\ h \in Goroutines
  BY DEF MessagingInv, Goroutines
<1>1. ASSUME NEW g \in Goroutines, Step(g), h # g PROVE HeldBy(h)'
  <2>1. pc'[h] = pc[h] /\ msg'[h] = msg[h]
    BY <1>0, <1>1, OthersKeep
  <2>2. msg[h] # 0 => msg[h] # msg[g]
    BY <1>0, <1>1, Distinct
  <2>3. msg[h] # 0 <=> pc[h] # "idle"
    BY <1>0 DEF TypeOK
  <2> QED BY <1>0, <1>1, <2>1, <2>2, <2>3, SetsGrow DEF HeldBy, Notifying
<1>2. CASE Receive(h)
  <2>1. /\ pc'[h] = "storing" /\ msg'[h] = Len(by) + 1 /\ rows' = rows
        /\ Len(by) \in Nat /\ rows \subseteq 1..Len(by)
    BY <1>0, <1>2 DEF Receive, Goto, TypeOK
  <2>2. Len(by') = Len(by) + 1 /\ by'[Len(by) + 1] = h
    BY <1>0, <1>2, AuthorsKeep
  <2>3. msg'[h] \in 1..Len(by')
    BY <2>1, <2>2
  <2>4. msg'[h] \notin rows'
    BY <2>1
  <2> QED BY <2>1, <2>2, <2>3, <2>4 DEF HeldBy, Notifying
<1>3. CASE StoreOk(h)
  <2>1. /\ pc[h] = "storing" /\ pc'[h] = "stored" /\ msg' = msg
        /\ rows' = rows \cup {msg[h]} /\ UNCHANGED <<feed, by, lost, pushed, dead>>
    BY <1>0, <1>3 DEF StoreOk, Goto, TypeOK, auxVars
  <2>2. InFeed' = InFeed
    BY <2>1, FeedSame
  <2>3. msg[h] \notin InFeed \cup lost
    BY <1>0, <2>1 DEF HeldBy, Placed, TypeOK
  <2> QED BY <1>0, <2>1, <2>2, <2>3 DEF HeldBy, Notifying
<1>4. CASE StoreError(h) \/ HandOver(h)
  <2>1. pc'[h] = "idle" /\ msg'[h] = 0
    BY <1>0, <1>4 DEF AtRest, StoreError, HandOver, Goto, TypeOK
  <2> QED BY <2>1 DEF HeldBy, Notifying
<1>5. CASE Broadcast(h)
  <2>1. /\ pc[h] = "stored" /\ pc'[h] = "members"
        /\ UNCHANGED <<msg, rows, by, lost, pushed, dead>>
    BY <1>0, <1>5 DEF Broadcast, Goto, TypeOK, auxVars
  <2>2. InFeed' = InFeed \cup {msg[h]}
    BY <1>0, <1>5, FeedGrows
  <2> QED BY <1>0, <2>1, <2>2 DEF HeldBy, Placed, Notifying
<1>6. CASE OpenChat(h)
  BY <1>6, MessagingAssumption DEF OpenChat
<1>7. ASSUME pc[h] \in Notifying, pc'[h] \in Notifying,
             UNCHANGED <<msg, rows, feed, by, lost, pushed, dead>>
      PROVE  HeldBy(h)'
  BY <1>0, <1>7, FeedSame DEF HeldBy, Notifying
<1>8. CASE ListMembers(h)
  BY <1>0, <1>7, <1>8 DEF ListMembers, Goto, TypeOK, Notifying, auxVars
<1>9. CASE MembersError(h)
  BY <1>0, <1>7, <1>9 DEF MembersError, Goto, TypeOK, Notifying
<1>10. ASSUME NEW u \in Members, ReadSummary(h, u) PROVE HeldBy(h)'
  BY <1>0, <1>7, <1>10 DEF ReadSummary, Goto, TypeOK, Notifying, auxVars
<1>11. ASSUME NEW u \in Members, SummaryError(h, u) PROVE HeldBy(h)'
  BY <1>0, <1>7, <1>11 DEF SummaryError, TypeOK, Notifying
<1>12. CASE Tell(h)
  BY <1>0, <1>7, <1>12 DEF Tell, Goto, TypeOK, Notifying, auxVars
<1>13. CASE Crash
  <2>1. pc'[h] = "idle" /\ msg'[h] = 0
    BY <1>0, <1>13 DEF AtRest, Crash
  <2> QED BY <2>1 DEF HeldBy, Notifying
<1>14. CASE UNCHANGED vars
  BY <1>0, <1>14, FeedSame DEF vars, auxVars, HeldBy
<1>15. CASE Step(h)
  BY <1>2, <1>3, <1>4, <1>5, <1>6, <1>8, <1>9, <1>10, <1>11, <1>12, <1>15 DEF Step
<1> QED BY <1>1, <1>13, <1>14, <1>15 DEF Next

LEMMA PlacedStep == MessagingInv /\ [Next]_vars => Placed'
<1> SUFFICES ASSUME MessagingInv, [Next]_vars PROVE Placed'
  OBVIOUS
<1>0. TypeOK /\ Placed /\ \A h \in Readers : HeldBy(h)
  BY DEF MessagingInv
<1>1. ASSUME UNCHANGED <<rows, feed, lost, pushed, dead>>,
             \A m \in rows, S \in {{"stored"}, Notifying} :
               Holding(m, S) => Holding(m, S)'
      PROVE  Placed'
  BY <1>0, <1>1, FeedSame DEF Placed
<1>2. ASSUME NEW g \in Goroutines, Step(g),
             UNCHANGED <<rows, feed, lost, pushed, dead>>,
             g \in Readers /\ pc[g] = "stored" => FALSE,
             pc[g] \in Notifying => pc'[g] \in Notifying /\ msg'[g] = msg[g]
      PROVE  Placed'
  <2>1. ASSUME NEW m \in rows, NEW S \in {{"stored"}, Notifying}, Holding(m, S)
        PROVE  Holding(m, S)'
    <3>1. CASE m # msg[g]
      BY <1>2, <2>1, <3>1, OthersHold
    <3>2. CASE m = msg[g]
      <4>1. PICK h \in Readers : msg[h] = m /\ pc[h] \in S
        BY <2>1 DEF Holding
      <4>2. h \in Goroutines /\ m # 0
        BY <1>0, <2>1 DEF Goroutines, TypeOK
      <4>3. h = g
        BY <3>2, <4>1, <4>2, Distinct
      <4> QED BY <1>2, <2>1, <4>1, <4>3 DEF Holding
    <3> QED BY <3>1, <3>2
  <2> QED BY <1>1, <1>2, <2>1
<1>3. CASE UNCHANGED vars
  BY <1>1, <1>3 DEF vars, auxVars, Holding
<1>4. ASSUME NEW g \in Goroutines, Receive(g) PROVE Placed'
  BY <1>0, <1>2, <1>4 DEF Receive, Goto, Notifying, Step
<1>5. ASSUME NEW g \in Goroutines, StoreOk(g) PROVE Placed'
  <2>1. g \in Readers /\ msg[g] \in 1..Len(by) /\ msg[g] \notin rows
    BY <1>0, <1>5, Storers DEF StoreOk, Goto, HeldBy
  <2>2. /\ pc'[g] = "stored" /\ msg' = msg /\ rows' = rows \cup {msg[g]}
        /\ UNCHANGED <<feed, lost, pushed, dead>>
    BY <1>0, <1>5 DEF StoreOk, Goto, TypeOK, auxVars
  <2>3. Holding(msg[g], {"stored"})'
    BY <2>1, <2>2 DEF Holding
  <2>4. ASSUME NEW m \in rows, NEW S, Holding(m, S) PROVE Holding(m, S)'
    BY <1>5, <2>1, <2>4, OthersHold DEF Step
  <2>5. \A m \in rows' : m \in InFeed \cup lost \/ Holding(m, {"stored"})'
    BY <1>0, <2>2, <2>3, <2>4 DEF Placed
  <2>6. \A m \in InFeed : m \in pushed \cup dead \/ Holding(m, Notifying)'
    BY <1>0, <2>4 DEF Placed
  <2> QED BY <1>0, <2>2, <2>5, <2>6, FeedSame DEF Placed
<1>6. ASSUME NEW g \in Goroutines, StoreError(g) PROVE Placed'
  <2>1. g \in Readers /\ msg[g] \in 1..Len(by) /\ msg[g] \notin rows
    BY <1>0, <1>6, Storers DEF StoreError, Goto, HeldBy
  <2>2. /\ \/ UNCHANGED <<rows, lost>>
           \/ rows' = rows \cup {msg[g]} /\ lost' = lost \cup {msg[g]}
        /\ UNCHANGED <<feed, pushed, dead>>
    BY <1>6 DEF StoreError
  <2>3. ASSUME NEW m \in rows, NEW S, Holding(m, S) PROVE Holding(m, S)'
    BY <1>6, <2>1, <2>3, OthersHold DEF Step
  <2>4. \A m \in rows' : m \in InFeed \cup lost' \/ Holding(m, {"stored"})'
    BY <1>0, <2>2, <2>3 DEF Placed
  <2>5. \A m \in InFeed : m \in pushed \cup dead \/ Holding(m, Notifying)'
    BY <1>0, <2>3 DEF Placed
  <2> QED BY <1>0, <2>1, <2>2, <2>4, <2>5, FeedSame DEF Placed
<1>7. ASSUME NEW g \in Goroutines, Broadcast(g) PROVE Placed'
  <2>1. g \in Readers /\ msg[g] \in rows /\ msg[g] \notin InFeed \cup lost
    BY <1>0, <1>7, Storers DEF Broadcast, Goto, HeldBy
  <2>2. /\ pc'[g] = "members" /\ msg' = msg
        /\ UNCHANGED <<rows, lost, pushed, dead>>
    BY <1>0, <1>7 DEF Broadcast, Goto, TypeOK, auxVars
  <2>3. InFeed' = InFeed \cup {msg[g]}
    BY <1>0, <1>7, FeedGrows
  <2>4. Holding(msg[g], Notifying)'
    BY <2>1, <2>2 DEF Holding, Notifying
  <2>5. ASSUME NEW m, m # msg[g], NEW S, Holding(m, S) PROVE Holding(m, S)'
    BY <1>7, <2>5, OthersHold DEF Step
  <2>6. \A m \in rows : m \in InFeed' \cup lost \/ Holding(m, {"stored"})'
    BY <1>0, <2>3, <2>5 DEF Placed
  <2>7. \A m \in InFeed' : m \in pushed \cup dead \/ Holding(m, Notifying)'
    <3> SUFFICES ASSUME NEW m \in InFeed'
                 PROVE  m \in pushed \cup dead \/ Holding(m, Notifying)'
      OBVIOUS
    <3>1. CASE m = msg[g]
      BY <2>2, <2>4, <3>1 DEF Holding
    <3>2. CASE m # msg[g]
      <4>1. m \in InFeed
        BY <2>3, <3>2
      <4>2. m \in pushed \cup dead \/ Holding(m, Notifying)
        BY <1>0, <4>1 DEF Placed
      <4> QED BY <2>5, <3>2, <4>2
    <3> QED BY <3>1, <3>2
  <2>8. InFeed' \subseteq rows' /\ InFeed' \cap lost' = {}
    BY <1>0, <2>1, <2>2, <2>3 DEF Placed
  <2>9. pushed' \cup dead' \subseteq InFeed' /\ pushed' \cap dead' = {}
    BY <1>0, <2>2, <2>3 DEF Placed
  <2> QED BY <2>2, <2>6, <2>7, <2>8, <2>9 DEF Placed
<1>8. ASSUME NEW g \in Goroutines, OpenChat(g) PROVE Placed'
  BY <1>0, <1>2, <1>8 DEF OpenChat, Goto, Notifying, Step, auxVars
<1>9. ASSUME NEW g \in Goroutines, ListMembers(g) PROVE Placed'
  BY <1>0, <1>2, <1>9 DEF ListMembers, Goto, TypeOK, Notifying, Step, auxVars
<1>10. ASSUME NEW g \in Goroutines, MembersError(g) PROVE Placed'
  BY <1>0, <1>2, <1>10 DEF MembersError, Goto, TypeOK, Notifying, Step
<1>11. ASSUME NEW g \in Goroutines, NEW u \in Members, ReadSummary(g, u) PROVE Placed'
  BY <1>0, <1>2, <1>11 DEF ReadSummary, Goto, TypeOK, Notifying, Step, auxVars
<1>12. ASSUME NEW g \in Goroutines, NEW u \in Members, SummaryError(g, u) PROVE Placed'
  BY <1>0, <1>2, <1>12 DEF SummaryError, TypeOK, Notifying, Step
<1>13. ASSUME NEW g \in Goroutines, Tell(g) PROVE Placed'
  BY <1>0, <1>2, <1>13 DEF Tell, Goto, TypeOK, Notifying, Step, auxVars
<1>14. ASSUME NEW g \in Goroutines, HandOver(g) PROVE Placed'
  <2>1. /\ pushed' = pushed \cup ({msg[g]} \ {0})
        /\ UNCHANGED <<rows, feed, lost, dead>>
    BY <1>14 DEF HandOver, auxVars
  <2>2. msg[g] # 0 => msg[g] \in InFeed \ dead
    BY <1>0, <1>14 DEF HandOver, Goto, HeldBy, Notifying, TypeOK
  <2>3. ASSUME NEW m, m # msg[g], NEW S, Holding(m, S) PROVE Holding(m, S)'
    BY <1>14, <2>3, OthersHold DEF Step
  <2>4. \A m \in rows : m # 0
    BY <1>0 DEF TypeOK
  <2>5. \A m \in rows : m \in InFeed \cup lost \/ Holding(m, {"stored"})'
    BY <1>0, <2>2, <2>3, <2>4 DEF Placed
  <2>6. \A m \in InFeed : m \in pushed' \cup dead \/ Holding(m, Notifying)'
    BY <1>0, <2>1, <2>3, <2>4 DEF Placed
  <2> QED BY <1>0, <2>1, <2>2, <2>5, <2>6, FeedSame DEF Placed
<1>15. CASE Crash
  <2>1. PICK done \in SUBSET HandledIn({"storing"}) :
          /\ rows' = rows \cup done
          /\ lost' = lost \cup done \cup HandledIn({"stored"})
    BY <1>15 DEF Crash, HandledIn
  <2>2. dead' = dead \cup HandledIn(Notifying) /\ UNCHANGED <<feed, pushed>>
    BY <1>15 DEF Crash, HandledIn
  <2>3. \A m, S : Holding(m, S) => m \in HandledIn(S)
    BY DEF Holding, HandledIn
  <2>4. done \cap rows = {}
    BY <1>0, <2>1 DEF HandledIn, HeldBy
  <2>5. HandledIn({"stored"}) \subseteq rows /\ HandledIn({"stored"}) \cap InFeed = {}
    BY <1>0 DEF HandledIn, HeldBy
  <2>6. HandledIn(Notifying) \subseteq InFeed /\ HandledIn(Notifying) \cap pushed = {}
    BY <1>0 DEF HandledIn, HeldBy
  <2>7. \A m \in rows' : m \in InFeed \cup lost'
    BY <1>0, <2>1, <2>3 DEF Placed
  <2>8. \A m \in InFeed : m \in pushed \cup dead'
    BY <1>0, <2>2, <2>3 DEF Placed
  <2>9. InFeed \subseteq rows' /\ InFeed \cap lost' = {}
    BY <1>0, <2>1, <2>4, <2>5 DEF Placed
  <2> QED BY <1>0, <2>2, <2>6, <2>7, <2>8, <2>9, FeedSame DEF Placed
<1> QED BY <1>3, <1>4, <1>5, <1>6, <1>7, <1>8, <1>9, <1>10, <1>11, <1>12,
           <1>13, <1>14, <1>15, NextCases

-----------------------------------------------------------------------------
(* The order of the feed.                                                  *)

\* Only a broadcast changes the feed, and only by a message that is not in
\* it and is younger than the sender's others.
LEMMA FeedOrderStep == MessagingInv /\ [Next]_vars => Once' /\ SenderOrder'
<1> SUFFICES ASSUME MessagingInv, [Next]_vars PROVE Once' /\ SenderOrder'
  OBVIOUS
<1>0. TypeOK /\ Once /\ SenderOrder
  BY DEF MessagingInv
<1>f. /\ Len(feed) \in Nat
      /\ \A i \in 1..Len(feed) : feed[i] \in 1..Len(by) /\ feed[i] \in InFeed
  <2>1. feed \in Seq(rows) /\ rows \subseteq 1..Len(by)
    BY <1>0 DEF TypeOK
  <2>2. Len(feed) \in Nat /\ \A i \in 1..Len(feed) : feed[i] \in rows
    BY <2>1
  <2> QED BY <2>1, <2>2 DEF InFeed
<1>1. ASSUME UNCHANGED feed, \A m \in 1..Len(by) : by'[m] = by[m]
      PROVE  Once' /\ SenderOrder'
  <2>1. Once'
    BY <1>0, <1>1 DEF Once
  <2>2. \A i \in 1..Len(feed) : by'[feed[i]] = by[feed[i]]
    BY <1>f, <1>1
  <2>3. SenderOrder'
    BY <1>0, <1>1, <2>2 DEF SenderOrder
  <2> QED BY <2>1, <2>3
<1>2. ASSUME NEW g \in Goroutines, Broadcast(g) PROVE Once' /\ SenderOrder'
  <2>1. /\ Len(feed') = Len(feed) + 1
        /\ \A i \in 1..Len(feed) : feed'[i] = feed[i]
        /\ feed'[Len(feed) + 1] = msg[g]
    BY <1>0, <1>2, FeedGrows
  <2>2. g \in Readers /\ pc[g] = "stored" /\ by' = by
    BY <1>2, Storers DEF Broadcast, Goto, auxVars
  <2>3. msg[g] \notin InFeed /\ by[msg[g]] = g /\ msg[g] \in 1..Len(by)
    BY <2>2, Storers DEF MessagingInv, HeldBy, Goroutines, TypeOK
  <2>4. \A m \in InFeed : by[m] = g => m < msg[g]
    BY <2>2 DEF MessagingInv, Younger
  <2>5. \A i \in 1..Len(feed') : i = Len(feed) + 1 \/ i \in 1..Len(feed)
    BY <1>f, <2>1
  <2>6. Once'
    BY <1>0, <1>f, <2>1, <2>3, <2>5 DEF Once
  <2>7. SenderOrder'
    <3> SUFFICES ASSUME NEW i \in 1..Len(feed'), NEW j \in 1..Len(feed'),
                        i < j, by[feed'[i]] = by[feed'[j]]
                 PROVE  feed'[i] < feed'[j]
      BY <2>2 DEF SenderOrder
    <3>1. i \in 1..Len(feed)
      BY <1>f, <2>1, <2>5
    <3>2. CASE j \in 1..Len(feed)
      BY <1>0, <2>1, <3>1, <3>2 DEF SenderOrder
    <3>3. CASE j = Len(feed) + 1
      BY <1>f, <2>1, <2>3, <2>4, <3>1, <3>3
    <3> QED BY <2>5, <3>2, <3>3
  <2> QED BY <2>6, <2>7
<1>3. ASSUME NEW g \in Goroutines, Step(g), ~Broadcast(g) PROVE UNCHANGED feed
  BY <1>3 DEF Step, Receive, StoreOk, StoreError, OpenChat, ListMembers,
              MembersError, ReadSummary, SummaryError, Tell, HandOver
<1>4. ASSUME NEW g \in Goroutines, Step(g) PROVE Once' /\ SenderOrder'
  BY <1>1, <1>2, <1>3, <1>4, SetsGrow
<1>5. CASE Crash \/ UNCHANGED vars
  BY <1>1, <1>5 DEF Crash, vars, auxVars
<1> QED BY <1>4, <1>5 DEF Next

LEMMA YoungerStep ==
  ASSUME MessagingInv, [Next]_vars, NEW h \in Readers
  PROVE  Younger(h)'
<1>0. TypeOK /\ Placed /\ Younger(h) /\ h \in Goroutines
  BY DEF MessagingInv, Goroutines
<1>a. InFeed \subseteq 1..Len(by) /\ Len(by) \in Nat
  BY <1>0 DEF TypeOK, Placed
<1>1. ASSUME NEW g \in Goroutines, Step(g), h # g PROVE Younger(h)'
  <2>1. pc'[h] = pc[h] /\ msg'[h] = msg[h]
    BY <1>0, <1>1, OthersKeep
  <2>2. /\ InFeed' \subseteq InFeed \cup {msg[g]}
        /\ \A m \in 1..Len(by) : by'[m] = by[m]
    BY <1>1, SetsGrow
  <2>3. msg[g] \in InFeed' => \/ msg[g] \in InFeed
                              \/ by[msg[g]] = g /\ msg[g] \in 1..Len(by)
    <3>1. CASE Broadcast(g)
      <4>1. g \in Readers /\ msg[g] \in 1..Len(by)
        BY <3>1, Storers DEF Broadcast, Goto
      <4> QED BY <1>a, <4>1 DEF MessagingInv, HeldBy
    <3>2. CASE ~Broadcast(g)
      <4>1. UNCHANGED feed
        BY <1>1, <3>2 DEF Step, Receive, StoreOk, StoreError, OpenChat, ListMembers,
                          MembersError, ReadSummary, SummaryError, Tell, HandOver
      <4> QED BY <4>1, FeedSame
    <3> QED BY <3>1, <3>2
  <2>4. \A m \in InFeed' : by'[m] = h => m \in InFeed /\ by[m] = h
    BY <1>1, <1>a, <2>2, <2>3
  <2> QED BY <1>0, <2>1, <2>4 DEF Younger
<1>2. CASE Receive(h)
  <2>1. msg'[h] = Len(by) + 1 /\ UNCHANGED feed
    BY <1>0, <1>2 DEF Receive, TypeOK
  <2>2. InFeed' = InFeed
    BY <2>1, FeedSame
  <2>3. \A m \in InFeed' : m < msg'[h]
    BY <1>a, <2>1, <2>2
  <2> QED BY <2>3 DEF Younger
<1>3. CASE StoreOk(h)
  <2>1. pc[h] = "storing" /\ UNCHANGED <<msg, by, feed>>
    BY <1>3 DEF StoreOk, Goto, auxVars
  <2> QED BY <1>0, <2>1, FeedSame DEF Younger
<1>4. CASE Step(h) /\ ~Receive(h) /\ ~StoreOk(h)
  <2>1. pc'[h] \notin {"storing", "stored"}
    <3>1. CASE StoreError(h) \/ Broadcast(h) \/ OpenChat(h) \/ ListMembers(h)
      BY <1>0, <3>1 DEF StoreError, Broadcast, OpenChat, ListMembers, Goto, TypeOK
    <3>2. CASE MembersError(h) \/ Tell(h) \/ HandOver(h)
      BY <1>0, <3>2 DEF AtRest, MembersError, Tell, HandOver, Goto, TypeOK
    <3>3. ASSUME NEW u \in Members, ReadSummary(h, u) \/ SummaryError(h, u)
          PROVE  pc'[h] \notin {"storing", "stored"}
      BY <1>0, <3>3 DEF ReadSummary, SummaryError, Goto, TypeOK
    <3> QED BY <1>4, <3>1, <3>2, <3>3 DEF Step
  <2> QED BY <2>1 DEF Younger
<1>5. CASE Crash
  BY <1>0, <1>5 DEF AtRest, Crash, Younger
<1>6. CASE UNCHANGED vars
  BY <1>0, <1>6, FeedSame DEF vars, auxVars, Younger
<1> QED BY <1>1, <1>2, <1>3, <1>4, <1>5, <1>6 DEF Next

-----------------------------------------------------------------------------
(* Updates of the chat lists.                                              *)

LEMMA FreshStep ==
  ASSUME MessagingInv, [Next]_vars, NEW h \in Readers
  PROVE  Fresh(h)'
<1>0. TypeOK /\ Placed /\ HeldBy(h) /\ Fresh(h) /\ h \in Goroutines
  BY DEF MessagingInv, Goroutines
<1>1. ASSUME NEW g \in Goroutines, Step(g), h # g PROVE Fresh(h)'
  BY <1>0, <1>1, OthersKeep DEF Fresh
<1>2. ASSUME NEW u \in Members, ReadSummary(h, u) PROVE Fresh(h)'
  <2>1. PICK m \in rows \cup {0} : IsLast(m) /\ note' = [note EXCEPT ![h] = <<u, m>>]
    BY <1>2 DEF ReadSummary
  <2>2. msg' = msg /\ note'[h] = <<u, m>>
    BY <1>0, <1>2, <2>1 DEF ReadSummary, TypeOK
  <2>3. msg[h] \in rows
    BY <1>0, <1>2 DEF ReadSummary, Goto, HeldBy, Notifying, Placed
  <2>4. msg[h] <= m
    BY <2>1, <2>3 DEF IsLast
  <2> QED BY <2>2, <2>4 DEF Fresh
<1>3. CASE Step(h) /\ ~\E u \in Members : ReadSummary(h, u)
  <2>1. pc'[h] # "tell"
    <3>1. CASE Receive(h) \/ StoreOk(h) \/ StoreError(h) \/ Broadcast(h) \/ OpenChat(h)
      BY <1>0, <3>1 DEF Receive, StoreOk, StoreError, Broadcast, OpenChat, Goto, TypeOK
    <3>2. CASE ListMembers(h) \/ MembersError(h) \/ Tell(h) \/ HandOver(h)
      BY <1>0, <3>2 DEF AtRest, ListMembers, MembersError, Tell, HandOver, Goto, TypeOK
    <3>3. ASSUME NEW u \in Members, SummaryError(h, u) PROVE pc'[h] # "tell"
      BY <3>3 DEF SummaryError
    <3> QED BY <1>3, <3>1, <3>2, <3>3 DEF Step
  <2> QED BY <2>1 DEF Fresh
<1>4. CASE Crash
  BY <1>0, <1>4 DEF AtRest, Crash, Fresh
<1>5. CASE UNCHANGED vars
  BY <1>0, <1>5 DEF vars, Fresh
<1> QED BY <1>1, <1>2, <1>3, <1>4, <1>5 DEF Next

\* One member and one message of UpdateCovers.
Served(u, m) ==
  \/ \E t \in told : t[1] = u /\ t[2] >= m
  \/ <<u, m>> \in missed
  \/ \E r \in Readers : msg[r] = m /\ u \in Untold(r)

LEMMA ServedEverywhere == UpdateCovers <=> \A u \in Members, m \in InFeed : Served(u, m)
BY DEF UpdateCovers, Served

\* A step of g only touches the standing of the message of g.
LEMMA ServedOther ==
  ASSUME MessagingInv, NEW g \in Goroutines, Step(g),
         NEW u \in Members, NEW m \in InFeed, m # msg[g], Served(u, m)
  PROVE  Served(u, m)'
<1>1. told \subseteq told' /\ missed \subseteq missed'
  BY SetsGrow
<1>2. ASSUME NEW r \in Readers, msg[r] = m, u \in Untold(r)
      PROVE  msg'[r] = m /\ u \in Untold(r)'
  <2>1. r \in Goroutines /\ r # g
    BY <1>2 DEF Goroutines
  <2>2. pc'[r] = pc[r] /\ msg'[r] = msg[r] /\ todo'[r] = todo[r] /\ note'[r] = note[r]
    BY <2>1, OthersKeep DEF MessagingInv
  <2> QED BY <1>2, <2>2 DEF Untold
<1> QED BY <1>1, <1>2 DEF Served

\* g keeps owing what it owed.
LEMMA ServedOwn ==
  ASSUME MessagingInv, NEW g \in Goroutines, Step(g),
         NEW m \in InFeed, msg[g] = m, msg'[g] = m,
         NEW u \in Members, Served(u, m),
         u \in Untold(g) =>
           \/ u \in Untold(g)'
           \/ <<u, m>> \in missed'
           \/ \E t \in told' : t[1] = u /\ t[2] >= m
  PROVE  Served(u, m)'
<1>1. told \subseteq told' /\ missed \subseteq missed'
  BY SetsGrow
<1>2. ASSUME NEW r \in Readers, msg[r] = m PROVE r = g
  <2>1. m # 0
    BY DEF MessagingInv, TypeOK, Placed
  <2> QED BY <1>2, <2>1, Distinct DEF Goroutines
<1> QED BY <1>1, <1>2 DEF Served

LEMMA CoversStep == MessagingInv /\ [Next]_vars => UpdateCovers'
<1> SUFFICES ASSUME MessagingInv, [Next]_vars PROVE UpdateCovers'
  OBVIOUS
<1>0. TypeOK /\ Placed /\ \A u \in Members, m \in InFeed : Served(u, m)
  BY ServedEverywhere DEF MessagingInv
<1>a. ASSUME \A u \in Members, m \in InFeed' : Served(u, m)'
      PROVE  UpdateCovers'
  BY <1>a DEF UpdateCovers, Served
<1>1. ASSUME NEW g \in Goroutines, Step(g), UNCHANGED feed,
             \A u \in Members, m \in InFeed : msg[g] = m => Served(u, m)'
      PROVE  UpdateCovers'
  <2>1. ASSUME NEW u \in Members, NEW m \in InFeed PROVE Served(u, m)'
    BY <1>0, <1>1, ServedOther
  <2>2. InFeed' = InFeed
    BY <1>1, FeedSame
  <2> QED BY <1>a, <2>1, <2>2
<1>2. CASE UNCHANGED vars
  <2>1. InFeed' = InFeed
    BY <1>2, FeedSame DEF vars
  <2>2. ASSUME NEW u \in Members, NEW m \in InFeed PROVE Served(u, m)'
    BY <1>0, <1>2 DEF vars, auxVars, Served, Untold
  <2> QED BY <1>a, <2>1, <2>2
<1>3. ASSUME NEW g \in Goroutines, Receive(g) \/ OpenChat(g) PROVE UpdateCovers'
  <2>1. msg[g] = 0 /\ UNCHANGED feed
    BY <1>0, <1>3 DEF Receive, OpenChat, Goto, TypeOK
  <2>2. 0 \notin InFeed
    BY <1>0 DEF TypeOK, Placed
  <2> QED BY <1>1, <1>3, <2>1, <2>2 DEF Step
<1>4. ASSUME NEW g \in Goroutines, StoreOk(g) \/ StoreError(g) PROVE UpdateCovers'
  <2>1. g \in Readers /\ pc[g] = "storing" /\ UNCHANGED feed
    BY <1>4, Storers DEF StoreOk, StoreError, Goto
  <2>2. msg[g] \notin InFeed
    BY <1>0, <2>1 DEF MessagingInv, HeldBy, Placed
  <2> QED BY <1>1, <1>4, <2>1, <2>2 DEF Step
<1>5. ASSUME NEW g \in Goroutines, Broadcast(g) PROVE UpdateCovers'
  <2>1. g \in Readers /\ msg' = msg /\ pc'[g] = "members"
    BY <1>0, <1>5, Storers DEF Broadcast, Goto, TypeOK
  <2>2. InFeed' = InFeed \cup {msg[g]}
    BY <1>0, <1>5, FeedGrows
  <2>3. ASSUME NEW u \in Members, NEW m \in InFeed' PROVE Served(u, m)'
    <3>1. CASE m = msg[g]
      <4>1. msg'[g] = m /\ u \in Untold(g)'
        BY <2>1, <3>1 DEF Untold
      <4> QED BY <2>1, <4>1 DEF Served
    <3>2. CASE m # msg[g]
      BY <1>0, <1>5, <2>2, <3>2, ServedOther DEF Step
    <3> QED BY <3>1, <3>2
  <2> QED BY <1>a, <2>3
<1>6. ASSUME NEW g \in Goroutines, ListMembers(g) PROVE UpdateCovers'
  <2>1. /\ pc'[g] = "update" /\ todo'[g] = Members /\ msg' = msg
        /\ UNCHANGED feed /\ Untold(g)' = Members
    BY <1>0, <1>6 DEF ListMembers, Goto, TypeOK, Untold
  <2> QED BY <1>0, <1>1, <1>6, <2>1, ServedOwn DEF Step
<1>7. ASSUME NEW g \in Goroutines, MembersError(g) PROVE UpdateCovers'
  <2>1. /\ missed' = missed \cup Owed(g, Members) /\ msg' = msg
        /\ UNCHANGED feed
    BY <1>0, <1>7 DEF MembersError, Goto, TypeOK
  <2>2. \A u \in Members, m \in InFeed : msg[g] = m => <<u, m>> \in missed'
    BY <1>0, <2>1 DEF Owed, TypeOK, Placed
  <2> QED BY <1>0, <1>1, <1>7, <2>1, <2>2, ServedOwn DEF Step
<1>8. ASSUME NEW g \in Goroutines, NEW v \in Members, ReadSummary(g, v) PROVE UpdateCovers'
  <2>1. PICK n \in rows \cup {0} : note' = [note EXCEPT ![g] = <<v, n>>]
    BY <1>8 DEF ReadSummary
  <2>2. /\ pc[g] = "update" /\ pc'[g] = "tell" /\ msg' = msg /\ v \in todo[g]
        /\ todo'[g] = todo[g] \ {v} /\ note'[g] = <<v, n>> /\ UNCHANGED feed
    BY <1>0, <1>8, <2>1 DEF ReadSummary, Goto, TypeOK
  <2>3. Untold(g) = todo[g] /\ Untold(g)' = todo'[g] \cup {v}
    BY <2>2 DEF Untold
  <2> QED BY <1>0, <1>1, <1>8, <2>2, <2>3, ServedOwn DEF Step
<1>9. ASSUME NEW g \in Goroutines, NEW v \in Members, SummaryError(g, v) PROVE UpdateCovers'
  <2>1. /\ pc[g] = "update" /\ pc' = pc /\ msg' = msg /\ v \in todo[g]
        /\ todo'[g] = todo[g] \ {v} /\ missed' = missed \cup Owed(g, {v})
        /\ UNCHANGED feed
    BY <1>0, <1>9 DEF SummaryError, TypeOK
  <2>2. Untold(g) = todo[g] /\ Untold(g)' = todo'[g]
    BY <2>1 DEF Untold
  <2>3. \A m \in InFeed : msg[g] = m => <<v, m>> \in missed'
    BY <1>0, <2>1 DEF Owed, TypeOK, Placed
  <2>4. ASSUME NEW u \in Members, NEW m \in InFeed, msg[g] = m PROVE Served(u, m)'
    <3>1. u \in Untold(g) => u \in Untold(g)' \/ <<u, m>> \in missed'
      BY <2>1, <2>2, <2>3, <2>4
    <3>2. Step(g) /\ msg'[g] = m
      BY <1>9, <2>1, <2>4 DEF Step
    <3> QED BY <1>0, <2>4, <3>1, <3>2, ServedOwn
  <2> QED BY <1>1, <1>9, <2>1, <2>4 DEF Step
<1>10. ASSUME NEW g \in Goroutines, Tell(g) PROVE UpdateCovers'
  <2>1. /\ pc[g] = "tell" /\ pc'[g] = "update" /\ msg' = msg /\ todo' = todo
        /\ told' = told \cup {note[g]} /\ UNCHANGED feed
    BY <1>0, <1>10 DEF Tell, Goto, TypeOK
  <2>2. Untold(g) = todo[g] \cup {note[g][1]} /\ Untold(g)' = todo[g]
    BY <2>1 DEF Untold
  <2>3. ASSUME NEW m \in InFeed, msg[g] = m PROVE note[g][2] >= m
    <3>1. g \in Readers
      BY <1>0, <2>3 DEF TypeOK, Placed
    <3> QED BY <2>1, <2>3, <3>1 DEF MessagingInv, Fresh
  <2>4. ASSUME NEW u \in Members, NEW m \in InFeed, msg[g] = m PROVE Served(u, m)'
    <3>1. u \in Untold(g) => u \in Untold(g)' \/ \E t \in told' : t[1] = u /\ t[2] >= m
      BY <2>1, <2>2, <2>3, <2>4
    <3>2. Step(g) /\ msg'[g] = m
      BY <1>10, <2>1, <2>4 DEF Step
    <3> QED BY <1>0, <2>4, <3>1, <3>2, ServedOwn
  <2> QED BY <1>1, <1>10, <2>1, <2>4 DEF Step
<1>11. ASSUME NEW g \in Goroutines, HandOver(g) PROVE UpdateCovers'
  <2>1. /\ Untold(g) = {} /\ UNCHANGED <<feed, told, missed>>
    BY <1>11 DEF HandOver, Goto, Untold, auxVars
  <2>2. ASSUME NEW u \in Members, NEW m \in InFeed, msg[g] = m PROVE Served(u, m)'
    <3>1. ~\E r \in Readers : msg[r] = m /\ u \in Untold(r)
      <4>1. m # 0
        BY <1>0 DEF TypeOK, Placed
      <4> QED BY <2>1, <2>2, <4>1, Distinct DEF Goroutines
    <3> QED BY <1>0, <2>1, <3>1 DEF Served
  <2> QED BY <1>1, <1>11, <2>1, <2>2 DEF Step
<1>12. CASE Crash
  <2>1. /\ missed' = missed \cup UNION {Owed(r, Untold(r)) : r \in Goroutines}
        /\ UNCHANGED <<feed, told>>
    BY <1>12 DEF Crash
  <2>2. ASSUME NEW u \in Members, NEW m \in InFeed PROVE Served(u, m)'
    <3>1. ASSUME NEW r \in Readers, msg[r] = m, u \in Untold(r)
          PROVE  <<u, m>> \in missed'
      <4>1. m # 0 /\ r \in Goroutines
        BY <1>0 DEF TypeOK, Placed, Goroutines
      <4>2. <<u, m>> \in Owed(r, Untold(r))
        BY <3>1, <4>1 DEF Owed
      <4> QED BY <2>1, <4>1, <4>2
    <3> QED BY <1>0, <2>1, <3>1 DEF Served
  <2>3. InFeed' = InFeed
    BY <2>1, FeedSame
  <2> QED BY <1>a, <2>2, <2>3
<1> QED BY <1>2, <1>3, <1>4, <1>5, <1>6, <1>7, <1>8, <1>9, <1>10, <1>11, <1>12,
           NextCases

-----------------------------------------------------------------------------
(* The theorems.                                                           *)

LEMMA MessagingStep == MessagingInv /\ [Next]_vars => MessagingInv'
BY TypeStep, HeldStep, YoungerStep, FreshStep, PlacedStep, FeedOrderStep, CoversStep
   DEF MessagingInv

LEMMA MessagingInductive == Spec => []MessagingInv
BY MessagingInit, MessagingStep, PTL DEF Spec

\* Every variable has its type: rows, feed and goroutines only hold ids that
\* messages_id_seq has given.
THEOREM TypeCorrect == Spec => []TypeOK
<1>1. MessagingInv => TypeOK
  BY DEF MessagingInv
<1> QED BY <1>1, MessagingInductive, PTL

\* readLoop broadcasts what it stored, once, and nothing else.
THEOREM FeedExactCorrect == Spec => []FeedExact
<1>1. MessagingInv => FeedExact
  <2> SUFFICES ASSUME MessagingInv PROVE FeedExact
    OBVIOUS
  <2>1. Once /\ Placed /\ \A g \in Readers : HeldBy(g)
    BY DEF MessagingInv
  <2>2. \A m, S : m \in HandledIn(S) <=> Holding(m, S)
    BY DEF HandledIn, Holding
  <2>3. InFeed \cap (HandledIn({"storing", "stored"}) \cup lost) = {}
    BY <2>1 DEF Placed, HeldBy, HandledIn
  <2>4. HandledIn({"stored"}) \subseteq rows
    BY <2>1 DEF HeldBy, HandledIn
  <2>5. lost \subseteq rows
    BY DEF MessagingInv, TypeOK
  <2>6. rows = InFeed \cup HandledIn({"stored"}) \cup lost
    BY <2>1, <2>2, <2>4, <2>5 DEF Placed
  <2> QED BY <2>1, <2>3, <2>6 DEF FeedExact, Once
<1> QED BY <1>1, MessagingInductive, PTL

\* The messages of one connection reach the chat in the order of their ids.
THEOREM SenderOrderCorrect == Spec => []SenderOrder
<1>1. MessagingInv => SenderOrder
  BY DEF MessagingInv
<1> QED BY <1>1, MessagingInductive, PTL

\* notifyChatUpdate, although it reads a summary and sends it later, leaves
\* no member without an update as new as the message.
THEOREM UpdateCoversCorrect == Spec => []UpdateCovers
<1>1. MessagingInv => UpdateCovers
  BY DEF MessagingInv
<1> QED BY <1>1, MessagingInductive, PTL

\* The push goroutine is started once for every message that was broadcast.
THEOREM PushFollowsCorrect == Spec => []PushFollows
<1>1. MessagingInv => PushFollows
  <2> SUFFICES ASSUME MessagingInv PROVE PushFollows
    OBVIOUS
  <2>1. Placed /\ \A g \in Readers : HeldBy(g)
    BY DEF MessagingInv
  <2>2. \A m, S : m \in HandledIn(S) <=> Holding(m, S)
    BY DEF HandledIn, Holding
  <2>3. HandledIn(Notifying) \subseteq InFeed
    BY <2>1 DEF HeldBy, HandledIn
  <2>4. InFeed = pushed \cup HandledIn(Notifying) \cup dead
    BY <2>1, <2>2, <2>3 DEF Placed
  <2>5. ASSUME NEW g \in Readers PROVE msg[g] \notin pushed
    <3>1. pushed \subseteq InFeed /\ InFeed \subseteq rows /\ 0 \notin rows
      BY <2>1 DEF Placed, MessagingInv, TypeOK
    <3>2. CASE pc[g] = "idle"
      <4>1. msg[g] = 0
        BY <3>2 DEF MessagingInv, TypeOK, Goroutines
      <4> QED BY <3>1, <4>1
    <3>3. CASE pc[g] # "idle"
      <4>1. pc[g] \in {"storing", "stored"} \cup Notifying
        BY <3>3 DEF MessagingInv, TypeOK, Stages, Notifying, Goroutines
      <4> QED BY <2>1, <3>1, <4>1 DEF HeldBy
    <3> QED BY <3>2, <3>3
  <2>6. pushed \cap (HandledIn(Stages) \cup dead) = {}
    BY <2>1, <2>5 DEF Placed, HandledIn
  <2> QED BY <2>4, <2>6 DEF PushFollows
<1> QED BY <1>1, MessagingInductive, PTL
-----------------------------------------------------------------------------
(* The mailbox.                                                            *)

LEMMA BoxBegins == Init => Box!Init
BY DEF Init, Box!Init

\* Whoever is in the hands of a readLoop is not yet dropped or alerted.
LEMMA InHandFree ==
  ASSUME MessagingInv, NEW g \in Readers, pc[g] \in {"storing", "stored"} \cup Notifying
  PROVE  /\ msg[g] \in 1..Len(by) /\ by[msg[g]] = g
         /\ msg[g] \notin lost \cup dead \cup pushed
<1>1. HeldBy(g) /\ Placed /\ lost \subseteq rows
  BY DEF MessagingInv, TypeOK
<1>2. msg[g] # 0
  BY DEF MessagingInv, TypeOK, Goroutines, Notifying
<1> QED BY <1>1, <1>2 DEF HeldBy, Placed

LEMMA BoxStep == MessagingInv /\ [Next]_vars => [Box!Next]_(Box!vars)
<1> SUFFICES ASSUME MessagingInv, [Next]_vars PROVE [Box!Next]_(Box!vars)
  OBVIOUS
<1>0. TypeOK /\ Placed /\ InFeed = Box!Shown
  BY DEF MessagingInv, InFeed, Box!Shown
<1>1. ASSUME UNCHANGED <<by, rows, feed, pushed, lost, dead>>
      PROVE  [Box!Next]_(Box!vars)
  BY <1>1 DEF Box!vars
<1>2. ASSUME NEW g \in Goroutines, Receive(g) PROVE [Box!Next]_(Box!vars)
  <2>1. g \in Readers /\ Box!Write(g)
    BY <1>2 DEF Receive, Box!Write
  <2> QED BY <2>1 DEF Box!Next
<1>3. ASSUME NEW g \in Goroutines, StoreOk(g) PROVE [Box!Next]_(Box!vars)
  <2>1. pc[g] = "storing" /\ g \in Readers /\ msg[g] \in 1..Len(by)
    BY <1>3, Storers DEF StoreOk, Goto
  <2>2. msg[g] \notin rows
    BY <2>1 DEF MessagingInv, HeldBy
  <2>3. Box!Store(msg[g])
    BY <1>3, <2>2 DEF StoreOk, Box!Store, auxVars
  <2> QED BY <2>1, <2>3 DEF Box!Next
<1>4. ASSUME NEW g \in Goroutines, StoreError(g) PROVE [Box!Next]_(Box!vars)
  <2>1. pc[g] = "storing" /\ g \in Readers /\ msg[g] \in 1..Len(by)
    BY <1>4, Storers DEF StoreError, Goto
  <2>2. msg[g] \notin lost \cup dead \cup pushed
    BY <2>1, InHandFree
  <2>3. CASE UNCHANGED <<rows, lost>>
    BY <1>1, <1>4, <2>3 DEF StoreError
  <2>4. CASE rows' = rows \cup {msg[g]} /\ lost' = lost \cup {msg[g]}
    <3>1. Box!Drop({msg[g]})
      BY <1>4, <2>2, <2>4 DEF StoreError, Box!Drop
    <3>2. {msg[g]} \in SUBSET (1..Len(by))
      BY <2>1
    <3> QED BY <3>1, <3>2 DEF Box!Next
  <2> QED BY <1>4, <2>3, <2>4 DEF StoreError
<1>5. ASSUME NEW g \in Goroutines, Broadcast(g) PROVE [Box!Next]_(Box!vars)
  <2>1. pc[g] = "stored" /\ g \in Readers /\ msg[g] \in 1..Len(by) /\ msg[g] \in rows
    BY <1>5, Storers DEF Broadcast, Goto
  <2>2. by[msg[g]] = g /\ msg[g] \notin lost \cup dead
    BY <2>1, InHandFree
  <2>3. msg[g] \notin InFeed /\ \A m \in InFeed : by[m] = g => m < msg[g]
    BY <2>1 DEF MessagingInv, HeldBy, Younger
  <2>4. Box!Show(msg[g])
    BY <1>0, <1>5, <2>1, <2>2, <2>3 DEF Broadcast, Box!Show, auxVars
  <2> QED BY <2>1, <2>4 DEF Box!Next
<1>6. ASSUME NEW g \in Goroutines, HandOver(g) PROVE [Box!Next]_(Box!vars)
  <2>1. pc[g] = "update"
    BY <1>6 DEF HandOver, Goto
  <2>2. CASE msg[g] = 0
    BY <1>1, <1>6, <2>2 DEF HandOver, auxVars
  <2>3. CASE msg[g] # 0
    <3>1. g \in Readers
      BY <1>0, <2>3 DEF TypeOK
    <3>2. msg[g] \in 1..Len(by) /\ msg[g] \notin lost \cup dead \cup pushed
      BY <2>1, <3>1, InHandFree DEF Notifying
    <3>3. msg[g] \in InFeed
      BY <2>1, <3>1 DEF MessagingInv, HeldBy, Notifying
    <3>4. Box!Alert(msg[g])
      BY <1>0, <1>6, <2>3, <3>2, <3>3 DEF HandOver, Box!Alert, auxVars
    <3> QED BY <3>2, <3>4 DEF Box!Next
  <2> QED BY <2>2, <2>3
<1>7. CASE Crash
  <2> DEFINE storing == {msg[g] : g \in {r \in Readers : pc[r] = "storing"}}
             stored  == {msg[g] : g \in {r \in Readers : pc[r] = "stored"}}
             telling == {msg[g] : g \in {r \in Readers : pc[r] \in Notifying}}
  <2>1. PICK done \in SUBSET storing :
          rows' = rows \cup done /\ lost' = lost \cup done \cup stored
    BY <1>7 DEF Crash
  <2>2. dead' = dead \cup telling /\ UNCHANGED <<by, feed, pushed>>
    BY <1>7 DEF Crash
  <2>3. \A m \in storing \cup stored \cup telling :
          m \in 1..Len(by) /\ m \notin lost \cup dead \cup pushed
    BY InHandFree
  <2>4. stored \subseteq rows /\ telling \subseteq rows
    BY <1>0 DEF MessagingInv, HeldBy, Placed, Notifying
  <2> HIDE DEF storing, stored, telling
  <2> DEFINE ms == done \cup stored \cup telling
  <2>5. ms \in SUBSET (1..Len(by)) /\ ms \cap (pushed \cup lost \cup dead) = {}
    BY <2>1, <2>3
  <2>6. rows' = rows \cup ms /\ lost' \cup dead' = (lost \cup dead) \cup ms
    BY <2>1, <2>2, <2>4
  <2>7. Box!Drop(ms)
    BY <2>2, <2>5, <2>6 DEF Box!Drop
  <2> QED BY <2>5, <2>7 DEF Box!Next
<1>8. ASSUME NEW g \in Goroutines,
             \/ OpenChat(g) \/ ListMembers(g) \/ MembersError(g) \/ Tell(g)
      PROVE  [Box!Next]_(Box!vars)
  BY <1>1, <1>8 DEF OpenChat, ListMembers, MembersError, Tell, auxVars
<1>9. ASSUME NEW g \in Goroutines, NEW u \in Members, ReadSummary(g, u) \/ SummaryError(g, u)
      PROVE  [Box!Next]_(Box!vars)
  BY <1>1, <1>9 DEF ReadSummary, SummaryError, auxVars
<1>10. CASE UNCHANGED vars
  BY <1>1, <1>10 DEF vars, auxVars
<1> QED BY <1>2, <1>3, <1>4, <1>5, <1>6, <1>7, <1>8, <1>9, <1>10, NextCases

\* The message path implements a mailbox: what readLoop does to a message is
\* to make it durable, then to show it, then to alert to it, each once, and
\* what an error or a crash stops is not taken up again.
THEOREM MailboxCorrect == Spec => ImplementsMailbox
BY BoxBegins, BoxStep, MessagingInductive, PTL DEF Spec, ImplementsMailbox, Box!Spec

-----------------------------------------------------------------------------
(* What liveness rests on: nothing is left half way, and work ends.        *)

LEMMA Least ==
  ASSUME NEW T, T \subseteq Nat, T # {}
  PROVE  \E x \in T : \A y \in T : x <= y
<1> DEFINE R == {ss \in Nat \X Nat : ss[1] < ss[2]}
<1>1. IsWellFoundedOn(R, Nat)
  BY NatLessThanWellFounded DEF OpToRel
<1>2. PICK x \in T : \A y \in T : ~(<<y, x>> \in R)
  <2> HIDE DEF R
  <2> QED BY <1>1, WFMin
<1>3. ASSUME NEW y \in T PROVE x <= y
  <2>1. x \in Nat /\ y \in Nat /\ <<y, x>> \in Nat \X Nat
    OBVIOUS
  <2>2. ~(y < x)
    BY <1>2, <2>1
  <2> QED BY <2>1, <2>2
<1> QED BY <1>3

LEMMA Greatest ==
  ASSUME NEW N \in Nat, NEW T, T \subseteq 1..N, T # {}
  PROVE  \E x \in T : \A y \in T : y <= x
<1> DEFINE U == {N - y : y \in T}
<1>1. U \subseteq Nat /\ U # {}
  OBVIOUS
<1>2. PICK k \in U : \A j \in U : k <= j
  <2> HIDE DEF U
  <2> QED BY <1>1, Least
<1>3. PICK x \in T : k = N - x
  OBVIOUS
<1>4. ASSUME NEW y \in T PROVE y <= x
  <2>1. k <= N - y
    BY <1>2
  <2> QED BY <1>3, <2>1
<1> QED BY <1>4

\* What a row has been through, m being one: it was given up, or it is
\* announced and handed to push, or its goroutine is at work on it.
DealtWith(m) == m \in pushed /\ \A u \in Members : Informed(u, m)
GivenUp(m) == m \in lost \cup dead
InHand(m) == \E g \in Readers : msg[g] = m /\ pc[g] \in {"stored"} \cup Notifying

\* No row is left half way: shown and not pushed, or pushed and not announced
\* to somebody, with nobody at work on it who could still see to it.
NoneHalfway == \A m \in rows : DealtWith(m) \/ GivenUp(m) \/ InHand(m)

\* The safety half of EventuallyServed: whenever no readLoop is at work, every
\* message in the table has been dealt with to the end or was given up.
THEOREM NoneHalfwayCorrect == Spec => []NoneHalfway
<1>1. TypeOK /\ FeedExact /\ UpdateCovers /\ PushFollows => NoneHalfway
  <2> SUFFICES ASSUME TypeOK, FeedExact, UpdateCovers, PushFollows,
                      NEW m \in rows, ~GivenUp(m), ~InHand(m)
               PROVE  DealtWith(m)
    BY DEF NoneHalfway
  <2>1. m \notin HandledIn({"stored"}) \cup HandledIn(Notifying) \cup lost \cup dead
    BY DEF GivenUp, InHand, HandledIn
  <2>2. m \in InFeed
    BY <2>1 DEF FeedExact
  <2>3. m \in pushed
    BY <2>1, <2>2 DEF PushFollows
  <2>4. ASSUME NEW u \in Members PROVE Informed(u, m)
    <3>1. ASSUME NEW g \in Readers, msg[g] = m, u \in Untold(g) PROVE FALSE
      <4>1. pc[g] \in Notifying
        BY <3>1 DEF Untold, Notifying
      <4> QED BY <2>1, <3>1, <4>1 DEF HandledIn
    <3> QED BY <2>2, <3>1 DEF UpdateCovers, Informed
  <2> QED BY <2>3, <2>4 DEF DealtWith
<1> QED BY <1>1, TypeCorrect, FeedExactCorrect, UpdateCoversCorrect, PushFollowsCorrect, PTL

\* A bound for the steps that g has yet to take until it waits for a frame.
Remaining(g) ==
  CASE pc[g] = "storing" -> 2 * Cardinality(Members) + 4
    [] pc[g] = "stored"  -> 2 * Cardinality(Members) + 3
    [] pc[g] = "members" -> 2 * Cardinality(Members) + 2
    [] pc[g] = "tell"    -> 2 * Cardinality(todo[g]) + 2
    [] pc[g] = "update"  -> 2 * Cardinality(todo[g]) + 1
    [] OTHER             -> 0

\* What g does at work brings it nearer to the end, and nobody else sets it
\* back: neither the messages of others nor their chat_updates.
WorkEnds ==
  \A g \in Goroutines :
    /\ Remaining(g) \in Nat
    /\ Step(g) /\ pc[g] # "idle" => Remaining(g)' < Remaining(g)
    /\ \A h \in Goroutines \ {g} : Step(h) => Remaining(g)' = Remaining(g)

LEMMA MemberCounts ==
  ASSUME TypeOK, NEW g \in Goroutines
  PROVE  /\ IsFiniteSet(todo[g]) /\ Cardinality(todo[g]) \in Nat
         /\ Cardinality(Members) \in Nat
         /\ Cardinality(todo[g]) <= Cardinality(Members)
         /\ \A u \in todo[g] :
              /\ Cardinality(todo[g] \ {u}) = Cardinality(todo[g]) - 1
              /\ Cardinality(todo[g] \ {u}) \in Nat
<1>1. IsFiniteSet(Members) /\ todo[g] \in SUBSET Members
  BY MessagingAssumption DEF TypeOK
<1>2. /\ IsFiniteSet(todo[g]) /\ Cardinality(todo[g]) \in Nat
      /\ Cardinality(Members) \in Nat /\ Cardinality(todo[g]) <= Cardinality(Members)
  BY <1>1, FS_Subset, FS_CardinalityType
<1>3. ASSUME NEW u \in todo[g]
      PROVE  /\ Cardinality(todo[g] \ {u}) = Cardinality(todo[g]) - 1
             /\ Cardinality(todo[g] \ {u}) \in Nat
  <2>1. IsFiniteSet(todo[g] \ {u}) /\ Cardinality(todo[g] \ {u}) = Cardinality(todo[g]) - 1
    BY <1>2, FS_RemoveElement
  <2> QED BY <2>1, FS_CardinalityType
<1> QED BY <1>2, <1>3

LEMMA RemainingNat ==
  ASSUME TypeOK, NEW g \in Goroutines
  PROVE  Remaining(g) \in Nat
BY MemberCounts DEF Remaining

LEMMA RemainingFalls ==
  ASSUME TypeOK, NEW g \in Goroutines, Step(g), pc[g] # "idle"
  PROVE  Remaining(g)' < Remaining(g)
<1>0. pc \in [Goroutines -> Stages] /\ todo \in [Goroutines -> SUBSET Members]
  BY DEF TypeOK
<1>1. CASE StoreOk(g) \/ StoreError(g) \/ Broadcast(g)
  BY <1>0, <1>1, MemberCounts DEF StoreOk, StoreError, Broadcast, Goto, Remaining
<1>2. CASE ListMembers(g)
  <2>1. pc[g] = "members" /\ pc'[g] = "update" /\ todo'[g] = Members
    BY <1>0, <1>2 DEF ListMembers, Goto
  <2> QED BY <2>1, MemberCounts DEF Remaining
<1>3. CASE MembersError(g)
  <2>1. pc[g] = "members" /\ pc'[g] = "update" /\ todo'[g] = todo[g]
    BY <1>0, <1>3 DEF MembersError, Goto
  <2> QED BY <2>1, MemberCounts DEF Remaining
<1>4. CASE Tell(g) \/ HandOver(g)
  <2>1. CASE Tell(g)
    <3>1. pc[g] = "tell" /\ pc'[g] = "update" /\ todo'[g] = todo[g]
      BY <1>0, <2>1 DEF Tell, Goto
    <3> QED BY <3>1, MemberCounts DEF Remaining
  <2>2. CASE HandOver(g)
    <3>1. pc[g] = "update" /\ pc'[g] \in {"idle", "gone"}
      BY <1>0, <2>2 DEF HandOver, Goto, AtRest
    <3> QED BY <3>1, MemberCounts DEF Remaining
  <2> QED BY <1>4, <2>1, <2>2
<1>5. ASSUME NEW u \in Members, ReadSummary(g, u) PROVE Remaining(g)' < Remaining(g)
  <2>1. pc[g] = "update" /\ pc'[g] = "tell" /\ u \in todo[g] /\ todo'[g] = todo[g] \ {u}
    BY <1>0, <1>5 DEF ReadSummary, Goto
  <2> QED BY <2>1, MemberCounts DEF Remaining
<1>6. ASSUME NEW u \in Members, SummaryError(g, u) PROVE Remaining(g)' < Remaining(g)
  <2>1. pc[g] = "update" /\ pc'[g] = "update" /\ u \in todo[g] /\ todo'[g] = todo[g] \ {u}
    BY <1>0, <1>6 DEF SummaryError
  <2>2. /\ Cardinality(todo[g] \ {u}) = Cardinality(todo[g]) - 1
        /\ Cardinality(todo[g]) \in Nat
    BY <2>1, MemberCounts
  <2>3. Remaining(g)' = 2 * Cardinality(todo[g] \ {u}) + 1
    BY <2>1 DEF Remaining
  <2> QED BY <2>1, <2>2, <2>3 DEF Remaining
<1>7. ~Receive(g) /\ ~OpenChat(g)
  BY DEF Receive, OpenChat, Goto
<1> QED BY <1>1, <1>2, <1>3, <1>4, <1>5, <1>6, <1>7 DEF Step

\* The handling of a message, or of a request, takes a bounded number of
\* steps, however many messages and requests of others come in between.
THEOREM WorkEndsCorrect == Spec => [][WorkEnds]_vars
<1>1. TypeOK /\ [Next]_vars => WorkEnds
  <2> SUFFICES ASSUME TypeOK, NEW g \in Goroutines
               PROVE  /\ Remaining(g) \in Nat
                      /\ Step(g) /\ pc[g] # "idle" => Remaining(g)' < Remaining(g)
                      /\ \A h \in Goroutines \ {g} : Step(h) => Remaining(g)' = Remaining(g)
    BY DEF WorkEnds
  <2>1. ASSUME NEW h \in Goroutines \ {g}, Step(h) PROVE Remaining(g)' = Remaining(g)
    <3>1. pc'[g] = pc[g] /\ todo'[g] = todo[g]
      BY <2>1, OthersKeep
    <3> QED BY <3>1 DEF Remaining
  <2> QED BY <2>1, RemainingNat, RemainingFalls
<1> QED BY <1>1, TypeCorrect, PTL DEF Spec
=============================================================================
