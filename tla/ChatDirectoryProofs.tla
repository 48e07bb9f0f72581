------------------------ MODULE ChatDirectoryProofs ------------------------
(***************************************************************************)
(* Proofs about ChatDirectory, for any users, any finite set of handlers   *)
(* and any bounds.                                                         *)
(***************************************************************************)
EXTENDS ChatDirectory, FiniteSetTheorems, TLAPS

\* Case analysis used by every proof of this module.
StepOf(h) ==
  \/ Request(h) \/ FindHit(h) \/ FindMiss(h) \/ FindError(h)
  \/ InsertChat(h) \/ InsertMembers(h) \/ InsertError(h)
  \/ Commit(h) \/ CommitError(h) \/ Notify(h)

LEMMA NextCases ==
  ASSUME [Next]_vars
  PROVE  (\E h \in Handlers : StepOf(h)) \/ Crash \/ UNCHANGED vars
BY DEF Next, StepOf

LEMMA PairElements ==
  ASSUME NEW p \in Pairs
  PROVE  p \subseteq Users /\ \E u, v \in Users : u # v /\ p = {u, v}
<1>1. PICK u \in Users, v \in Users : p = {u, v}
  BY DEF Pairs
<1>2. u # v
  <2>1. p # {u}
    BY DEF Pairs
  <2> QED BY <1>1, <2>1
<1> QED BY <1>1, <1>2

LEMMA PairWithinPair ==
  ASSUME NEW p \in Pairs, NEW q \in Pairs, p \subseteq q
  PROVE  p = q
<1>1. PICK u \in Users, v \in Users : u # v /\ p = {u, v}
  BY PairElements
<1>2. PICK x \in Users, y \in Users : x # y /\ q = {x, y}
  BY PairElements
<1> QED BY <1>1, <1>2

-----------------------------------------------------------------------------
(* Type correctness.                                                       *)

LEMMA TypeInit == Init => TypeOK
BY DEF Init, TypeOK, Stages

LEMMA FoundChats ==
  ASSUME TypeOK, NEW h \in Handlers, NEW c \in Found(h)
  PROVE  c \in chats /\ c \in Nat /\ c < nextId
BY DEF Found, ChatsWith, TypeOK

LEMMA TypeStep == TypeOK /\ [Next]_vars => TypeOK'
<1> SUFFICES ASSUME TypeOK, [Next]_vars PROVE TypeOK'
  OBVIOUS
<1>1. CASE UNCHANGED vars
  BY <1>1 DEF vars, TypeOK
<1>2. CASE Crash
  <2>1. nextId > 0
    <3>1. PICK h \in Handlers : pc[h] # "idle"
      BY <1>2 DEF Crash
    <3> QED BY <3>1 DEF TypeOK
  <2> QED BY <1>2, <2>1 DEF Crash, TypeOK, Stages
<1>3. ASSUME NEW h \in Handlers, StepOf(h) PROVE TypeOK'
  <2>0. nextId > 0 /\ id[h] \in Nat /\ id[h] < nextId
    BY DEF TypeOK
  <2>1. CASE Request(h)
    BY <2>1 DEF Request, Goto, TypeOK, Stages
  <2>2. CASE FindHit(h)
    <3>1. PICK c \in Found(h) : id' = [id EXCEPT ![h] = c]
      BY <2>2 DEF FindHit
    <3> QED BY <2>2, <3>1, FoundChats DEF FindHit, Goto, TypeOK, Stages
  <2>3. CASE FindMiss(h) \/ InsertMembers(h)
    BY <2>3 DEF FindMiss, InsertMembers, Goto, TypeOK, Stages
  <2>10. CASE FindError(h)
    BY <2>10 DEF FindError, Goto, TypeOK, Stages
  <2>4. CASE InsertChat(h)
    BY <2>4 DEF InsertChat, Goto, TypeOK, Stages
  <2>5. CASE InsertError(h)
    BY <2>0, <2>5 DEF InsertError, Return, Goto, TypeOK, Stages
  <2>6. ASSUME Durable(h)
        PROVE  /\ chats' \subseteq Nat /\ \A c \in chats' : c < nextId
               /\ members' \subseteq Nat \X Users
    <3>1. ask[h] \subseteq Users
      BY PairElements DEF TypeOK
    <3> QED BY <2>0, <2>6, <3>1 DEF Durable, TypeOK
  <2>7. CASE Commit(h)
    BY <2>6, <2>7 DEF Commit, Goto, TypeOK, Stages
  <2>8. CASE CommitError(h)
    BY <2>0, <2>6, <2>8 DEF CommitError, Return, Goto, TypeOK, Stages
  <2>9. CASE Notify(h)
    <3>1. told' \subseteq Users \X Nat
      BY <2>0, <2>9 DEF Notify, TypeOK
    <3> QED BY <2>0, <2>9, <3>1 DEF Notify, Return, Goto, TypeOK, Stages
  <2> QED BY <1>3, <2>1, <2>2, <2>3, <2>4, <2>5, <2>7, <2>8, <2>9, <2>10
     DEF StepOf
<1> QED BY <1>1, <1>2, <1>3, NextCases

\* Every variable keeps its type and ids come from the sequence.
THEOREM TypeCorrect == Spec => []TypeOK
BY TypeInit, TypeStep, PTL DEF Spec
-----------------------------------------------------------------------------
(* The rows of chats and chat_members.                                     *)

Inserting(h) == pc[h] \in {"fill", "commit"}

\* TwoMembers is inductive once the chat of an open transaction is known to
\* be new to the database and to every other transaction.
RowsInv ==
  /\ TwoMembers
  /\ IsFiniteSet(chats)
  /\ \A h \in Handlers : Inserting(h) => id[h] \notin chats
  /\ \A g, h \in Handlers : Inserting(g) /\ Inserting(h) /\ g # h => id[g] # id[h]

\* What a commit does to the rows.
LEMMA DurableRows ==
  ASSUME TypeOK, RowsInv, NEW h \in Handlers, pc[h] = "commit", Durable(h)
  PROVE  /\ id[h] \notin chats
         /\ chats' = chats \cup {id[h]} /\ IsFiniteSet(chats')
         /\ \A c \in chats, u \in Users : <<c, u>> \in members' <=> <<c, u>> \in members
         /\ \A u \in Users : <<id[h], u>> \in members' <=> u \in ask[h]
         /\ TwoMembers'
<1>1. id[h] \notin chats /\ chats' = chats \cup {id[h]}
  BY DEF RowsInv, Inserting, Durable
<1>2. IsFiniteSet(chats')
  BY <1>1, FS_AddElement DEF RowsInv
<1>3. members' = members \cup ({id[h]} \X ask[h]) /\ ask[h] \in Pairs
  BY DEF Durable, TypeOK
<1>4. ask[h] \subseteq Users
  BY <1>3, PairElements
<1>5. \A c \in chats, u \in Users : <<c, u>> \in members' <=> <<c, u>> \in members
  BY <1>1, <1>3
<1>6. ASSUME NEW u \in Users PROVE <<id[h], u>> \in members' <=> u \in ask[h]
  <2>1. <<id[h], u>> \notin members
    <3>1. <<id[h], u>>[1] = id[h]
      OBVIOUS
    <3> QED BY <1>1, <3>1 DEF RowsInv, TwoMembers
  <2> QED BY <1>3, <2>1
<1>7. \A m \in members' : m[1] \in chats'
  BY <1>1, <1>3 DEF RowsInv, TwoMembers
<1>8. ASSUME NEW c \in chats'
      PROVE  {u \in Users : <<c, u>> \in members'} \in Pairs
  <2>1. CASE c \in chats
    <3>1. {u \in Users : <<c, u>> \in members'} = {u \in Users : <<c, u>> \in members}
      BY <1>5, <2>1
    <3> QED BY <2>1, <3>1 DEF RowsInv, TwoMembers, MembersOf
  <2>2. CASE c = id[h]
    <3>1. {u \in Users : <<c, u>> \in members'} = ask[h]
      BY <1>4, <1>6, <2>2
    <3> QED BY <1>3, <3>1
  <2> QED BY <1>1, <2>1, <2>2
<1>9. TwoMembers'
  BY <1>7, <1>8 DEF TwoMembers, MembersOf, Pairs
<1> QED BY <1>1, <1>2, <1>5, <1>6, <1>9

LEMMA RowsUnchanged ==
  ASSUME TwoMembers, IsFiniteSet(chats), chats' = chats, members' = members
  PROVE  TwoMembers' /\ IsFiniteSet(chats')
BY DEF TwoMembers, MembersOf, Pairs

LEMMA RowsStep == TypeOK /\ RowsInv /\ [Next]_vars => RowsInv'
<1> SUFFICES ASSUME TypeOK, RowsInv, [Next]_vars PROVE RowsInv'
  OBVIOUS
<1>1. CASE UNCHANGED vars \/ Crash
  <2>1. chats' = chats /\ members' = members
    BY <1>1 DEF vars, Crash
  <2>2. \A h \in Handlers : Inserting(h)' => Inserting(h) /\ id'[h] = id[h]
    BY <1>1 DEF vars, Crash, Inserting, TypeOK
  <2> QED BY <2>1, <2>2, RowsUnchanged DEF RowsInv
<1>2. ASSUME NEW h \in Handlers, StepOf(h) PROVE RowsInv'
  <2>1. CASE InsertChat(h)
    <3>1. /\ chats' = chats /\ members' = members /\ id'[h] = nextId
          /\ \A g \in Handlers \ {h} : pc'[g] = pc[g] /\ id'[g] = id[g]
      BY <2>1 DEF InsertChat, Goto, TypeOK
    <3>2. nextId \notin chats /\ \A g \in Handlers : id[g] # nextId
      BY DEF TypeOK
    <3>3. \A g \in Handlers : Inserting(g)' => id'[g] \notin chats'
      BY <3>1, <3>2 DEF RowsInv, Inserting
    <3>4. \A g, f \in Handlers :
            Inserting(g)' /\ Inserting(f)' /\ g # f => id'[g] # id'[f]
      BY <3>1, <3>2 DEF RowsInv, Inserting
    <3> QED BY <3>1, <3>3, <3>4, RowsUnchanged DEF RowsInv
  <2>2. CASE \/ Request(h) \/ FindHit(h) \/ FindMiss(h) \/ FindError(h)
             \/ InsertMembers(h) \/ InsertError(h) \/ Notify(h)
    <3>1. chats' = chats /\ members' = members
      BY <2>2 DEF Request, FindHit, FindMiss, FindError, InsertMembers,
                  InsertError, Notify
    <3>2. \A g \in Handlers : Inserting(g)' => Inserting(g) /\ id'[g] = id[g]
      <4>1. CASE Request(h)
        BY <4>1 DEF Request, Goto, Inserting, TypeOK
      <4>2. CASE FindHit(h)
        BY <4>2 DEF FindHit, Goto, Inserting, TypeOK
      <4>3. CASE FindMiss(h)
        BY <4>3 DEF FindMiss, Goto, Inserting, TypeOK
      <4>4. CASE FindError(h)
        BY <4>4 DEF FindError, Goto, Inserting, TypeOK
      <4>5. CASE InsertMembers(h)
        BY <4>5 DEF InsertMembers, Goto, Inserting, TypeOK
      <4>6. CASE InsertError(h) \/ Notify(h)
        BY <4>6 DEF InsertError, Notify, Return, Goto, Inserting, TypeOK
      <4> QED BY <2>2, <4>1, <4>2, <4>3, <4>4, <4>5, <4>6
    <3> QED BY <3>1, <3>2, RowsUnchanged DEF RowsInv
  <2>3. CASE Commit(h) \/ CommitError(h)
    <3>1. /\ pc[h] = "commit" /\ ~Inserting(h)'
          /\ \A g \in Handlers \ {h} : pc'[g] = pc[g] /\ id'[g] = id[g]
      BY <2>3 DEF Commit, CommitError, Return, Goto, Inserting, TypeOK
    <3>2. CASE Durable(h)
      <4>1. TwoMembers' /\ IsFiniteSet(chats') /\ chats' = chats \cup {id[h]}
        BY <3>1, <3>2, DurableRows
      <4>2. \A g \in Handlers : Inserting(g)' => g # h /\ Inserting(g) /\ id'[g] = id[g]
        BY <3>1 DEF Inserting
      <4>3. \A g \in Handlers : Inserting(g)' => id'[g] \notin chats'
        BY <3>1, <4>1, <4>2 DEF RowsInv, Inserting
      <4>4. \A g, f \in Handlers :
              Inserting(g)' /\ Inserting(f)' /\ g # f => id'[g] # id'[f]
        BY <4>2 DEF RowsInv
      <4> QED BY <4>1, <4>3, <4>4 DEF RowsInv
    <3>3. CASE chats' = chats /\ members' = members
      <4>1. \A g \in Handlers : Inserting(g)' => Inserting(g) /\ id'[g] = id[g]
        BY <3>1 DEF Inserting
      <4> QED BY <3>3, <4>1, RowsUnchanged DEF RowsInv
    <3> QED BY <2>3, <3>2, <3>3 DEF Commit, CommitError
  <2> QED BY <1>2, <2>1, <2>2, <2>3 DEF StepOf
<1> QED BY <1>1, <1>2, NextCases

LEMMA RowsInit == Init => RowsInv
BY FS_EmptySet DEF Init, RowsInv, TwoMembers, Inserting

LEMMA RowsAlways == Spec => [](TypeOK /\ RowsInv)
BY TypeCorrect, RowsInit, RowsStep, PTL DEF Spec

\* Every committed chat has exactly two members, and every member a chat.
THEOREM TwoMembersCorrect == Spec => []TwoMembers
<1>1. RowsInv => TwoMembers
  BY DEF RowsInv
<1> QED BY <1>1, RowsAlways, PTL

-----------------------------------------------------------------------------
(* The bound on duplicates.                                                *)

\* Handlers that are past the look-up and may yet commit a chat of the pair.
Creating(pair) ==
  {h \in Handlers : pc[h] \in {"begin", "fill", "commit"} /\ ask[h] = pair}

\* While a handler waits to commit, its future chat counts already: a look-up
\* that finds nothing leaves room for one chat per handler.
RaceInv ==
  \A pair \in Pairs :
    Cardinality(ChatsWith(pair)) + Cardinality(Creating(pair))
      <= Cardinality(Handlers) + lost

LEMMA CreatingFinite ==
  ASSUME NEW pair \in Pairs
  PROVE  /\ IsFiniteSet(Creating(pair))
         /\ Cardinality(Creating(pair)) \in Nat
         /\ Cardinality(Creating(pair)) <= Cardinality(Handlers)
         /\ Cardinality(Handlers) \in Nat
<1>1. Creating(pair) \in SUBSET Handlers
  BY DEF Creating
<1> QED BY <1>1, DirectoryAssumption, FS_Subset, FS_CardinalityType

LEMMA ChatsWithFinite ==
  ASSUME RowsInv, NEW pair \in Pairs
  PROVE  IsFiniteSet(ChatsWith(pair)) /\ Cardinality(ChatsWith(pair)) \in Nat
<1>1. ChatsWith(pair) \in SUBSET chats
  BY DEF ChatsWith
<1> QED BY <1>1, FS_Subset, FS_CardinalityType DEF RowsInv

\* A set that only loses handlers does not grow.
LEMMA FewerCreating ==
  ASSUME NEW pair \in Pairs, Creating(pair)' \subseteq Creating(pair)
  PROVE  /\ Cardinality(Creating(pair)') \in Nat
         /\ Cardinality(Creating(pair)') <= Cardinality(Creating(pair))
<1>1. IsFiniteSet(Creating(pair))
  BY CreatingFinite
<1> QED BY <1>1, FS_Subset, FS_CardinalityType

\* A set that gains at most one handler grows by at most one.
LEMMA OneMoreCreating ==
  ASSUME NEW pair \in Pairs, NEW h, Creating(pair)' \subseteq Creating(pair) \cup {h}
  PROVE  /\ Cardinality(Creating(pair)') \in Nat
         /\ Cardinality(Creating(pair)') <= Cardinality(Creating(pair)) + 1
<1>1. IsFiniteSet(Creating(pair)) /\ Cardinality(Creating(pair)) \in Nat
  BY CreatingFinite
<1>2. /\ IsFiniteSet(Creating(pair) \cup {h})
      /\ Cardinality(Creating(pair) \cup {h}) <= Cardinality(Creating(pair)) + 1
  <2>1. /\ IsFiniteSet(Creating(pair) \cup {h})
        /\ \/ Cardinality(Creating(pair) \cup {h}) = Cardinality(Creating(pair))
           \/ Cardinality(Creating(pair) \cup {h}) = Cardinality(Creating(pair)) + 1
    BY <1>1, FS_AddElement
  <2> QED BY <1>1, <2>1
<1>3. /\ Cardinality(Creating(pair)') \in Nat
      /\ Cardinality(Creating(pair)') <= Cardinality(Creating(pair) \cup {h})
  BY <1>2, FS_Subset, FS_CardinalityType
<1>4. Cardinality(Creating(pair) \cup {h}) \in Nat
  BY <1>2, FS_CardinalityType
<1> QED BY <1>1, <1>2, <1>3, <1>4

\* A step that commits nothing and sends no handler past a look-up.
LEMMA RaceNoCommit ==
  ASSUME TypeOK, RowsInv, NEW pair \in Pairs, RaceInv,
         chats' = chats, members' = members, lost' = lost,
         Creating(pair)' \subseteq Creating(pair)
  PROVE  Cardinality(ChatsWith(pair)') + Cardinality(Creating(pair)')
           <= Cardinality(Handlers) + lost'
<1>1. ChatsWith(pair)' = ChatsWith(pair)
  BY DEF ChatsWith
<1>2. Cardinality(ChatsWith(pair)) \in Nat
  BY ChatsWithFinite
<1>3. /\ Cardinality(Creating(pair)) \in Nat /\ Cardinality(Handlers) \in Nat
      /\ Cardinality(Creating(pair)') \in Nat
      /\ Cardinality(Creating(pair)') <= Cardinality(Creating(pair))
  BY CreatingFinite, FewerCreating
<1>4. Cardinality(ChatsWith(pair)) + Cardinality(Creating(pair))
        <= Cardinality(Handlers) + lost
  BY DEF RaceInv
<1> QED BY <1>1, <1>2, <1>3, <1>4 DEF TypeOK

\* A look-up that finds nothing: then no chat exists, and the handler fits
\* in with the others.
LEMMA RaceMiss ==
  ASSUME TypeOK, RowsInv, RaceInv, NEW pair \in Pairs,
         NEW h \in Handlers, FindMiss(h)
  PROVE  Cardinality(ChatsWith(pair)') + Cardinality(Creating(pair)')
           <= Cardinality(Handlers) + lost'
<1>1. /\ chats' = chats /\ members' = members /\ lost' = lost /\ ask' = ask
      /\ pc' = [pc EXCEPT ![h] = "begin"] /\ Found(h) = {}
  BY DEF FindMiss, Goto
<1>2. CASE ask[h] = pair
  <2>1. ChatsWith(pair)' = {}
    BY <1>1, <1>2 DEF Found, ChatsWith
  <2>2. Creating(pair)' \in SUBSET Handlers
    BY DEF Creating
  <2>3. /\ Cardinality(Creating(pair)') \in Nat /\ Cardinality(Handlers) \in Nat
        /\ Cardinality(Creating(pair)') <= Cardinality(Handlers)
    BY <2>2, DirectoryAssumption, FS_Subset, FS_CardinalityType
  <2>4. Cardinality(ChatsWith(pair)') = 0
    BY <2>1, FS_EmptySet
  <2> QED BY <1>1, <2>3, <2>4 DEF TypeOK
<1>3. CASE ask[h] # pair
  <2>1. Creating(pair)' \subseteq Creating(pair)
    BY <1>1, <1>3 DEF Creating, TypeOK
  <2> QED BY <1>1, <2>1, RaceNoCommit
<1> QED BY <1>2, <1>3

LEMMA RaceError ==
  ASSUME TypeOK, RowsInv, RaceInv, NEW pair \in Pairs,
         NEW h \in Handlers, FindError(h)
  PROVE  Cardinality(ChatsWith(pair)') + Cardinality(Creating(pair)')
           <= Cardinality(Handlers) + lost'
<1>1. /\ chats' = chats /\ members' = members /\ lost' = lost + 1 /\ ask' = ask
      /\ pc' = [pc EXCEPT ![h] = "begin"] /\ lost \in Nat
  BY DEF FindError, Goto, TypeOK
<1>2. ChatsWith(pair)' = ChatsWith(pair)
  BY <1>1 DEF ChatsWith
<1>3. Creating(pair)' \subseteq Creating(pair) \cup {h}
  BY <1>1 DEF Creating, TypeOK
<1>4. /\ Cardinality(Creating(pair)') \in Nat
      /\ Cardinality(Creating(pair)') <= Cardinality(Creating(pair)) + 1
      /\ Cardinality(Creating(pair)) \in Nat /\ Cardinality(Handlers) \in Nat
      /\ Cardinality(ChatsWith(pair)) \in Nat
  BY <1>3, OneMoreCreating, CreatingFinite, ChatsWithFinite
<1>5. Cardinality(ChatsWith(pair)) + Cardinality(Creating(pair))
        <= Cardinality(Handlers) + lost
  BY DEF RaceInv
<1> QED BY <1>1, <1>2, <1>4, <1>5

\* A commit turns a handler that counted into a chat that counts.
LEMMA RaceCommit ==
  ASSUME TypeOK, RowsInv, RaceInv, NEW pair \in Pairs, NEW h \in Handlers,
         pc[h] = "commit", Durable(h), lost' = lost, ask' = ask,
         pc'[h] \in {"notify", "idle"},
         \A g \in Handlers \ {h} : pc'[g] = pc[g]
  PROVE  Cardinality(ChatsWith(pair)') + Cardinality(Creating(pair)')
           <= Cardinality(Handlers) + lost'
<1>1. /\ id[h] \notin chats /\ chats' = chats \cup {id[h]}
      /\ \A c \in chats, u \in Users : <<c, u>> \in members' <=> <<c, u>> \in members
      /\ \A u \in Users : <<id[h], u>> \in members' <=> u \in ask[h]
  BY DurableRows
<1>2. pair \subseteq Users
  BY PairElements
<1>3. /\ Cardinality(Creating(pair)) \in Nat /\ Cardinality(Handlers) \in Nat
      /\ Cardinality(ChatsWith(pair)) \in Nat /\ lost \in Nat
      /\ IsFiniteSet(Creating(pair)) /\ IsFiniteSet(ChatsWith(pair))
  BY CreatingFinite, ChatsWithFinite DEF TypeOK
<1>4. Cardinality(ChatsWith(pair)) + Cardinality(Creating(pair))
        <= Cardinality(Handlers) + lost
  BY DEF RaceInv
<1>5. CASE ask[h] = pair
  <2>1. ChatsWith(pair)' = ChatsWith(pair) \cup {id[h]} /\ id[h] \notin ChatsWith(pair)
    BY <1>1, <1>2, <1>5 DEF ChatsWith
  <2>2. Creating(pair)' = Creating(pair) \ {h} /\ h \in Creating(pair)
    BY <1>5 DEF Creating
  <2>3. Cardinality(ChatsWith(pair)') = Cardinality(ChatsWith(pair)) + 1
    BY <1>3, <2>1, FS_AddElement
  <2>4. Cardinality(Creating(pair)') = Cardinality(Creating(pair)) - 1
    BY <1>3, <2>2, FS_RemoveElement
  <2> QED BY <1>3, <1>4, <2>3, <2>4
<1>6. CASE ask[h] # pair
  <2>1. ~(pair \subseteq ask[h])
    BY <1>6, PairWithinPair DEF TypeOK
  <2>2. ChatsWith(pair)' = ChatsWith(pair)
    BY <1>1, <1>2, <2>1 DEF ChatsWith
  <2>3. Creating(pair)' = Creating(pair)
    BY <1>6 DEF Creating
  <2> QED BY <1>4, <2>2, <2>3
<1> QED BY <1>5, <1>6

LEMMA RaceStep == TypeOK /\ RowsInv /\ RaceInv /\ [Next]_vars => RaceInv'
<1> SUFFICES ASSUME TypeOK, RowsInv, RaceInv, [Next]_vars, NEW pair \in Pairs
             PROVE  Cardinality(ChatsWith(pair)') + Cardinality(Creating(pair)')
                      <= Cardinality(Handlers) + lost'
  BY DEF RaceInv, Pairs
<1>1. CASE UNCHANGED vars \/ Crash
  <2>1. /\ chats' = chats /\ members' = members /\ lost' = lost
        /\ Creating(pair)' \subseteq Creating(pair)
    BY <1>1 DEF vars, Crash, Creating
  <2> QED BY <2>1, RaceNoCommit
<1>2. ASSUME NEW h \in Handlers, StepOf(h)
      PROVE  Cardinality(ChatsWith(pair)') + Cardinality(Creating(pair)')
               <= Cardinality(Handlers) + lost'
  <2>1. CASE Request(h)
    BY <2>1, RaceNoCommit DEF Request, Goto, Creating, TypeOK
  <2>2. CASE FindHit(h) \/ InsertMembers(h)
    BY <2>2, RaceNoCommit DEF FindHit, InsertMembers, Goto, Creating, TypeOK
  <2>3. CASE InsertChat(h)
    BY <2>3, RaceNoCommit DEF InsertChat, Goto, Creating, TypeOK
  <2>4. CASE InsertError(h) \/ Notify(h)
    BY <2>4, RaceNoCommit DEF InsertError, Notify, Return, Goto, Creating, TypeOK
  <2>5. CASE Commit(h) \/ CommitError(h)
    <3>1. /\ pc[h] = "commit" /\ pc'[h] \in {"notify", "idle"}
          /\ lost' = lost /\ ask' = ask
          /\ \A g \in Handlers \ {h} : pc'[g] = pc[g]
      BY <2>5 DEF Commit, CommitError, Return, Goto, TypeOK
    <3>2. CASE Durable(h)
      BY <3>1, <3>2, RaceCommit
    <3>3. CASE chats' = chats /\ members' = members
      BY <3>1, <3>3, RaceNoCommit DEF Creating
    <3> QED BY <2>5, <3>2, <3>3 DEF Commit, CommitError
  <2> QED
    BY <1>2, <2>1, <2>2, <2>3, <2>4, <2>5, RaceMiss, RaceError DEF StepOf
<1> QED BY <1>1, <1>2, NextCases

LEMMA RaceInit == Init => RaceInv
<1> SUFFICES ASSUME Init, NEW pair \in Pairs
             PROVE  Cardinality(ChatsWith(pair)) + Cardinality(Creating(pair))
                      <= Cardinality(Handlers) + lost
  BY DEF RaceInv
<1>1. ChatsWith(pair) = {} /\ Creating(pair) = {} /\ lost = 0
  BY DEF Init, ChatsWith, Creating
<1>2. Cardinality(Handlers) \in Nat /\ Cardinality({}) = 0
  BY CreatingFinite, FS_EmptySet
<1> QED BY <1>1, <1>2

\* Two users never have more chats than there are handlers and failed
\* look-ups, whatever the number of requests.
THEOREM DuplicatesBoundedCorrect == Spec => []DuplicatesBounded
<1>1. TypeOK /\ RowsInv /\ RaceInv => DuplicatesBounded
  <2> SUFFICES ASSUME TypeOK, RowsInv, RaceInv, NEW pair \in Pairs
               PROVE  Cardinality(ChatsWith(pair)) <= Cardinality(Handlers) + lost
    BY DEF DuplicatesBounded
  <2>1. /\ Cardinality(ChatsWith(pair)) \in Nat /\ Cardinality(Handlers) \in Nat
        /\ Cardinality(Creating(pair)) \in Nat
    BY ChatsWithFinite, CreatingFinite
  <2> QED BY <2>1 DEF RaceInv, TypeOK
<1> QED BY <1>1, RowsAlways, RaceInit, RaceStep, PTL DEF Spec
-----------------------------------------------------------------------------
(* Answers.                                                                *)

\* What a handler is about to answer with status 201 is durable and is a
\* chat of the two users of its request, and nobody has been told of a chat
\* that does not exist or that is not theirs.
AnsweredChat ==
  /\ \A h \in Handlers : pc[h] = "notify" => id[h] \in Found(h)
  /\ \A t \in told : <<t[2], t[1]>> \in members

\* Rows are only added, so what held of a chat of somebody's goes on holding.
LEMMA FoundStays ==
  ASSUME TypeOK, NEW g \in Handlers, id[g] \in Found(g), ask'[g] = ask[g],
         id'[g] = id[g], chats \subseteq chats', members \subseteq members'
  PROVE  id'[g] \in Found(g)'
BY DEF Found, ChatsWith

LEMMA AnswerStep == TypeOK /\ RowsInv /\ AnsweredChat /\ [Next]_vars => AnsweredChat'
<1> SUFFICES ASSUME TypeOK, RowsInv, AnsweredChat, [Next]_vars
             PROVE  AnsweredChat'
  OBVIOUS
<1>1. chats \subseteq chats' /\ members \subseteq members'
  BY NextCases DEF StepOf, Request, FindHit, FindMiss, FindError, InsertChat,
     InsertMembers, InsertError, Commit, CommitError, Notify, Crash, Durable, vars
<1>2. ASSUME told' = told,
             \A g \in Handlers :
               pc'[g] = "notify" =>
                 pc[g] = "notify" /\ ask'[g] = ask[g] /\ id'[g] = id[g]
      PROVE  AnsweredChat'
  BY <1>1, <1>2, FoundStays DEF AnsweredChat
<1>3. CASE UNCHANGED vars \/ Crash
  BY <1>2, <1>3 DEF vars, Crash
<1>4. ASSUME NEW h \in Handlers, StepOf(h) PROVE AnsweredChat'
  <2>1. CASE Request(h)
    BY <1>2, <2>1 DEF Request, Goto, TypeOK
  <2>2. CASE FindMiss(h) \/ FindError(h) \/ InsertMembers(h)
    BY <1>2, <2>2 DEF FindMiss, FindError, InsertMembers, Goto, TypeOK
  <2>3. CASE InsertChat(h)
    BY <1>2, <2>3 DEF InsertChat, Goto, TypeOK
  <2>4. CASE InsertError(h) \/ CommitError(h)
    BY <1>2, <2>4 DEF InsertError, CommitError, Return, Goto, TypeOK
  <2>5. ASSUME FindHit(h) \/ Commit(h), id'[h] \in Found(h)' PROVE AnsweredChat'
    <3>1. \A g \in Handlers \ {h} :
            pc'[g] = pc[g] /\ ask'[g] = ask[g] /\ id'[g] = id[g]
      BY <2>5 DEF FindHit, Commit, Goto, TypeOK
    <3>2. told' = told
      BY <2>5 DEF FindHit, Commit
    <3> QED BY <1>1, <2>5, <3>1, <3>2, FoundStays DEF AnsweredChat
  <2>6. CASE FindHit(h)
    <3>1. id'[h] \in Found(h)'
      BY <2>6 DEF FindHit, Found, ChatsWith, TypeOK
    <3> QED BY <2>5, <2>6, <3>1
  <2>7. CASE Commit(h)
    <3>1. id'[h] \in Found(h)'
      BY <2>7 DEF Commit, Durable, Found, ChatsWith
    <3> QED BY <2>5, <2>7, <3>1
  <2>8. CASE Notify(h)
    <3>1. \A t \in told' : <<t[2], t[1]>> \in members'
      BY <1>1, <2>8 DEF Notify, AnsweredChat
    <3>2. \A g \in Handlers :
            pc'[g] = "notify" =>
              pc[g] = "notify" /\ ask'[g] = ask[g] /\ id'[g] = id[g]
      BY <2>8 DEF Notify, Return, Goto, TypeOK
    <3> QED BY <1>1, <3>1, <3>2, FoundStays DEF AnsweredChat
  <2> QED
    BY <1>4, <2>1, <2>2, <2>3, <2>4, <2>6, <2>7, <2>8 DEF StepOf
<1> QED BY <1>3, <1>4, NextCases

LEMMA AnswerInit == Init => AnsweredChat
BY DEF Init, AnsweredChat

\* A chat answered with status 201, or announced to a user, is durable and
\* is theirs.
THEOREM AnsweredChatCorrect == Spec => []AnsweredChat
BY RowsAlways, AnswerInit, AnswerStep, PTL DEF Spec

-----------------------------------------------------------------------------
(* The book of chats.                                                      *)

\* Ids stay below the bound of the model.
IdsInv ==
  /\ nextId \in 1..(MaxChats + 1)
  /\ chats \subseteq 1..MaxChats
  /\ \A h \in Handlers : Inserting(h) => id[h] \in 1..MaxChats

LEMMA IdsInit == Init => IdsInv
BY DirectoryAssumption DEF Init, IdsInv, Inserting

LEMMA IdsStep == TypeOK /\ IdsInv /\ [Next]_vars => IdsInv'
<1> SUFFICES ASSUME TypeOK, IdsInv, [Next]_vars PROVE IdsInv'
  OBVIOUS
<1> USE DirectoryAssumption
<1>1. CASE UNCHANGED vars \/ Crash
  BY <1>1 DEF vars, Crash, IdsInv, Inserting
<1>2. ASSUME NEW h \in Handlers, StepOf(h) PROVE IdsInv'
  <2>1. CASE Request(h) \/ FindHit(h) \/ FindMiss(h) \/ FindError(h)
    BY <2>1 DEF Request, FindHit, FindMiss, FindError, Goto, IdsInv, Inserting, TypeOK
  <2>2. CASE InsertChat(h)
    BY <2>2 DEF InsertChat, Goto, IdsInv, Inserting, TypeOK
  <2>3. CASE InsertMembers(h)
    BY <2>3 DEF InsertMembers, Goto, IdsInv, Inserting, TypeOK
  <2>4. CASE InsertError(h) \/ Notify(h)
    BY <2>4 DEF InsertError, Notify, Return, Goto, IdsInv, Inserting, TypeOK
  <2>5. CASE Commit(h) \/ CommitError(h)
    <3>1. pc[h] = "commit" /\ id[h] \in 1..MaxChats /\ nextId' = nextId
      BY <2>5 DEF Commit, CommitError, Return, Goto, IdsInv, Inserting
    <3>2. chats' \subseteq 1..MaxChats
      BY <2>5, <3>1 DEF Commit, CommitError, Durable, IdsInv
    <3>3. \A g \in Handlers : Inserting(g)' => Inserting(g) /\ id'[g] = id[g]
      BY <2>5 DEF Commit, CommitError, Return, Goto, Inserting, TypeOK
    <3> QED BY <3>1, <3>2, <3>3 DEF IdsInv
  <2> QED BY <1>2, <2>1, <2>2, <2>3, <2>4, <2>5 DEF StepOf
<1> QED BY <1>1, <1>2, NextCases

BookInv == TypeOK /\ RowsInv /\ AnsweredChat /\ IdsInv

\* A chat that has the two users of a pair as members has no others.
LEMMA ListedPair ==
  ASSUME TypeOK, RowsInv, NEW p \in Pairs, NEW c \in chats
  PROVE  c \in ChatsWith(p) <=> Listed[c] = p
<1>1. MembersOf(c) \in Pairs
  BY DEF RowsInv, TwoMembers
<1>2. p \subseteq Users
  BY PairElements
<1>3. c \in ChatsWith(p) <=> p \subseteq MembersOf(c)
  BY <1>2 DEF ChatsWith, MembersOf
<1>4. p \subseteq MembersOf(c) <=> MembersOf(c) = p
  BY <1>1, PairWithinPair
<1> QED BY <1>3, <1>4 DEF Listed

\* What one handler does shows as a move of its own.
LEMMA PhaseMoves ==
  ASSUME TypeOK, NEW h \in Handlers, NEW from, NEW to, Goto(h, from, to)
  PROVE  /\ \A g \in Handlers \ {h} : Phase'[g] = Phase[g]
         /\ from = "idle" => Phase[h] = "idle"
         /\ from = "find" => Phase[h] = "asking"
         /\ from = "notify" => Phase[h] = "answered"
         /\ from \in {"begin", "fill", "commit"} => Phase[h] = "missed"
         /\ to = "idle" => Phase' = [Phase EXCEPT ![h] = "idle"]
         /\ to = "find" => Phase' = [Phase EXCEPT ![h] = "asking"]
         /\ to = "notify" => Phase' = [Phase EXCEPT ![h] = "answered"]
         /\ to \in {"begin", "fill", "commit"} => Phase' = [Phase EXCEPT ![h] = "missed"]
<1>1. pc[h] = from /\ pc'[h] = to /\ \A g \in Handlers \ {h} : pc'[g] = pc[g]
  BY DEF Goto, TypeOK
<1> QED BY <1>1 DEF Phase

\* Only the local variable of a handler that answers shows.
LEMMA ReplySame ==
  ASSUME TypeOK, NEW h \in Handlers, pc[h] # "notify", pc'[h] # "notify",
         \A g \in Handlers \ {h} : pc'[g] = pc[g] /\ id'[g] = id[g]
  PROVE  Reply' = Reply
BY DEF Reply

LEMMA ListedSame ==
  ASSUME chats' = chats, members' = members
  PROVE  Listed' = Listed
BY DEF Listed, MembersOf

\* A commit enters the chat, whole, and leaves the others as they are.
LEMMA ListedGrows ==
  ASSUME TypeOK, RowsInv, IdsInv, NEW h \in Handlers, pc[h] = "commit", Durable(h)
  PROVE  Book!Entered(h, id[h]) /\ id[h] \in 1..MaxChats
<1>1. /\ id[h] \notin chats /\ chats' = chats \cup {id[h]}
      /\ \A c \in chats, u \in Users : <<c, u>> \in members' <=> <<c, u>> \in members
      /\ \A u \in Users : <<id[h], u>> \in members' <=> u \in ask[h]
  BY DurableRows
<1>2. ask[h] \subseteq Users
  BY PairElements DEF TypeOK
<1> DEFINE Those(c) == {u \in Users : <<c, u>> \in members'}
<1>3. \A c \in chats : Those(c) = MembersOf(c)
  BY <1>1 DEF MembersOf
<1>4. Those(id[h]) = ask[h]
  BY <1>1, <1>2
<1>5. Listed' = [c \in chats' |-> Those(c)]
  BY DEF Listed, MembersOf
<1>6. DOMAIN Listed = chats /\ \A c \in chats : Listed[c] = MembersOf(c)
  BY DEF Listed
<1> HIDE DEF Those
<1>7. Listed' = [d \in DOMAIN Listed \cup {id[h]} |->
                   IF d = id[h] THEN ask[h] ELSE Listed[d]]
  BY <1>1, <1>3, <1>4, <1>5, <1>6
<1>8. id[h] \in 1..MaxChats
  BY DEF IdsInv, Inserting
<1> QED BY <1>1, <1>6, <1>7, <1>8 DEF Book!Entered

LEMMA BookBegins == Init => Book!Init
<1> SUFFICES ASSUME Init PROVE Book!Init
  OBVIOUS
<1>1. Phase = [h \in Handlers |-> "idle"] /\ Reply = [h \in Handlers |-> 0]
  BY DEF Init, Phase, Reply
<1>2. Listed = [c \in {} |-> {}]
  BY DEF Init, Listed
<1> QED BY <1>1, <1>2 DEF Init, Book!Init

\* Steps in which a handler ends without an answer: it gives up.
LEMMA BookGivesUp ==
  ASSUME TypeOK, NEW h \in Handlers, Return(h, pc[h]), pc[h] # "notify",
         chats' = chats, members' = members, ask' = ask, told' = told, lost' = lost
  PROVE  Book!Next
<1>1. pc'[h] = "idle" /\ \A g \in Handlers \ {h} : pc'[g] = pc[g] /\ id'[g] = id[g]
  BY DEF Return, Goto, TypeOK
<1>2. Phase' = [g \in Handlers |-> IF g \in {h} THEN "idle" ELSE Phase[g]]
  BY <1>1 DEF Phase
<1>3. Reply' = [g \in Handlers |-> IF g \in {h} THEN 0 ELSE Reply[g]]
  BY <1>1 DEF Reply
<1>4. Listed' = Listed
  BY ListedSame
<1>5. Book!GiveUp({h})
  BY <1>2, <1>3, <1>4 DEF Book!GiveUp
<1> QED BY <1>5 DEF Book!Next

LEMMA BookHandler ==
  ASSUME BookInv, BookInv', NEW h \in Handlers, StepOf(h)
  PROVE  [Book!Next]_(Book!vars)
<1>0. TypeOK /\ RowsInv /\ AnsweredChat /\ IdsInv /\ AnsweredChat'
  BY DEF BookInv
<1> DEFINE to(x) == [Phase EXCEPT ![h] = x]
<1>1. CASE Request(h)
  <2>1. Goto(h, "idle", "find") /\ id' = id /\ chats' = chats /\ members' = members
    BY <1>1 DEF Request
  <2>2. Phase[h] = "idle" /\ Phase' = to("asking")
    BY <1>0, <2>1, PhaseMoves
  <2>3. Reply' = Reply /\ Listed' = Listed
    BY <1>0, <2>1, ReplySame, ListedSame DEF Goto, TypeOK
  <2>4. Book!Ask(h)
    BY <1>1, <2>2, <2>3 DEF Request, Book!Ask, Book!From
  <2> QED BY <2>4 DEF Book!Next
<1>2. CASE FindMiss(h) \/ FindError(h)
  <2>1. Goto(h, "find", "begin") /\ id' = id /\ chats' = chats /\ members' = members
    BY <1>2 DEF FindMiss, FindError
  <2>2. Phase[h] = "asking" /\ Phase' = to("missed")
    BY <1>0, <2>1, PhaseMoves
  <2>3. Reply' = Reply /\ Listed' = Listed
    BY <1>0, <2>1, ReplySame, ListedSame DEF Goto, TypeOK
  <2>4. CASE FindMiss(h)
    <3>1. ask[h] \in Pairs /\ ChatsWith(ask[h]) = {}
      BY <1>0, <2>4 DEF FindMiss, Found, TypeOK
    <3>2. \A c \in chats : Listed[c] # ask[h]
      BY <1>0, <3>1, ListedPair
    <3>3. \A c \in DOMAIN Listed : Listed[c] # ask[h]
      BY <3>2 DEF Listed
    <3>4. Book!Miss(h)
      BY <2>2, <2>3, <2>4, <3>3 DEF FindMiss, Book!Miss, Book!From
    <3> QED BY <3>4 DEF Book!Next
  <2>5. CASE FindError(h)
    <3>1. Book!LookInVain(h)
      BY <2>2, <2>3, <2>5 DEF FindError, Book!LookInVain, Book!From
    <3> QED BY <3>1 DEF Book!Next
  <2> QED BY <1>2, <2>4, <2>5
<1>3. CASE FindHit(h)
  <2>1. Goto(h, "find", "notify") /\ chats' = chats /\ members' = members
    BY <1>3 DEF FindHit
  <2>2. Phase[h] = "asking" /\ Phase' = to("answered")
    BY <1>0, <2>1, PhaseMoves
  <2>3. PICK c \in Found(h) : id' = [id EXCEPT ![h] = c]
    BY <1>3 DEF FindHit
  <2>4. c \in chats /\ c \in 1..MaxChats /\ ask[h] \in Pairs /\ c \in ChatsWith(ask[h])
    BY <1>0, <2>3 DEF Found, ChatsWith, IdsInv, TypeOK
  <2>5. c \in DOMAIN Listed /\ Listed[c] = ask[h]
    <3>1. Listed[c] = ask[h]
      BY <1>0, <2>4, ListedPair
    <3> QED BY <2>4, <3>1 DEF Listed
  <2>6. Reply' = [Reply EXCEPT ![h] = c]
    BY <1>0, <2>1, <2>3 DEF Reply, Goto, TypeOK
  <2>7. Listed' = Listed
    BY <2>1, ListedSame
  <2>8. Book!Find(h, c)
    BY <1>3, <2>2, <2>5, <2>6, <2>7 DEF FindHit, Book!Find, Book!From
  <2> QED BY <2>4, <2>8 DEF Book!Next
<1>4. CASE InsertChat(h) \/ InsertMembers(h)
  <2>1. /\ Goto(h, "begin", "fill") \/ Goto(h, "fill", "commit")
        /\ chats' = chats /\ members' = members
        /\ ask' = ask /\ told' = told /\ lost' = lost
    BY <1>4 DEF InsertChat, InsertMembers
  <2>2. Phase[h] = "missed" /\ Phase' = to("missed")
    BY <1>0, <2>1, PhaseMoves
  <2>3. Phase' = Phase
    BY <2>2 DEF Phase
  <2>4. \A g \in Handlers \ {h} : pc'[g] = pc[g] /\ id'[g] = id[g]
    BY <1>0, <1>4 DEF InsertChat, InsertMembers, Goto, TypeOK
  <2>5. pc[h] # "notify" /\ pc'[h] # "notify"
    BY <1>0, <2>1 DEF Goto, TypeOK
  <2>6. Reply' = Reply /\ Listed' = Listed
    BY <1>0, <2>1, <2>4, <2>5, ReplySame, ListedSame
  <2> QED BY <2>1, <2>3, <2>6 DEF Book!vars
<1>5. CASE InsertError(h)
  <2>1. /\ Return(h, pc[h]) /\ pc[h] # "notify"
        /\ chats' = chats /\ members' = members
        /\ ask' = ask /\ told' = told /\ lost' = lost
    BY <1>5 DEF InsertError, Return, Goto
  <2> QED BY <1>0, <2>1, BookGivesUp
<1>6. CASE Commit(h)
  <2>1. Goto(h, "commit", "notify") /\ Durable(h) /\ id' = id
    BY <1>6 DEF Commit
  <2>2. Phase[h] = "missed" /\ Phase' = to("answered")
    BY <1>0, <2>1, PhaseMoves
  <2>3. Book!Entered(h, id[h]) /\ id[h] \in 1..MaxChats
    BY <1>0, <2>1, ListedGrows DEF Goto
  <2>4. Reply' = [Reply EXCEPT ![h] = id[h]]
    BY <1>0, <2>1 DEF Reply, Goto, TypeOK
  <2>5. Book!Enter(h, id[h])
    BY <1>6, <2>2, <2>3, <2>4 DEF Commit, Book!Enter, Book!From
  <2> QED BY <2>3, <2>5 DEF Book!Next
<1>7. CASE CommitError(h)
  <2>1. /\ Goto(h, "commit", "idle") /\ Return(h, "commit") /\ pc[h] = "commit"
        /\ ask' = ask /\ told' = told /\ lost' = lost
    BY <1>7 DEF CommitError, Return, Goto
  <2>2. CASE Durable(h)
    <3>1. Phase[h] = "missed" /\ Phase' = to("idle")
      BY <1>0, <2>1, PhaseMoves
    <3>2. Book!Entered(h, id[h]) /\ id[h] \in 1..MaxChats
      BY <1>0, <2>1, <2>2, ListedGrows
    <3>3. Reply' = Reply
      BY <1>0, <2>1, ReplySame DEF Return, Goto, TypeOK
    <3>4. Book!EnterUnheard(h, id[h])
      BY <2>1, <3>1, <3>2, <3>3 DEF Book!EnterUnheard, Book!From
    <3> QED BY <3>2, <3>4 DEF Book!Next
  <2>3. CASE chats' = chats /\ members' = members
    BY <1>0, <2>1, <2>3, BookGivesUp
  <2> QED BY <1>7, <2>2, <2>3 DEF CommitError
<1>8. CASE Notify(h)
  <2>1. /\ Goto(h, "notify", "idle") /\ chats' = chats /\ members' = members
        /\ ask' = ask /\ lost' = lost
    BY <1>8 DEF Notify, Return
  <2>2. Phase[h] = "answered" /\ Phase' = to("idle")
    BY <1>0, <2>1, PhaseMoves
  <2>3. Reply[h] = id[h] /\ Reply' = [Reply EXCEPT ![h] = 0] /\ Listed' = Listed
    BY <1>0, <1>8, <2>1, ListedSame DEF Reply, Notify, Return, Goto, TypeOK
  <2>4. id[h] \in chats /\ id[h] \in ChatsWith(ask[h]) /\ ask[h] \in Pairs
    BY <1>0, <2>1 DEF AnsweredChat, Found, ChatsWith, Goto, TypeOK
  <2>5. MembersOf(id[h]) = ask[h]
    BY <1>0, <2>4, ListedPair DEF Listed
  <2>6. PICK us \in SUBSET {u \in Users : <<id[h], u>> \in members} :
          told' = told \cup (us \X {id[h]})
    BY <1>8 DEF Notify
  <2>7. us \in SUBSET ask[h]
    BY <2>5, <2>6 DEF MembersOf
  <2>8. Book!Tell(h, us)
    BY <2>1, <2>2, <2>3, <2>6 DEF Book!Tell, Book!From
  <2> QED BY <2>7, <2>8 DEF Book!Next
<1> QED BY <1>1, <1>2, <1>3, <1>4, <1>5, <1>6, <1>7, <1>8 DEF StepOf

LEMMA BookStep == BookInv /\ BookInv' /\ [Next]_vars => [Book!Next]_(Book!vars)
<1> SUFFICES ASSUME BookInv, BookInv', [Next]_vars PROVE [Book!Next]_(Book!vars)
  OBVIOUS
<1>1. CASE UNCHANGED vars
  BY <1>1 DEF vars, Book!vars, Phase, Reply, Listed, MembersOf
<1>2. CASE Crash
  <2>1. Phase' = [h \in Handlers |-> IF h \in Handlers THEN "idle" ELSE Phase[h]]
    BY <1>2 DEF Crash, Phase
  <2>2. Reply' = [h \in Handlers |-> IF h \in Handlers THEN 0 ELSE Reply[h]]
    BY <1>2 DEF Crash, Reply
  <2>3. Listed' = Listed
    BY <1>2, ListedSame DEF Crash
  <2>4. Book!GiveUp(Handlers)
    BY <1>2, <2>1, <2>2, <2>3 DEF Crash, Book!GiveUp
  <2> QED BY <2>4 DEF Book!Next
<1>3. CASE \E h \in Handlers : StepOf(h)
  BY <1>3, BookHandler
<1> QED BY <1>1, <1>2, <1>3, NextCases

\* To its callers FindOrCreateChat, with its statements, transactions and
\* crashes, is a book of chats.
THEOREM BookCorrect == Spec => ImplementsBook
<1>1. Spec => []BookInv
  BY RowsAlways, AnsweredChatCorrect, IdsInit, IdsStep, PTL DEF BookInv, Spec
<1> QED BY <1>1, BookBegins, BookStep, PTL DEF Spec, ImplementsBook, Book!Spec
=============================================================================
