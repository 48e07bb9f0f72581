-------------------------- MODULE PushNotifyProofs --------------------------
(***************************************************************************)
(* Proofs about PushNotify, for any users, members, tokens and messages,   *)
(* whether there is a sender or not.                                       *)
(***************************************************************************)
EXTENDS PushNotify, FiniteSetTheorems, TLAPS

\* The goroutine of a message and the sets its loops run over.  No token is
\* in pending once it has been sent to: that is what TypeOK needs of a step
\* of Send.
JobOf(m) ==
  /\ stage[m] \in {"none", "members", "presence"} => \A t \in Tokens : tried[m][t] = 0
  /\ stage[m] \in {"none", "members"} => targets[m] = {}
  /\ stage[m] # "send" => pending[m] = {}
  /\ \A t \in pending[m] : tried[m][t] = 0

\* What a running goroutine would find if it looked now is among what the
\* auxiliary variables say was there since the message was posted.
WorldOf(m) == Running(m) =>
  /\ away[m] \cap online = {}
  /\ Users \ online \subseteq wasAway[m]
  /\ \A t \in Tokens, u \in Users : <<t, u>> \in keeps[m] => owner[t] = u
  /\ \A t \in Tokens : owner[t] # Nobody => <<t, owner[t]>> \in had[m]

\* The recipients who have to be reached are still to be looked at or are
\* targets, and their tokens are still pending or have been tried.
ReachOf(m) ==
  /\ stage[m] = "presence" => Recipients(m) \cap away[m] \subseteq left[m] \cup targets[m]
  /\ stage[m] = "send" =>
       /\ Recipients(m) \cap away[m] \subseteq targets[m]
       /\ \A t \in Tokens, u \in Recipients(m) \cap away[m] :
            <<t, u>> \in keeps[m] => t \in pending[m] \/ tried[m][t] = 1
  /\ stage[m] = "done" =>
       \A t \in Tokens, u \in Recipients(m) \cap away[m] :
         <<t, u>> \in keeps[m] => tried[m][t] = 1

\* Nobody is a target, and no token is used, without a reason.
ReasonOf(m) ==
  /\ targets[m] \subseteq Recipients(m) \cap wasAway[m]
  /\ \A t \in Tokens : tried[m][t] > 0 \/ t \in pending[m] =>
       \E u \in Recipients(m) : u \in wasAway[m] /\ <<t, u>> \in had[m]

MessageOf(m) == JobOf(m) /\ WorldOf(m) /\ ReachOf(m) /\ ReasonOf(m)

PushInv == TypeOK /\ \A m \in Msgs : MessageOf(m)

JobStep(m) ==
  \/ \E u \in Users : Post(m, u) \/ LookAt(m, u)
  \/ \E t \in Tokens : Send(m, t)
  \/ ListMembers(m) \/ NoTargets(m) \/ ListTokens(m)
  \/ QueryError(m) \/ Finish(m)

LEMMA NextCases ==
  ASSUME [Next]_vars
  PROVE  \/ \E u \in Users : Connect(u) \/ Disconnect(u)
         \/ \E u \in Users, t \in Tokens : RegisterToken(u, t)
         \/ \E m \in Msgs : JobStep(m)
         \/ \E m \in Msgs : SendToNil(m)
         \/ Crash
         \/ UNCHANGED vars
BY DEF Next, JobStep

LEMMA PushInit == Init => PushInv
<1> SUFFICES ASSUME Init PROVE PushInv
  OBVIOUS
<1>1. TypeOK
  BY DEF Init, TypeOK, Stages
<1>2. ASSUME NEW m \in Msgs PROVE MessageOf(m)
  BY DEF Init, MessageOf, JobOf, WorldOf, ReachOf, ReasonOf, Running
<1> QED BY <1>1, <1>2 DEF PushInv

-----------------------------------------------------------------------------
(* Type correctness.                                                       *)

LEMMA TypeStep == PushInv /\ [Next]_vars => TypeOK'
<1> SUFFICES ASSUME PushInv, [Next]_vars PROVE TypeOK'
  OBVIOUS
<1>0. TypeOK
  BY DEF PushInv
<1>1. CASE UNCHANGED vars
  BY <1>0, <1>1 DEF TypeOK, vars, jobVars, auxVars
<1>2. ASSUME NEW u \in Users, Connect(u) \/ Disconnect(u) PROVE TypeOK'
  <2>1. CASE Connect(u)
    <3>1. online' \subseteq Users /\ away' \in [Msgs -> SUBSET Users]
      BY <1>0, <2>1 DEF Connect, TypeOK
    <3>2. UNCHANGED <<configured, owner, jobVars, wasAway, keeps, had>>
      BY <2>1 DEF Connect
    <3> QED BY <1>0, <3>1, <3>2 DEF TypeOK, jobVars
  <2>2. CASE Disconnect(u)
    <3>1. online' \subseteq Users /\ wasAway' \in [Msgs -> SUBSET Users]
      BY <1>0, <2>2 DEF Disconnect, TypeOK
    <3>2. UNCHANGED <<configured, owner, jobVars, away, keeps, had>>
      BY <2>2 DEF Disconnect
    <3> QED BY <1>0, <3>1, <3>2 DEF TypeOK, jobVars
  <2> QED BY <1>2, <2>1, <2>2
<1>3. ASSUME NEW u \in Users, NEW t \in Tokens, RegisterToken(u, t) PROVE TypeOK'
  <2>1. owner' \in [Tokens -> Users \cup {Nobody}]
    BY <1>0, <1>3 DEF RegisterToken, TypeOK
  <2>2. keeps' \in [Msgs -> SUBSET (Tokens \X Users)]
    BY <1>0, <1>3 DEF RegisterToken, TypeOK
  <2>3. had' \in [Msgs -> SUBSET (Tokens \X Users)]
    BY <1>0, <1>3 DEF RegisterToken, TypeOK
  <2>4. UNCHANGED <<configured, online, jobVars, away, wasAway>>
    BY <1>3 DEF RegisterToken
  <2> QED BY <1>0, <2>1, <2>2, <2>3, <2>4 DEF TypeOK, jobVars
<1>4. ASSUME Die, nilCalls' \in Nat PROVE TypeOK'
  BY <1>0, <1>4 DEF Die, TypeOK, auxVars, Stages
<1>5. CASE Crash \/ \E m \in Msgs : SendToNil(m)
  <2>1. nilCalls' \in Nat
    BY <1>0, <1>5 DEF Crash, SendToNil, TypeOK
  <2> QED BY <1>4, <1>5, <2>1 DEF Crash, SendToNil
<1>6. ASSUME NEW m \in Msgs, JobStep(m) PROVE TypeOK'
  <2>1. ASSUME NEW u \in Users, Post(m, u) PROVE TypeOK'
    <3>1. Rows \subseteq Tokens \X Users
      BY <1>0 DEF Rows, TypeOK
    <3> QED BY <1>0, <2>1, <3>1, PushAssumption DEF Post, TypeOK, Stages
  <2>2. ASSUME NEW u \in Users, LookAt(m, u) PROVE TypeOK'
    BY <1>0, <2>2 DEF LookAt, TypeOK, auxVars
  <2>3. ASSUME NEW t \in Tokens, Send(m, t) PROVE TypeOK'
    <3>1. tried[m][t] = 0 /\ tried \in [Msgs -> [Tokens -> 0..1]]
      BY <1>0, <2>3 DEF Send, Attempt, PushInv, MessageOf, JobOf, TypeOK
    <3>2. tried' \in [Msgs -> [Tokens -> 0..1]]
      BY <2>3, <3>1 DEF Send, Attempt
    <3>3. UNCHANGED <<configured, online, owner, stage, sender, left, targets, nilCalls, auxVars>>
      BY <2>3 DEF Send, Attempt
    <3>4. pending' \in [Msgs -> SUBSET Tokens]
      BY <1>0, <2>3 DEF Send, TypeOK
    <3> QED BY <1>0, <3>2, <3>3, <3>4 DEF TypeOK, auxVars
  <2>4. CASE ListMembers(m)
    BY <1>0, <2>4 DEF ListMembers, TypeOK, Stages, auxVars
  <2>5. CASE ListTokens(m)
    BY <1>0, <2>5 DEF ListTokens, TypeOK, Stages, auxVars
  <2>6. CASE NoTargets(m) \/ QueryError(m) \/ Finish(m)
    BY <1>0, <2>6 DEF NoTargets, QueryError, Finish, Return, TypeOK, Stages, auxVars
  <2> QED BY <1>6, <2>1, <2>2, <2>3, <2>4, <2>5, <2>6 DEF JobStep
<1> QED BY <1>1, <1>2, <1>3, <1>5, <1>6, NextCases

-----------------------------------------------------------------------------
(* The steps of the world and of the process.                              *)

\* A step that leaves what concerns a message alone.
LEMMA Untouched ==
  ASSUME NEW n \in Msgs, MessageOf(n),
         UNCHANGED <<online, owner, stage[n], sender[n], left[n], targets[n],
                     pending[n], tried[n], away[n], wasAway[n], keeps[n], had[n]>>
  PROVE  MessageOf(n)'
<1>1. JobOf(n)' /\ WorldOf(n)'
  BY DEF MessageOf, JobOf, WorldOf, Running
<1>2. ReachOf(n)' /\ ReasonOf(n)'
  BY DEF MessageOf, ReachOf, ReasonOf, Recipients
<1> QED BY <1>1, <1>2 DEF MessageOf

LEMMA WorldStep ==
  ASSUME PushInv, NEW n \in Msgs,
         \/ \E u \in Users : Connect(u) \/ Disconnect(u)
         \/ \E u \in Users, t \in Tokens : RegisterToken(u, t)
  PROVE  MessageOf(n)'
<1>0. TypeOK /\ MessageOf(n)
  BY DEF PushInv
<1>1. /\ UNCHANGED <<stage, sender, left, targets, pending, tried>>
      /\ (Running(n))' = Running(n) /\ Recipients(n)' = Recipients(n)
  BY DEF Connect, Disconnect, RegisterToken, jobVars, Running, Recipients
<1>2. /\ away'[n] \subseteq away[n] /\ keeps'[n] \subseteq keeps[n]
      /\ wasAway[n] \subseteq wasAway'[n] /\ had[n] \subseteq had'[n]
  <2>1. ASSUME NEW u \in Users, Connect(u) PROVE <1>2
    BY <1>0, <2>1 DEF Connect, TypeOK
  <2>2. ASSUME NEW u \in Users, Disconnect(u) PROVE <1>2
    BY <1>0, <2>2 DEF Disconnect, TypeOK
  <2>3. ASSUME NEW u \in Users, NEW t \in Tokens, RegisterToken(u, t) PROVE <1>2
    BY <1>0, <2>3 DEF RegisterToken, TypeOK
  <2> QED BY <2>1, <2>2, <2>3
<1>3. JobOf(n)'
  BY <1>0, <1>1 DEF MessageOf, JobOf
<1>4. ReachOf(n)'
  BY <1>0, <1>1, <1>2 DEF MessageOf, ReachOf
<1>5. ReasonOf(n)'
  BY <1>0, <1>1, <1>2 DEF MessageOf, ReasonOf
<1>6. WorldOf(n)'
  <2>1. ASSUME NEW u \in Users, Connect(u) PROVE WorldOf(n)'
    BY <1>0, <1>1, <2>1 DEF Connect, MessageOf, WorldOf, TypeOK
  <2>2. ASSUME NEW u \in Users, Disconnect(u) PROVE WorldOf(n)'
    BY <1>0, <1>1, <2>2 DEF Disconnect, MessageOf, WorldOf, TypeOK
  <2>3. ASSUME NEW u \in Users, NEW t \in Tokens, RegisterToken(u, t) PROVE WorldOf(n)'
    BY <1>0, <1>1, <2>3 DEF RegisterToken, MessageOf, WorldOf, TypeOK
  <2> QED BY <2>1, <2>2, <2>3
<1> QED BY <1>3, <1>4, <1>5, <1>6 DEF MessageOf

LEMMA DeathStep ==
  ASSUME PushInv, NEW n \in Msgs, Die
  PROVE  MessageOf(n)'
<1>0. TypeOK /\ MessageOf(n)
  BY DEF PushInv
<1>1. /\ pending'[n] = {} /\ targets'[n] = {}
      /\ UNCHANGED <<owner, sender, tried, away, wasAway, keeps, had>>
      /\ stage'[n] = IF Running(n) THEN "killed" ELSE stage[n]
  BY DEF Die, auxVars
<1>2. Recipients(n)' = Recipients(n) /\ ~(Running(n))'
  BY <1>1 DEF Recipients, Running
<1>3. JobOf(n)'
  BY <1>0, <1>1 DEF MessageOf, JobOf
<1>4. ReachOf(n)'
  BY <1>0, <1>1, <1>2 DEF MessageOf, ReachOf, Running
<1>5. ReasonOf(n)'
  BY <1>0, <1>1, <1>2 DEF MessageOf, ReasonOf
<1> QED BY <1>2, <1>3, <1>4, <1>5 DEF MessageOf, WorldOf

-----------------------------------------------------------------------------
(* The steps of the goroutines.                                            *)

\* A goroutine leaves the other messages and the world alone.
LEMMA OtherMessages ==
  ASSUME PushInv, NEW m \in Msgs, JobStep(m), NEW n \in Msgs, n # m
  PROVE  MessageOf(n)'
<1>0. TypeOK /\ MessageOf(n)
  BY DEF PushInv
<1> DEFINE Same == UNCHANGED <<online, owner, stage[n], sender[n], left[n], targets[n],
                               pending[n], tried[n], away[n], wasAway[n], keeps[n],
                               had[n]>>
<1>1. Same
  <2>1. ASSUME NEW u \in Users, Post(m, u) \/ LookAt(m, u) PROVE Same
    BY <1>0, <2>1 DEF Post, LookAt, TypeOK, auxVars
  <2>2. ASSUME NEW t \in Tokens, Send(m, t) PROVE Same
    BY <1>0, <2>2 DEF Send, Attempt, TypeOK, auxVars
  <2>3. CASE ListMembers(m) \/ ListTokens(m)
    BY <1>0, <2>3 DEF ListMembers, ListTokens, TypeOK, auxVars
  <2>4. CASE NoTargets(m) \/ QueryError(m) \/ Finish(m)
    BY <1>0, <2>4 DEF NoTargets, QueryError, Finish, Return, TypeOK, auxVars
  <2> QED BY <2>1, <2>2, <2>3, <2>4 DEF JobStep
<1> QED BY <1>0, <1>1, Untouched

LEMMA OwnMessage ==
  ASSUME PushInv, NEW m \in Msgs, JobStep(m)
  PROVE  MessageOf(m)'
<1>0. TypeOK /\ MessageOf(m)
  BY DEF PushInv
<1>1. ASSUME NEW u \in Users, Post(m, u) PROVE MessageOf(m)'
  <2>1. /\ stage'[m] = "members" /\ away'[m] = Users \ online
        /\ wasAway'[m] = Users \ online /\ keeps'[m] = Rows /\ had'[m] = Rows
        /\ UNCHANGED <<online, owner, targets, pending, tried>> /\ stage[m] = "none"
    BY <1>0, <1>1 DEF Post, TypeOK
  <2>2. JobOf(m)' /\ ReachOf(m)' /\ ReasonOf(m)'
    BY <1>0, <2>1 DEF MessageOf, JobOf, ReachOf, ReasonOf
  <2>3. WorldOf(m)'
    BY <1>0, <2>1 DEF WorldOf, Rows, TypeOK
  <2> QED BY <2>2, <2>3 DEF MessageOf
<1>2. ASSUME JobStep(m), ~\E u \in Users : Post(m, u),
             JobOf(m)', ReachOf(m)', ReasonOf(m)'
      PROVE  MessageOf(m)'
  <2>1. Running(m) /\ UNCHANGED <<online, owner, away, wasAway, keeps, had>>
    BY <1>2 DEF JobStep, LookAt, Send, Attempt, ListMembers, NoTargets, ListTokens,
         QueryError, Finish, Return, auxVars, Running
  <2>2. WorldOf(m)'
    BY <1>0, <2>1 DEF MessageOf, WorldOf
  <2> QED BY <1>2, <2>2 DEF MessageOf
<1>3. ASSUME NEW u \in Users, LookAt(m, u) PROVE JobOf(m)' /\ ReachOf(m)' /\ ReasonOf(m)'
  <2>1. /\ stage[m] = "presence" /\ u \in left[m] /\ left'[m] = left[m] \ {u}
        /\ targets'[m] = IF u = sender[m] \/ u \in online THEN targets[m]
                         ELSE targets[m] \cup {u}
        /\ UNCHANGED <<stage, sender, pending, tried, away, wasAway, keeps, had>>
    BY <1>0, <1>3 DEF LookAt, IsOnline, TypeOK, auxVars
  <2>2. Recipients(m)' = Recipients(m) /\ u \in Members
    BY <1>0, <2>1 DEF Recipients, TypeOK
  <2>3. JobOf(m)'
    BY <1>0, <2>1 DEF MessageOf, JobOf
  <2>4. u \in Recipients(m) \cap away[m] => u \in targets'[m]
    BY <1>0, <2>1 DEF MessageOf, WorldOf, Running, Recipients
  <2>5. ReachOf(m)'
    BY <1>0, <2>1, <2>2, <2>4 DEF MessageOf, ReachOf
  <2>6. targets'[m] \subseteq Recipients(m) \cap wasAway[m]
    BY <1>0, <2>1, <2>2 DEF MessageOf, WorldOf, ReasonOf, Running, Recipients
  <2>7. ReasonOf(m)'
    BY <1>0, <2>1, <2>2, <2>6 DEF MessageOf, ReasonOf
  <2> QED BY <2>3, <2>5, <2>7
<1>4. ASSUME NEW t \in Tokens, Send(m, t) PROVE JobOf(m)' /\ ReachOf(m)' /\ ReasonOf(m)'
  <2>1. /\ stage[m] = "send" /\ t \in pending[m] /\ pending'[m] = pending[m] \ {t}
        /\ tried'[m] = [tried[m] EXCEPT ![t] = @ + 1]
        /\ UNCHANGED <<stage, sender, left, targets, away, wasAway, keeps, had>>
    BY <1>0, <1>4 DEF Send, Attempt, TypeOK, auxVars
  <2>2. /\ tried'[m][t] = 1
        /\ \A d \in Tokens \ {t} : tried'[m][d] = tried[m][d]
    BY <1>0, <2>1 DEF MessageOf, JobOf, TypeOK
  <2>3. Recipients(m)' = Recipients(m) /\ pending[m] \subseteq Tokens
    BY <1>0, <2>1 DEF Recipients, TypeOK
  <2>4. JobOf(m)'
    BY <1>0, <2>1, <2>2, <2>3 DEF MessageOf, JobOf
  <2>5. ReachOf(m)'
    BY <1>0, <2>1, <2>2, <2>3 DEF MessageOf, ReachOf
  <2>6. ReasonOf(m)'
    BY <1>0, <2>1, <2>2, <2>3 DEF MessageOf, ReasonOf
  <2> QED BY <2>4, <2>5, <2>6
<1>5. CASE ListMembers(m)
  <2>1. /\ stage[m] = "members" /\ stage'[m] = "presence" /\ left'[m] = Members
        /\ UNCHANGED <<sender, targets, pending, tried, away, wasAway, keeps, had>>
    BY <1>0, <1>5 DEF ListMembers, TypeOK, auxVars
  <2>2. Recipients(m)' = Recipients(m)
    BY <2>1 DEF Recipients
  <2>3. JobOf(m)' /\ ReasonOf(m)'
    BY <1>0, <2>1, <2>2 DEF MessageOf, JobOf, ReasonOf
  <2>4. ReachOf(m)'
    BY <2>1, <2>2 DEF ReachOf, Recipients
  <2> QED BY <1>2, <2>1, <2>3, <2>4 DEF Post
<1>6. CASE ListTokens(m)
  <2>1. /\ stage[m] = "presence" /\ stage'[m] = "send" /\ left[m] = {}
        /\ pending'[m] = {t \in Tokens : owner[t] \in targets[m]}
        /\ UNCHANGED <<sender, targets, tried, away, wasAway, keeps, had>>
    BY <1>0, <1>6 DEF ListTokens, TypeOK, auxVars
  <2>2. Recipients(m)' = Recipients(m) /\ Recipients(m) \subseteq Users
    BY <2>1, PushAssumption DEF Recipients
  <2>3. JobOf(m)'
    BY <1>0, <2>1 DEF MessageOf, JobOf
  <2>4. ReachOf(m)'
    BY <1>0, <2>1, <2>2 DEF MessageOf, ReachOf, WorldOf, Running
  <2>5. \A t \in pending'[m] : \E u \in Recipients(m) : u \in wasAway[m] /\ <<t, u>> \in had[m]
    <3> SUFFICES ASSUME NEW t \in Tokens, owner[t] \in targets[m]
                 PROVE  \E u \in Recipients(m) : u \in wasAway[m] /\ <<t, u>> \in had[m]
      BY <2>1
    <3>1. owner[t] \in Recipients(m) /\ owner[t] \in wasAway[m]
      BY <1>0 DEF MessageOf, ReasonOf
    <3>2. <<t, owner[t]>> \in had[m]
      BY <1>0, <2>1, <2>2, <3>1, PushAssumption DEF MessageOf, WorldOf, Running
    <3> QED BY <3>1, <3>2
  <2>6. ReasonOf(m)'
    BY <1>0, <2>1, <2>2, <2>5 DEF MessageOf, JobOf, ReasonOf
  <2> QED BY <1>2, <2>1, <2>3, <2>4, <2>6 DEF Post
<1>7. CASE NoTargets(m) \/ QueryError(m) \/ Finish(m)
  <2>1. /\ pending'[m] = {} /\ targets'[m] = {} /\ stage'[m] \in {"done", "failed"}
        /\ UNCHANGED <<sender, tried, away, wasAway, keeps, had>>
    BY <1>0, <1>7 DEF NoTargets, QueryError, Finish, Return, TypeOK, auxVars
  <2>2. Recipients(m)' = Recipients(m)
    BY <2>1 DEF Recipients
  <2>3. JobOf(m)' /\ ReasonOf(m)'
    BY <1>0, <2>1, <2>2 DEF MessageOf, JobOf, ReasonOf
  <2>4. CASE QueryError(m)
    <3>1. stage'[m] = "failed"
      BY <1>0, <2>4 DEF QueryError, Return, TypeOK
    <3>2. ReachOf(m)'
      BY <3>1 DEF ReachOf
    <3>3. ~\E u \in Users : Post(m, u)
      BY <2>4 DEF QueryError, Post
    <3> QED BY <1>2, <2>3, <3>2, <3>3
  <2>5. CASE NoTargets(m)
    <3>1. Recipients(m) \cap away[m] = {}
      BY <1>0, <2>5 DEF NoTargets, MessageOf, ReachOf
    <3>2. ReachOf(m)'
      BY <2>1, <2>2, <3>1 DEF ReachOf
    <3> QED BY <1>2, <2>3, <2>5, <3>2 DEF Post, NoTargets
  <2>6. CASE Finish(m)
    <3>1. stage[m] = "send" /\ pending[m] = {}
      BY <2>6 DEF Finish
    <3>2. ReachOf(m)'
      BY <1>0, <2>1, <2>2, <3>1 DEF MessageOf, ReachOf
    <3> QED BY <1>2, <2>3, <2>6, <3>2 DEF Post, Finish
  <2> QED BY <1>7, <2>4, <2>5, <2>6
<1>8. ASSUME NEW u \in Users, LookAt(m, u) PROVE MessageOf(m)'
  BY <1>2, <1>3, <1>8 DEF LookAt, Post
<1>9. ASSUME NEW t \in Tokens, Send(m, t) PROVE MessageOf(m)'
  BY <1>2, <1>4, <1>9 DEF Send, Attempt, Post
<1> QED BY <1>1, <1>5, <1>6, <1>7, <1>8, <1>9 DEF JobStep

LEMMA PushStep == PushInv /\ [Next]_vars => PushInv'
<1> SUFFICES ASSUME PushInv, [Next]_vars, NEW n \in Msgs PROVE MessageOf(n)'
  BY TypeStep DEF PushInv
<1>1. CASE UNCHANGED vars
  BY <1>1, Untouched DEF PushInv, vars, jobVars, auxVars
<1>2. CASE \/ \E u \in Users : Connect(u) \/ Disconnect(u)
           \/ \E u \in Users, t \in Tokens : RegisterToken(u, t)
  BY <1>2, WorldStep
<1>3. ASSUME NEW m \in Msgs, JobStep(m) PROVE MessageOf(n)'
  BY <1>3, OtherMessages, OwnMessage
<1>4. CASE Crash \/ \E m \in Msgs : SendToNil(m)
  <2>1. Die
    BY <1>4 DEF Crash, SendToNil
  <2> QED BY <2>1, DeathStep
<1> QED BY <1>1, <1>2, <1>3, <1>4, NextCases

LEMMA PushInvariant == Spec => []PushInv
BY PushInit, PushStep, PTL DEF Spec

\* Every variable keeps its type, and no message is sent twice to a device.
THEOREM TypeCorrect == Spec => []TypeOK
<1>1. PushInv => TypeOK
  BY DEF PushInv
<1> QED BY <1>1, PushInvariant, PTL

\* A goroutine that comes to its end has tried every device of a recipient
\* who has been offline all the time.
THEOREM OfflineReachedCorrect == Spec => []OfflineReached
<1>1. PushInv => OfflineReached
  BY DEF PushInv, MessageOf, ReachOf, OfflineReached
<1> QED BY <1>1, PushInvariant, PTL

\* Only devices of recipients who have been offline are picked.
THEOREM PushJustifiedCorrect == Spec => []PushJustified
<1>1. PushInv => PushJustified
  BY DEF PushInv, MessageOf, ReasonOf, PushJustified
<1> QED BY <1>1, PushInvariant, PTL

-----------------------------------------------------------------------------
(* A goroutine comes to its end.                                           *)

\* A bound for the steps that the goroutine of m has yet to take.
Remaining(m) ==
  CASE stage[m] = "members"  -> Cardinality(Members) + Cardinality(Tokens) + 3
    [] stage[m] = "presence" -> Cardinality(left[m]) + Cardinality(Tokens) + 2
    [] stage[m] = "send"     -> Cardinality(pending[m]) + 1
    [] OTHER                 -> 0

\* Every query, look or attempt of a goroutine brings it nearer to its end,
\* and nothing that happens around it sets it back: neither connections that
\* come and go, nor devices that change hands, nor other messages.
JobEnds ==
  \A m \in Msgs : Running(m) =>
    /\ Remaining(m) \in Nat
    /\ JobStep(m) => Remaining(m)' < Remaining(m)
    /\ ~JobStep(m) => Remaining(m)' \in {Remaining(m), 0}

LEMMA JobCounts ==
  ASSUME PushInv, NEW m \in Msgs
  PROVE  /\ Cardinality(Members) \in Nat /\ Cardinality(Tokens) \in Nat
         /\ Cardinality(left[m]) \in Nat /\ Cardinality(pending[m]) \in Nat
         /\ \A u \in left[m] : Cardinality(left[m] \ {u}) = Cardinality(left[m]) - 1
         /\ \A t \in pending[m] :
              Cardinality(pending[m] \ {t}) = Cardinality(pending[m]) - 1
         /\ \A S \in SUBSET Tokens :
              Cardinality(S) \in Nat /\ Cardinality(S) <= Cardinality(Tokens)
<1>1. left[m] \in SUBSET Members /\ pending[m] \in SUBSET Tokens
  BY DEF PushInv, TypeOK
<1>2. IsFiniteSet(Members) /\ IsFiniteSet(Tokens)
  BY PushAssumption
<1>3. IsFiniteSet(left[m]) /\ IsFiniteSet(pending[m])
  BY <1>1, <1>2, FS_Subset
<1>4. /\ Cardinality(Members) \in Nat /\ Cardinality(Tokens) \in Nat
      /\ Cardinality(left[m]) \in Nat /\ Cardinality(pending[m]) \in Nat
  BY <1>2, <1>3, FS_CardinalityType
<1>5. \A u \in left[m] : Cardinality(left[m] \ {u}) = Cardinality(left[m]) - 1
  BY <1>3, FS_RemoveElement
<1>6. \A t \in pending[m] : Cardinality(pending[m] \ {t}) = Cardinality(pending[m]) - 1
  BY <1>3, FS_RemoveElement
<1>7. ASSUME NEW S \in SUBSET Tokens
      PROVE  Cardinality(S) \in Nat /\ Cardinality(S) <= Cardinality(Tokens)
  BY <1>2, FS_Subset, FS_CardinalityType
<1> QED BY <1>4, <1>5, <1>6, <1>7

LEMMA OwnStepFalls ==
  ASSUME PushInv, NEW m \in Msgs, Running(m), JobStep(m)
  PROVE  Remaining(m)' < Remaining(m)
<1>0. /\ stage \in [Msgs -> Stages] /\ left \in [Msgs -> SUBSET Members]
      /\ pending \in [Msgs -> SUBSET Tokens]
  BY DEF PushInv, TypeOK
<1>1. CASE ListMembers(m)
  <2>1. stage[m] = "members" /\ stage'[m] = "presence" /\ left'[m] = Members
    BY <1>0, <1>1 DEF ListMembers
  <2> QED BY <2>1, JobCounts DEF Remaining
<1>2. ASSUME NEW u \in Users, LookAt(m, u) PROVE Remaining(m)' < Remaining(m)
  <2>1. /\ stage[m] = "presence" /\ stage' = stage
        /\ u \in left[m] /\ left'[m] = left[m] \ {u}
    BY <1>0, <1>2 DEF LookAt
  <2>2. Cardinality(left[m] \ {u}) = Cardinality(left[m]) - 1
    BY <2>1, JobCounts
  <2>3. Remaining(m)' = Cardinality(left[m] \ {u}) + Cardinality(Tokens) + 2
    BY <2>1 DEF Remaining
  <2>4. Remaining(m) = Cardinality(left[m]) + Cardinality(Tokens) + 2
    BY <2>1 DEF Remaining
  <2> QED BY <2>2, <2>3, <2>4, JobCounts
<1>3. CASE ListTokens(m)
  <2>1. stage[m] = "presence" /\ stage'[m] = "send" /\ pending'[m] \in SUBSET Tokens
    BY <1>0, <1>3 DEF ListTokens
  <2>2. /\ Cardinality(pending'[m]) \in Nat
        /\ Cardinality(pending'[m]) <= Cardinality(Tokens)
    BY <2>1, JobCounts
  <2>3. Remaining(m)' = Cardinality(pending'[m]) + 1
    BY <2>1 DEF Remaining
  <2>4. Remaining(m) = Cardinality(left[m]) + Cardinality(Tokens) + 2
    BY <2>1 DEF Remaining
  <2> QED BY <2>2, <2>3, <2>4, JobCounts
<1>4. ASSUME NEW t \in Tokens, Send(m, t) PROVE Remaining(m)' < Remaining(m)
  <2>1. /\ stage[m] = "send" /\ stage' = stage
        /\ t \in pending[m] /\ pending'[m] = pending[m] \ {t}
    BY <1>0, <1>4 DEF Send, Attempt
  <2>2. Cardinality(pending[m] \ {t}) = Cardinality(pending[m]) - 1
    BY <2>1, JobCounts
  <2>3. Remaining(m)' = Cardinality(pending[m] \ {t}) + 1
    BY <2>1 DEF Remaining
  <2>4. Remaining(m) = Cardinality(pending[m]) + 1
    BY <2>1 DEF Remaining
  <2> QED BY <2>2, <2>3, <2>4, JobCounts
<1>5. CASE NoTargets(m) \/ QueryError(m) \/ Finish(m)
  <2>1. stage'[m] \in {"done", "failed"}
    BY <1>0, <1>5 DEF NoTargets, QueryError, Finish, Return
  <2>2. Remaining(m)' = 0
    BY <2>1 DEF Remaining
  <2>3. Remaining(m) \in Nat /\ Remaining(m) # 0
    BY JobCounts DEF Remaining, Running
  <2> QED BY <2>2, <2>3
<1>6. \A u \in Users : ~Post(m, u)
  BY DEF Post, Running
<1> QED BY <1>1, <1>2, <1>3, <1>4, <1>5, <1>6 DEF JobStep

LEMMA OthersLeave ==
  ASSUME PushInv, NEW m \in Msgs, Running(m), ~JobStep(m), [Next]_vars
  PROVE  Remaining(m)' \in {Remaining(m), 0}
<1>0. /\ stage \in [Msgs -> Stages] /\ left \in [Msgs -> SUBSET Members]
      /\ pending \in [Msgs -> SUBSET Tokens]
  BY DEF PushInv, TypeOK
<1>1. ASSUME stage'[m] = stage[m], left'[m] = left[m], pending'[m] = pending[m]
      PROVE  Remaining(m)' = Remaining(m)
  BY <1>1 DEF Remaining
<1>2. CASE Crash \/ \E n \in Msgs : SendToNil(n)
  <2>1. Die
    BY <1>2 DEF Crash, SendToNil
  <2>2. stage'[m] = "killed"
    BY <2>1 DEF Die
  <2> QED BY <2>2 DEF Remaining
<1>3. ASSUME NEW n \in Msgs \ {m}, JobStep(n)
      PROVE  stage'[m] = stage[m] /\ left'[m] = left[m] /\ pending'[m] = pending[m]
  <2>1. CASE (\E u \in Users : Post(n, u) \/ LookAt(n, u)) \/ \E t \in Tokens : Send(n, t)
    BY <1>0, <2>1 DEF Post, LookAt, Send, Attempt
  <2>2. CASE ListMembers(n) \/ ListTokens(n)
    BY <1>0, <2>2 DEF ListMembers, ListTokens
  <2>3. CASE NoTargets(n) \/ QueryError(n) \/ Finish(n)
    BY <1>0, <2>3 DEF NoTargets, QueryError, Finish, Return
  <2> QED BY <1>3, <2>1, <2>2, <2>3 DEF JobStep
<1>4. CASE \/ \E u \in Users : Connect(u) \/ Disconnect(u)
           \/ \E u \in Users, t \in Tokens : RegisterToken(u, t)
           \/ UNCHANGED vars
  <2>1. UNCHANGED <<stage, left, pending>>
    BY <1>4 DEF Connect, Disconnect, RegisterToken, vars, jobVars
  <2> QED BY <1>1, <2>1
<1> QED BY <1>1, <1>2, <1>3, <1>4, NextCases

\* The goroutine of a message ends after a bounded number of its own steps,
\* whatever the members, their devices and the other messages do meanwhile.
THEOREM JobEndsCorrect == Spec => [][JobEnds]_vars
<1>1. PushInv /\ [Next]_vars => JobEnds
  <2> SUFFICES ASSUME PushInv, [Next]_vars, NEW m \in Msgs, Running(m)
               PROVE  /\ Remaining(m) \in Nat
                      /\ JobStep(m) => Remaining(m)' < Remaining(m)
                      /\ ~JobStep(m) => Remaining(m)' \in {Remaining(m), 0}
    BY DEF JobEnds
  <2>1. Remaining(m) \in Nat
    BY JobCounts DEF Remaining
  <2> QED BY <2>1, OwnStepFalls, OthersLeave
<1> QED BY <1>1, PushInvariant, PTL DEF Spec
=============================================================================
