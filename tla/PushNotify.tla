----------------------------- MODULE PushNotify -----------------------------
(***************************************************************************)
(* Push notifications: POST /api/push/register and sendPushForMessage, the *)
(* goroutine that readLoop starts for every message it has stored and      *)
(* broadcast.  The goroutine reads the members, the presence of each and   *)
(* the tokens one after the other; connections come and go and devices     *)
(* change hands in between.  Presence is the set of users with a           *)
(* connection: that Server.online counts them right is a property of       *)
(* WsHub.  The chat of the model is one of many, and its members never     *)
(* change.                                                                 *)
(***************************************************************************)
EXTENDS Naturals, FiniteSets

CONSTANTS
  Users,
  Members,     \* the members of the chat
  Tokens,      \* device tokens
  Msgs,        \* messages of the chat, each posted at most once
  Nobody       \* owner of a token that is not in push_tokens

ASSUME PushAssumption ==
  /\ Members \subseteq Users
  /\ Nobody \notin Users
  /\ IsFiniteSet(Members) /\ IsFiniteSet(Tokens)

VARIABLES
  configured, \* NewAPNSSender returns a sender, at every start of the process
  online,   \* the users with an entry in Server.online
  owner,    \* push_tokens.user_id of each token
  stage,    \* where the goroutine of each message is
  sender,   \* msg.SenderID
  left,     \* members that the loop has yet to look at
  targets,  \* targetIDs
  pending,  \* tokens read and not yet sent to
  tried,    \* how often SendPush was called for a message and a token
  nilCalls, \* calls of Send on the nil *APNSSender, each of them fatal
  away,     \* auxiliary: users offline ever since the message was posted
  wasAway,  \* auxiliary: users offline at some time since
  keeps,    \* auxiliary: <<token, user>> rows that were there ever since
  had       \* auxiliary: <<token, user>> rows that were there at some time

jobVars == <<stage, sender, left, targets, pending, tried, nilCalls>>
auxVars == <<away, wasAway, keeps, had>>
vars == <<configured, online, owner, jobVars, auxVars>>

\* "failed": the database refused a query; "killed": the process died.
Stages == {"none", "members", "presence", "send", "done", "failed", "killed"}

Running(m) == stage[m] \in {"members", "presence", "send"}

Rows == {<<t, owner[t]>> : t \in {d \in Tokens : owner[d] # Nobody}}

Init ==
  /\ configured \in BOOLEAN
  /\ online = {}
  /\ owner = [t \in Tokens |-> Nobody]
  /\ stage = [m \in Msgs |-> "none"]
  /\ sender = [m \in Msgs |-> Nobody]
  /\ left = [m \in Msgs |-> {}]
  /\ targets = [m \in Msgs |-> {}]
  /\ pending = [m \in Msgs |-> {}]
  /\ tried = [m \in Msgs |-> [t \in Tokens |-> 0]]
  /\ nilCalls = 0
  /\ away = [m \in Msgs |-> {}]
  /\ wasAway = [m \in Msgs |-> {}]
  /\ keeps = [m \in Msgs |-> {}]
  /\ had = [m \in Msgs |-> {}]

-----------------------------------------------------------------------------
(* The world the goroutine looks at while it changes.                      *)

\* markOnline of the first connection of a user, of either kind.
Connect(u) ==
  /\ u \notin online
  /\ online' = online \cup {u}
  /\ away' = [m \in Msgs |-> IF Running(m) THEN away[m] \ {u} ELSE away[m]]
  /\ UNCHANGED <<configured, owner, jobVars, wasAway, keeps, had>>

\* markOffline of the last one.
Disconnect(u) ==
  /\ u \in online
  /\ online' = online \ {u}
  /\ wasAway' = [m \in Msgs |-> IF Running(m) THEN wasAway[m] \cup {u} ELSE wasAway[m]]
  /\ UNCHANGED <<configured, owner, jobVars, away, keeps, had>>

\* HandlePushRegister: a token belongs to the last user who registered it.
RegisterToken(u, t) ==
  /\ owner[t] # u
  /\ owner' = [owner EXCEPT ![t] = u]
  /\ keeps' = [m \in Msgs |-> IF Running(m) THEN {r \in keeps[m] : r[1] # t}
                              ELSE keeps[m]]
  /\ had' = [m \in Msgs |-> IF Running(m) THEN had[m] \cup {<<t, u>>} ELSE had[m]]
  /\ UNCHANGED <<configured, online, jobVars, away, wasAway>>

-----------------------------------------------------------------------------
(* sendPushForMessage.                                                     *)

\* The goroutine starts.  Its sender has a connection: it posted on it.
\* PushEnabled holds in every build: main.go puts the *APNSSender into an
\* interface value, which is not nil even if the pointer is.
Post(m, u) ==
  /\ stage[m] = "none"
  /\ u \in Members \cap online
  /\ stage' = [stage EXCEPT ![m] = "members"]
  /\ sender' = [sender EXCEPT ![m] = u]
  /\ away' = [away EXCEPT ![m] = Users \ online]
  /\ wasAway' = [wasAway EXCEPT ![m] = Users \ online]
  /\ keeps' = [keeps EXCEPT ![m] = Rows]
  /\ had' = [had EXCEPT ![m] = Rows]
  /\ UNCHANGED <<configured, online, owner, left, targets, pending, tried, nilCalls>>

ListMembers(m) ==
  /\ stage[m] = "members"
  /\ stage' = [stage EXCEPT ![m] = "presence"]
  /\ left' = [left EXCEPT ![m] = Members]
  /\ UNCHANGED <<configured, online, owner, sender, targets, pending, tried, nilCalls, auxVars>>

\* getOnlineStatus.
IsOnline(u) == u \in online

\* Mutant: the sender is not skipped.
LookAtEveryone(m, u) ==
  /\ stage[m] = "presence"
  /\ u \in left[m]
  /\ left' = [left EXCEPT ![m] = @ \ {u}]
  /\ targets' = [targets EXCEPT ![m] = IF IsOnline(u) THEN @ ELSE @ \cup {u}]
  /\ UNCHANGED <<configured, online, owner, stage, sender, pending, tried, nilCalls, auxVars>>

\* One turn of the loop over the members, with one look at the presence.
LookAt(m, u) ==
  /\ stage[m] = "presence"
  /\ u \in left[m]
  /\ left' = [left EXCEPT ![m] = @ \ {u}]
  /\ targets' = [targets EXCEPT ![m] = IF u = sender[m] \/ IsOnline(u) THEN @
                                       ELSE @ \cup {u}]
  /\ UNCHANGED <<configured, online, owner, stage, sender, pending, tried, nilCalls, auxVars>>

\* The goroutine returns; its local variables are gone.
Return(m, how) ==
  /\ stage' = [stage EXCEPT ![m] = how]
  /\ left' = [left EXCEPT ![m] = {}]
  /\ targets' = [targets EXCEPT ![m] = {}]
  /\ pending' = [pending EXCEPT ![m] = {}]
  /\ UNCHANGED <<configured, online, owner, sender, tried, nilCalls, auxVars>>

NoTargets(m) ==
  /\ stage[m] = "presence"
  /\ left[m] = {}
  /\ targets[m] = {}
  /\ Return(m, "done")

\* ListPushTokens, one query for all targets.
ListTokens(m) ==
  /\ stage[m] = "presence"
  /\ left[m] = {}
  /\ targets[m] # {}
  /\ stage' = [stage EXCEPT ![m] = "send"]
  /\ pending' = [pending EXCEPT ![m] = {t \in Tokens : owner[t] \in targets[m]}]
  /\ UNCHANGED <<configured, online, owner, sender, left, targets, tried, nilCalls, auxVars>>

\* The query of the members or of the tokens fails.
QueryError(m) ==
  /\ \/ stage[m] = "members"
     \/ stage[m] = "presence" /\ left[m] = {} /\ targets[m] # {}
  /\ Return(m, "failed")

Attempt(m, t) ==
  /\ stage[m] = "send"
  /\ t \in pending[m]
  /\ configured
  /\ tried' = [tried EXCEPT ![m][t] = @ + 1]
  /\ UNCHANGED <<configured, online, owner, stage, sender, left, targets, nilCalls, auxVars>>

\* Mutant: a token that APNs refuses is tried again.
SendRetrying(m, t) ==
  /\ Attempt(m, t)
  /\ \/ pending' = [pending EXCEPT ![m] = @ \ {t}]
     \/ UNCHANGED pending

\* Mutant: the loop ends at the first error.
SendUntilError(m, t) ==
  /\ Attempt(m, t)
  /\ \/ pending' = [pending EXCEPT ![m] = @ \ {t}]
     \/ pending' = [pending EXCEPT ![m] = {}]

\* SendPush; whether APNs accepts the notification makes no difference.
Send(m, t) ==
  /\ Attempt(m, t)
  /\ pending' = [pending EXCEPT ![m] = @ \ {t}]

Finish(m) ==
  /\ stage[m] = "send"
  /\ pending[m] = {}
  /\ Return(m, "done")

-----------------------------------------------------------------------------
(* The end of the process, which docker restarts with nobody connected.    *)

Die ==
  /\ online' = {}
  /\ stage' = [m \in Msgs |-> IF Running(m) THEN "killed" ELSE stage[m]]
  /\ left' = [m \in Msgs |-> {}]
  /\ targets' = [m \in Msgs |-> {}]
  /\ pending' = [m \in Msgs |-> {}]
  /\ UNCHANGED <<configured, owner, sender, tried, auxVars>>

\* Send reads a field of the nil pointer: a panic that nobody recovers.
SendToNil(m) ==
  /\ stage[m] = "send"
  /\ pending[m] # {}
  /\ ~configured
  /\ nilCalls' = nilCalls + 1
  /\ Die

Crash ==
  /\ \E m \in Msgs : Running(m)
  /\ Die
  /\ UNCHANGED nilCalls

Next ==
  \/ \E u \in Users : Connect(u) \/ Disconnect(u)
  \/ \E u \in Users, t \in Tokens : RegisterToken(u, t)
  \/ \E m \in Msgs :
       \/ \E u \in Users : Post(m, u) \/ LookAt(m, u)
       \/ \E t \in Tokens : Send(m, t)
       \/ ListMembers(m) \/ NoTargets(m) \/ ListTokens(m)
       \/ QueryError(m) \/ Finish(m) \/ SendToNil(m)
  \/ Crash

Spec == Init /\ [][Next]_vars

-----------------------------------------------------------------------------
\* Every variable has its type, and a message is sent at most once to a
\* device, whoever it belongs to.
TypeOK ==
  /\ configured \in BOOLEAN
  /\ online \subseteq Users
  /\ owner \in [Tokens -> Users \cup {Nobody}]
  /\ stage \in [Msgs -> Stages]
  /\ sender \in [Msgs -> Members \cup {Nobody}]
  /\ left \in [Msgs -> SUBSET Members]
  /\ targets \in [Msgs -> SUBSET Members]
  /\ pending \in [Msgs -> SUBSET Tokens]
  /\ tried \in [Msgs -> [Tokens -> 0..1]]
  /\ nilCalls \in Nat
  /\ away \in [Msgs -> SUBSET Users]
  /\ wasAway \in [Msgs -> SUBSET Users]
  /\ keeps \in [Msgs -> SUBSET (Tokens \X Users)]
  /\ had \in [Msgs -> SUBSET (Tokens \X Users)]

Recipients(m) == Members \ {sender[m]}

\* A goroutine that came to its end without a database error or a crash has
\* called SendPush for every device that belonged, ever since the message
\* was posted, to a recipient who was offline ever since: no failed call,
\* no connection of somebody else and no change of hands of another device
\* takes a recipient's notification away.
OfflineReached ==
  \A m \in Msgs : stage[m] = "done" =>
    \A t \in Tokens, u \in Recipients(m) \cap away[m] :
      <<t, u>> \in keeps[m] => tried[m][t] = 1

\* Presence and tokens may be stale when they are used, but no older than
\* the message: a device is notified, or picked to be, only if it belonged,
\* at some time since, to a recipient who was offline at some time since.
PushJustified ==
  \A m \in Msgs, t \in Tokens : tried[m][t] > 0 \/ t \in pending[m] =>
    \E u \in Recipients(m) : u \in wasAway[m] /\ <<t, u>> \in had[m]

\* What the log line "apns disabled" of main.go says: without a sender the
\* server goes on without push notifications.
DisabledIsHarmless == nilCalls = 0
=============================================================================
