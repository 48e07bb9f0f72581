------------------------------ MODULE Accounts ------------------------------
(***************************************************************************)
(* Users, their phones, their sessions and their profiles.  A handler runs *)
(* one statement per step, so that requests of the same user and of users  *)
(* who hand a phone to each other interleave.  Registration is an INSERT   *)
(* (its variant with a code is PhoneVerification), a login is a look-up    *)
(* and an insertion, an update of the profile a token check, an UPDATE and *)
(* a SELECT, and the answer is a step of its own.  A statement may commit  *)
(* and only its answer be lost, and the process may die between any two    *)
(* steps.  A password is known by whose it is: nobody changes his.         *)
(* Requests that fail before they change or answer anything are no steps.  *)
(***************************************************************************)
EXTENDS Naturals, Sequences, FiniteSets

CONSTANTS
  Handlers,    \* handlers of requests and connections
  Names,       \* usernames
  Lines,       \* telephone lines, the last ten digits of a number
  TtlHours,    \* TOKEN_TTL_HOURS, 0 if it is absent or no number
  MaxTime,     \* bound of the model: the clock
  MaxWrites,   \* bound of the model: statements that write users
  MaxFaults,   \* bound of the model: database errors
  MaxCrashes   \* bound of the model: crashes

\* No overflow: the setting is below 2^63 nanoseconds.
ASSUME AccountsAssumption ==
  /\ IsFiniteSet(Handlers)
  /\ TtlHours \in Nat
  /\ MaxTime \in Nat
  /\ MaxWrites \in Nat
  /\ MaxFaults \in Nat
  /\ MaxCrashes \in Nat

-----------------------------------------------------------------------------
(* Telephone numbers.                                                      *)

\* The digits of an input: what precedes the line, or not ten digits after it.
Leads == {"none", "7", "8", "other", "wrong length"}
Inputs == [lead : Leads, line : Lines]

NULL == [lead |-> "null"]
Invalid == [lead |-> "invalid"]

\* Mutant: the digits as they come.
AsTyped(i) == IF i.lead = "wrong length" THEN Invalid ELSE i

\* normalizeRUPhone.
Normalize(i) ==
  IF i.lead \in {"none", "7", "8"} THEN [lead |-> "7", line |-> i.line] ELSE Invalid

\* What the columns may hold as far as their types go.
Texts == Inputs \cup {NULL}
Values == Texts \cup [lead : {"name"}, write : Nat]

-----------------------------------------------------------------------------
Fields == {"phone", "name"}

\* The setting as config.Load takes it, in units of the model's clock.
TTL == IF TtlHours > 0 THEN TtlHours ELSE 24

VARIABLES
  users,     \* usernames of the rows of users
  row,       \* the optional columns of each, by field
  log,       \* auxiliary: the statements that wrote users
  sessions,  \* rows of sessions
  now,       \* the clock
  job,       \* what each handler is at
  answered,  \* auxiliary: statements whose request was answered with success
  denied,    \* auxiliary: those whose request was answered with an error
  faults,    \* errors so far
  crashes    \* crashes so far

tables == <<users, row, log, sessions>>
heard  == <<answered, denied>>
vars   == <<tables, now, job, heard, faults, crashes>>

Idle == [at |-> "idle"]

Init ==
  /\ users = {}
  /\ row = [u \in Names |-> [f \in Fields |-> NULL]]
  /\ log = <<>>
  /\ sessions = {}
  /\ now = 0
  /\ job = [h \in Handlers |-> Idle]
  /\ answered = {}
  /\ denied = {}
  /\ faults = 0
  /\ crashes = 0

Goto(h, from, to) == job[h].at = from /\ job' = [job EXCEPT ![h] = to]

Fault == faults < MaxFaults /\ faults' = faults + 1

Tick ==
  /\ now < MaxTime
  /\ now' = now + 1
  /\ UNCHANGED <<tables, job, heard, faults, crashes>>

-----------------------------------------------------------------------------
(* Statements on users.                                                    *)

\* The unique constraint users_phone_key; NULLs do not conflict.
PhoneFree(p, u) == p = NULL \/ \A v \in users \ {u} : row[v]["phone"] # p

\* A statement sets fields of u to the values of change.
Record(u, change) ==
  /\ Len(log) < MaxWrites
  /\ log' = Append(log, [user |-> u, change |-> change])

\* CreateUser: the INSERT commits.  If its answer is lost the client is told
\* "registration failed".
Register(h, u, p) ==
  /\ u \notin users
  /\ p = NULL \/ \E i \in Inputs : p = Normalize(i)
  /\ p # Invalid
  /\ PhoneFree(p, u)
  /\ users' = users \cup {u}
  /\ row' = [row EXCEPT ![u]["phone"] = p]
  /\ Record(u, [f \in {"phone"} |-> p])
  /\ \/ /\ Goto(h, "idle", [at |-> "created", user |-> u, write |-> Len(log) + 1])
        /\ UNCHANGED <<denied, faults>>
     \/ /\ Goto(h, "idle", Idle)
        /\ Fault
        /\ denied' = denied \cup {Len(log) + 1}
  /\ UNCHANGED <<sessions, now, answered, crashes>>

-----------------------------------------------------------------------------
(* Login and LoginByPhone.                                                 *)

Opening(u) == [at |-> "opening", user |-> u, expires |-> now + TTL]

\* The query has found the user, and the password, that of u, is his.
LookUp(h, found, u) ==
  /\ u \in found
  /\ Goto(h, "idle", Opening(u))
  /\ UNCHANGED <<tables, now, heard, faults, crashes>>

\* GetUserByUsername.
UsersNamed(n) == users \cap {n}

\* GetUserByPhone.
OwnersOf(p) == {u \in users : row[u]["phone"] = p}

LoginByName(h, u) == \E n \in Names : LookUp(h, UsersNamed(n), u)

LoginByPhone(h, u) ==
  \E i \in Inputs : Normalize(i) # Invalid /\ LookUp(h, OwnersOf(Normalize(i)), u)

InsertSession(h) ==
  sessions' = sessions \cup {[user |-> job[h].user, expires |-> job[h].expires]}

CreateSession(h) ==
  /\ Goto(h, "opening", Idle)
  /\ InsertSession(h)
  /\ UNCHANGED <<users, row, log, now, heard, faults, crashes>>

\* An error, or only the answer is lost: then nobody has the token.
CreateSessionError(h) ==
  /\ Goto(h, "opening", Idle)
  /\ Fault
  /\ InsertSession(h) \/ UNCHANGED sessions
  /\ UNCHANGED <<users, row, log, now, heard, crashes>>

-----------------------------------------------------------------------------
(* RequireAuth, HandleMe and the websockets.                               *)

Authenticate(h) ==
  /\ \E t \in sessions :
       /\ t.expires > now
       /\ Goto(h, "idle", [at |-> "admitted", user |-> t.user])
  /\ UNCHANGED <<tables, now, heard, faults, crashes>>

\* registerClient: from here on nobody looks at the session again.
Connect(h) ==
  /\ Goto(h, "admitted", [at |-> "connected", user |-> job[h].user])
  /\ UNCHANGED <<tables, now, heard, faults, crashes>>

Disconnect(h) ==
  /\ Goto(h, "connected", Idle)
  /\ UNCHANGED <<tables, now, heard, faults, crashes>>

\* Mutant: the error of normalizeRUPhone is ignored.
ChangesUnchecked == [{"phone"} -> {NULL} \cup {Normalize(i) : i \in Inputs}]

\* parseUserUpdate: a field is left out, or null or blank, or has a value;
\* an update without a field is refused.  The value of a name stands for the
\* statement that sets it.
Changes ==
  LET phones == {NULL} \cup ({Normalize(i) : i \in Inputs} \ {Invalid})
      names  == {NULL, [lead |-> "name", write |-> Len(log) + 1]}
  IN [{"phone"} -> phones] \cup [{"name"} -> names]
       \cup {[f \in Fields |-> IF f = "phone" THEN p ELSE n] : p \in phones, n \in names}

\* Mutant: the fields that are left out become NULL.
ChangedToBlank(u, change) == [f \in Fields |-> IF f \in DOMAIN change THEN change[f] ELSE NULL]

\* The row of u after the change: the other columns are left alone.
Changed(u, change) == [f \in Fields |-> IF f \in DOMAIN change THEN change[f] ELSE row[u][f]]

\* The UPDATE, for a phone that is free.
Update(u, change) ==
  /\ "phone" \in DOMAIN change => PhoneFree(change["phone"], u)
  /\ row' = [row EXCEPT ![u] = Changed(u, change)]
  /\ Record(u, change)

UpdateUser(h) ==
  /\ Goto(h, "admitted", [at |-> "reading", user |-> job[h].user, write |-> Len(log) + 1])
  /\ \E change \in Changes : Update(job[h].user, change)
  /\ UNCHANGED <<users, sessions, now, heard, faults, crashes>>

\* Mutant: a statement per field, the phone last.
UpdateErrorPartly(h) ==
  /\ Goto(h, "admitted", Idle)
  /\ \E change \in Changes :
       /\ DOMAIN change = Fields
       /\ ~PhoneFree(change["phone"], job[h].user)
       /\ Update(job[h].user, [f \in {"name"} |-> change[f]])
  /\ UNCHANGED <<users, sessions, now, heard, faults, crashes>>

\* ErrPhoneTaken, an error, or only its answer is lost.
UpdateError(h) ==
  /\ Goto(h, "admitted", Idle)
  /\ \/ /\ \E change \in Changes :
             /\ "phone" \in DOMAIN change
             /\ ~PhoneFree(change["phone"], job[h].user)
        /\ UNCHANGED <<row, log, denied, faults>>
     \/ Fault /\ UNCHANGED <<row, log, denied>>
     \/ /\ Fault
        /\ \E change \in Changes : Update(job[h].user, change)
        /\ denied' = denied \cup {Len(log) + 1}
  /\ UNCHANGED <<users, sessions, now, answered, crashes>>

\* The row of the user is read for the answer.
ReadBack(h) ==
  /\ Goto(h, "reading", [at    |-> "answering", user |-> job[h].user,
                         write |-> job[h].write, row |-> row[job[h].user]])
  /\ UNCHANGED <<tables, now, heard, faults, crashes>>

\* It fails, and "update failed" is answered.
ReadBackError(h) ==
  /\ Fault
  /\ Goto(h, "reading", Idle)
  /\ denied' = denied \cup {job[h].write}
  /\ UNCHANGED <<tables, now, answered, crashes>>

\* The new user, or the profile that was read, is written to the client.
Answer(h) ==
  /\ \E stage \in {"created", "answering"} : Goto(h, stage, Idle)
  /\ answered' = answered \cup {job[h].write}
  /\ UNCHANGED <<tables, now, denied, faults, crashes>>

-----------------------------------------------------------------------------
\* The process dies, and with it every request and every connection; the
\* tables stay.  A statement that commits as it dies is the step of the
\* statement followed by this one.
Crash ==
  /\ crashes < MaxCrashes
  /\ crashes' = crashes + 1
  /\ \E h \in Handlers : job[h] # Idle
  /\ job' = [h \in Handlers |-> Idle]
  /\ UNCHANGED <<tables, now, heard, faults>>

Step(h) ==
  \/ \E u \in Names, p \in Texts : Register(h, u, p)
  \/ \E u \in Names : LoginByName(h, u) \/ LoginByPhone(h, u)
  \/ CreateSession(h) \/ CreateSessionError(h)
  \/ Authenticate(h) \/ Connect(h) \/ Disconnect(h)
  \/ UpdateUser(h) \/ UpdateError(h) \/ ReadBack(h) \/ ReadBackError(h) \/ Answer(h)

Next ==
  \/ \E h \in Handlers : Step(h)
  \/ Tick
  \/ Crash

Spec == Init /\ [][Next]_vars

-----------------------------------------------------------------------------
Sessions == [user : Names, expires : Nat]

Jobs ==
  {Idle}
    \cup [at : {"opening"}, user : Names, expires : Nat]
    \cup [at : {"admitted", "connected"}, user : Names]
    \cup [at : {"created", "reading"}, user : Names, write : Nat]
    \cup [at : {"answering"}, user : Names, write : Nat, row : [Fields -> Values]]

Settings == [{"phone"} -> Values] \cup [{"name"} -> Values] \cup [Fields -> Values]
Entries == [user : Names, change : Settings]

\* Every variable has its type.
TypeOK ==
  /\ users \subseteq Names
  /\ row \in [Names -> [Fields -> Values]]
  /\ log \in Seq(Entries)
  /\ \A k \in 1..Len(log) : log[k].user \in users
  /\ sessions \subseteq Sessions
  /\ now \in Nat
  /\ job \in [Handlers -> Jobs]
  /\ answered \cup denied \subseteq 1..Len(log)
  /\ faults \in Nat
  /\ crashes \in Nat

\* A telephone line has one account, and each form in which a user may type
\* the number leads to it, whoever wrote the column: a registration, a
\* registration with a code or an update of the profile.
OneOwner ==
  \A u \in users : row[u]["phone"] # NULL =>
    \A i \in Inputs :
      i.line = row[u]["phone"].line /\ Normalize(i) # Invalid
        => OwnersOf(Normalize(i)) = {u}

\* The statement k sets field f of u to v.
Sets(k, u, f, v) ==
  /\ log[k].user = u
  /\ f \in DOMAIN log[k].change
  /\ log[k].change[f] = v

\* Requests that change different fields of one profile do not undo each
\* other: a field has the value of the last statement that set it.
NoUpdateLost ==
  \A u \in users, f \in Fields :
    \/ \E k \in 1..Len(log) :
         /\ Sets(k, u, f, row[u][f])
         /\ \A j \in k+1..Len(log) : log[j].user = u => f \notin DOMAIN log[j].change
    \/ /\ row[u][f] = NULL
       /\ \A k \in 1..Len(log) : log[k].user = u => f \notin DOMAIN log[k].change

\* The answer to an update is read by a statement of its own, yet it shows
\* what the update set, or what a later update of the same user did.
AnswerCovers ==
  \A h \in Handlers : job[h].at = "answering" =>
    \A f \in DOMAIN log[job[h].write].change :
      \E k \in job[h].write..Len(log) : Sets(k, job[h].user, f, job[h].row[f])

\* The statements that a request in service is to answer for.
Owing == {h \in Handlers : job[h].at \in {"created", "reading", "answering"}}
InHand == {job[h].write : h \in Owing}

\* The statements of requests that the process took with it.
Unheard == 1..Len(log) \ (answered \cup denied \cup InHand)

\* What a client is told is what the table has, but for errors and crashes of
\* which there are enough: no statement is answered twice, or with both
\* success and an error; one that is denied, though it changed the table, is
\* paid for by a database error of its own, a conflict leaving no part of an
\* update behind; and one that nobody will hear of by a crash, which leaves
\* no more of them than there were requests in service.
ChangesAccounted ==
  /\ answered \cap (denied \cup InHand) = {}
  /\ denied \cap InHand = {}
  /\ Cardinality(denied) <= faults
  /\ Cardinality(Unheard) <= crashes * Cardinality(Handlers)
=============================================================================
