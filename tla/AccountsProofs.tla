--------------------------- MODULE AccountsProofs ---------------------------
(***************************************************************************)
(* Proofs about Accounts, for any finite number of handlers and any users, *)
(* telephone lines, statements, errors and crashes.                        *)
(***************************************************************************)
EXTENDS Accounts, SequenceTheorems, FiniteSetTheorems, TLAPS

\* What normalizeRUPhone lets into the column.
Formatted(p) == p = NULL \/ \E l \in Lines : p = [lead |-> "7", line |-> l]

\* The column of phones, and the rows of those who have not registered.
PhonesInv ==
  /\ \A u \in users : Formatted(row[u]["phone"])
  /\ \A u, v \in users : u # v /\ row[u]["phone"] = row[v]["phone"] => row[u]["phone"] = NULL
  /\ \A u \in Names \ users, f \in Fields : row[u][f] = NULL

\* f of u has the value of the last statement that set it, or none did.
Kept(u, f) ==
  \/ \E k \in 1..Len(log) :
       /\ Sets(k, u, f, row[u][f])
       /\ \A j \in k+1..Len(log) : log[j].user = u => f \notin DOMAIN log[j].change
  \/ /\ row[u][f] = NULL
     /\ \A k \in 1..Len(log) : log[k].user = u => f \notin DOMAIN log[k].change

\* A job and a session are those of a registered user.
ActorOK(j) == j.at # "idle" => j.user \in users
SessionsOwned == \A t \in sessions : t.user \in users

\* The stages of a request that has a statement to answer for.
OwingStages == {"created", "reading", "answering"}

\* The statement that a job is to answer for is one of its user, and what
\* was read covers it.
WriteOK(j) ==
  /\ j.at \in OwingStages => j.write \in 1..Len(log) /\ log[j.write].user = j.user
  /\ j.at = "answering" =>
       \A f \in DOMAIN log[j.write].change :
         \E k \in j.write..Len(log) : Sets(k, j.user, f, j.row[f])

\* No two jobs are to answer for the same statement.
OwnWrites ==
  \A h, g \in Handlers :
    job[h].at \in OwingStages /\ job[g].at \in OwingStages /\ h # g =>
      job[h].write # job[g].write

AccountsInv ==
  /\ TypeOK
  /\ PhonesInv
  /\ \A u \in users, f \in Fields : Kept(u, f)
  /\ SessionsOwned
  /\ \A h \in Handlers : ActorOK(job[h]) /\ WriteOK(job[h])
  /\ OwnWrites
  /\ ChangesAccounted

-----------------------------------------------------------------------------
(* Values and jobs.                                                        *)

LEMMA NormalForm ==
  ASSUME NEW i \in Inputs
  PROVE  \/ Normalize(i) = Invalid
         \/ Normalize(i) = [lead |-> "7", line |-> i.line] /\ i.line \in Lines
BY DEF Normalize, Inputs

LEMMA FormattedTyped ==
  ASSUME NEW p, Formatted(p)
  PROVE  p \in Values
<1>1. CASE p = NULL
  BY <1>1 DEF Values, Texts
<1>2. ASSUME NEW l \in Lines, p = [lead |-> "7", line |-> l] PROVE p \in Values
  <2>1. p \in Inputs
    BY <1>2 DEF Inputs, Leads
  <2> QED BY <2>1 DEF Values, Texts
<1> QED BY <1>1, <1>2 DEF Formatted

LEMMA NormalFormatted ==
  ASSUME NEW i \in Inputs, Normalize(i) # Invalid
  PROVE  Formatted(Normalize(i))
BY NormalForm DEF Formatted

\* What an update may set.
LEMMA ChangesTyped ==
  ASSUME log \in Seq(Entries), NEW change \in Changes
  PROVE  /\ change \in Settings
         /\ "phone" \in DOMAIN change => Formatted(change["phone"])
<1> DEFINE phones == {NULL} \cup ({Normalize(i) : i \in Inputs} \ {Invalid})
           names  == {NULL, [lead |-> "name", write |-> Len(log) + 1]}
<1>1. \A p \in phones : Formatted(p) /\ p \in Values
  BY NormalFormatted, FormattedTyped DEF Formatted
<1>2. names \subseteq Values
  <2>1. Len(log) + 1 \in Nat
    OBVIOUS
  <2> QED BY <2>1 DEF Values, Texts
<1>3. \/ change \in [{"phone"} -> phones]
      \/ change \in [{"name"} -> names]
      \/ \E p \in phones, n \in names :
           change = [f \in Fields |-> IF f = "phone" THEN p ELSE n]
  BY DEF Changes
<1> HIDE DEF phones, names
<1>4. CASE change \in [{"phone"} -> phones]
  BY <1>1, <1>4 DEF Settings
<1>5. CASE change \in [{"name"} -> names]
  BY <1>2, <1>5 DEF Settings
<1>6. ASSUME NEW p \in phones, NEW n \in names,
             change = [f \in Fields |-> IF f = "phone" THEN p ELSE n]
      PROVE  change \in [Fields -> Values] /\ Formatted(change["phone"])
  BY <1>1, <1>2, <1>6 DEF Fields
<1> QED BY <1>3, <1>4, <1>5, <1>6 DEF Settings

LEMMA SettingsDomain ==
  ASSUME NEW change \in Settings
  PROVE  /\ DOMAIN change \subseteq Fields
         /\ \A f \in DOMAIN change : change[f] \in Values
BY DEF Settings, Fields

LEMMA ChangedTyped ==
  ASSUME TypeOK, NEW u \in Names, NEW change \in Settings
  PROVE  Changed(u, change) \in [Fields -> Values]
BY SettingsDomain DEF Changed, TypeOK

\* The kinds of jobs, told apart by their stage.
LEMMA JobKinds ==
  ASSUME NEW j \in Jobs
  PROVE  /\ j.at = "idle" <=> j = Idle
         /\ j.at # "idle" => j.user \in Names
         /\ j.at = "opening" => j.expires \in Nat
         /\ j.at \in OwingStages => j.write \in Nat
         /\ j.at = "answering" => j.row \in [Fields -> Values]
BY DEF Jobs, Idle, OwingStages

LEMMA GotoJob ==
  ASSUME TypeOK, NEW h \in Handlers, NEW from, NEW to, Goto(h, from, to)
  PROVE  /\ job[h].at = from /\ job[h] \in Jobs
         /\ job'[h] = to
         /\ \A g \in Handlers \ {h} : job'[g] = job[g]
         /\ to \in Jobs => job' \in [Handlers -> Jobs]
BY DEF Goto, TypeOK
-----------------------------------------------------------------------------
(* Statements that write users.                                            *)

\* A statement that sets change for u, who may be new.
Writes(u, change) ==
  /\ change \in Settings
  /\ "phone" \in DOMAIN change => Formatted(change["phone"]) /\ PhoneFree(change["phone"], u)
  /\ users' = users \cup {u}
  /\ row' = [row EXCEPT ![u] = Changed(u, change)]
  /\ log' = Append(log, [user |-> u, change |-> change])

LEMMA RegisterWrites ==
  ASSUME TypeOK, NEW h \in Handlers, NEW u \in Names, NEW p \in Texts, Register(h, u, p)
  PROVE  Writes(u, [f \in {"phone"} |-> p])
<1> DEFINE c == [f \in {"phone"} |-> p]
<1>1. Formatted(p) /\ p \in Values
  <2>1. Formatted(p)
    BY NormalFormatted DEF Register, Formatted
  <2> QED BY <2>1, FormattedTyped
<1>2. c \in Settings /\ DOMAIN c = {"phone"} /\ c["phone"] = p
  BY <1>1 DEF Settings
<1>3. row' = [row EXCEPT ![u] = Changed(u, c)]
  <2>1. row[u] \in [Fields -> Values] /\ row \in [Names -> [Fields -> Values]]
    BY DEF TypeOK
  <2>2. [row[u] EXCEPT !["phone"] = p] = Changed(u, c)
    BY <2>1, <1>2 DEF Changed, Fields
  <2>3. row' = [row EXCEPT ![u] = [row[u] EXCEPT !["phone"] = p]]
    BY DEF Register
  <2> QED BY <2>2, <2>3
<1> QED BY <1>1, <1>2, <1>3 DEF Register, Record, Writes

LEMMA UpdateWrites ==
  ASSUME TypeOK, NEW u \in users, NEW change \in Changes, Update(u, change),
         users' = users
  PROVE  Writes(u, change)
BY ChangesTyped DEF Update, Record, Writes, TypeOK

LEMMA WritesLog ==
  ASSUME TypeOK, NEW u \in Names, NEW change, Writes(u, change)
  PROVE  /\ Len(log) \in Nat /\ Len(log') = Len(log) + 1
         /\ \A k \in 1..Len(log) : log'[k] = log[k]
         /\ log'[Len(log) + 1] = [user |-> u, change |-> change]
         /\ log' \in Seq(Entries)
         /\ 1..Len(log') = 1..Len(log) \cup {Len(log) + 1}
         /\ Len(log)' = Len(log')
<1>1. log \in Seq(Entries) /\ [user |-> u, change |-> change] \in Entries
  BY DEF TypeOK, Writes, Entries
<1>2. log' = Append(log, [user |-> u, change |-> change])
  BY DEF Writes
<1>3. /\ Len(log) \in Nat /\ Len(log') = Len(log) + 1
      /\ \A k \in 1..Len(log) : log'[k] = log[k]
      /\ log'[Len(log) + 1] = [user |-> u, change |-> change]
      /\ log' \in Seq(Entries)
  BY <1>1, <1>2
<1> QED BY <1>3

LEMMA WritesRow ==
  ASSUME TypeOK, NEW u \in Names, NEW change, Writes(u, change)
  PROVE  /\ row' \in [Names -> [Fields -> Values]]
         /\ \A v \in Names \ {u} : row'[v] = row[v]
         /\ DOMAIN change \subseteq Fields
         /\ \A f \in DOMAIN change : row'[u][f] = change[f]
         /\ \A f \in Fields \ DOMAIN change : row'[u][f] = row[u][f]
<1>1. Changed(u, change) \in [Fields -> Values] /\ DOMAIN change \subseteq Fields
  BY ChangedTyped, SettingsDomain DEF Writes
<1>2. row' = [row EXCEPT ![u] = Changed(u, change)] /\ row \in [Names -> [Fields -> Values]]
  BY DEF TypeOK, Writes
<1>3. row'[u] = Changed(u, change)
  BY <1>2
<1> QED BY <1>1, <1>2, <1>3 DEF Changed

LEMMA WritesPhones ==
  ASSUME TypeOK, PhonesInv, NEW u \in Names, NEW change, Writes(u, change)
  PROVE  PhonesInv'
<1>1. /\ users \subseteq Names /\ users' = users \cup {u} /\ "phone" \in Fields
      /\ \A v \in Names \ {u} : row'[v] = row[v]
      /\ "phone" \in DOMAIN change =>
           /\ row'[u]["phone"] = change["phone"]
           /\ Formatted(change["phone"]) /\ PhoneFree(change["phone"], u)
      /\ "phone" \notin DOMAIN change => row'[u]["phone"] = row[u]["phone"]
  <2>1. /\ \A v \in Names \ {u} : row'[v] = row[v]
        /\ \A f \in DOMAIN change : row'[u][f] = change[f]
        /\ \A f \in Fields \ DOMAIN change : row'[u][f] = row[u][f]
    BY WritesRow
  <2>2. users \subseteq Names /\ "phone" \in Fields
    BY DEF TypeOK, Fields
  <2>3. /\ users' = users \cup {u}
        /\ "phone" \in DOMAIN change =>
             Formatted(change["phone"]) /\ PhoneFree(change["phone"], u)
    BY DEF Writes
  <2> QED BY <2>1, <2>2, <2>3
<1>2. /\ Formatted(row'[u]["phone"])
      /\ \A v \in users \ {u} : row'[u]["phone"] = row[v]["phone"] => row[v]["phone"] = NULL
  <2>1. CASE "phone" \in DOMAIN change
    BY <1>1, <2>1 DEF PhoneFree
  <2>2. CASE "phone" \notin DOMAIN change
    <3>1. CASE u \in users
      BY <1>1, <2>2, <3>1 DEF PhonesInv
    <3>2. CASE u \notin users
      <4>1. row[u]["phone"] = NULL
        BY <1>1, <3>2 DEF PhonesInv
      <4> QED BY <1>1, <2>2, <4>1 DEF Formatted
    <3> QED BY <3>1, <3>2
  <2> QED BY <2>1, <2>2
<1>3. \A v \in users' : Formatted(row'[v]["phone"])
  BY <1>1, <1>2 DEF PhonesInv
<1>4. \A v, w \in users' :
        v # w /\ row'[v]["phone"] = row'[w]["phone"] => row'[v]["phone"] = NULL
  BY <1>1, <1>2 DEF PhonesInv
<1>5. \A v \in Names \ users', f \in Fields : row'[v][f] = NULL
  BY <1>1 DEF PhonesInv
<1> QED BY <1>3, <1>4, <1>5 DEF PhonesInv

LEMMA WritesKept ==
  ASSUME TypeOK, PhonesInv, NEW u \in Names, NEW change, Writes(u, change),
         \A v \in users, f \in Fields : Kept(v, f),
         NEW v \in users', NEW f \in Fields
  PROVE  Kept(v, f)'
<1> DEFINE n == Len(log) + 1
<1>0. /\ Len(log) \in Nat /\ Len(log') = n /\ n \in 1..n
      /\ \A k \in 1..Len(log) : log'[k] = log[k] /\ k \in 1..n
      /\ log'[n].user = u /\ log'[n].change = change
      /\ \A j \in 1..n : j = n \/ j \in 1..Len(log)
  <2>1. /\ Len(log) \in Nat /\ Len(log') = n
        /\ \A k \in 1..Len(log) : log'[k] = log[k]
        /\ log'[n] = [user |-> u, change |-> change]
    BY WritesLog
  <2> QED BY <2>1
<1>r. /\ \A w \in Names \ {u} : row'[w] = row[w]
      /\ f \in DOMAIN change => row'[u][f] = change[f]
      /\ f \notin DOMAIN change => row'[u][f] = row[u][f]
  BY WritesRow
<1>v. v \in Names /\ users' = users \cup {u}
  BY DEF TypeOK, Writes
<1>1. CASE v = u /\ f \in DOMAIN change
  <2>1. log'[n].user = v /\ f \in DOMAIN log'[n].change /\ log'[n].change[f] = row'[v][f]
    BY <1>0, <1>r, <1>1
  <2>2. n+1..n = {}
    BY <1>0
  <2> QED BY <1>0, <2>1, <2>2 DEF Kept, Sets
<1>2. CASE v # u \/ f \notin DOMAIN change
  <2>1. row'[v][f] = row[v][f]
    BY <1>r, <1>v, <1>2
  <2>2. log'[n].user = v => f \notin DOMAIN log'[n].change
    BY <1>0, <1>2
  <2>3. CASE v \in users
    <3>1. ASSUME NEW k \in 1..Len(log), Sets(k, v, f, row[v][f]),
                 \A j \in k+1..Len(log) : log[j].user = v => f \notin DOMAIN log[j].change
          PROVE  Kept(v, f)'
      <4>1. k \in 1..n /\ log'[k] = log[k]
        BY <1>0
      <4>2. ASSUME NEW j \in k+1..n, log'[j].user = v PROVE f \notin DOMAIN log'[j].change
        <5>1. CASE j = n
          BY <2>2, <4>2, <5>1
        <5>2. CASE j # n
          <6>1. j \in k+1..Len(log) /\ j \in 1..Len(log)
            BY <1>0, <5>2
          <6> QED BY <1>0, <3>1, <4>2, <6>1
        <5> QED BY <5>1, <5>2
      <4> QED BY <1>0, <2>1, <3>1, <4>1, <4>2 DEF Kept, Sets
    <3>2. ASSUME row[v][f] = NULL,
                 \A k \in 1..Len(log) : log[k].user = v => f \notin DOMAIN log[k].change
          PROVE  Kept(v, f)'
      <4>1. \A k \in 1..n : log'[k].user = v => f \notin DOMAIN log'[k].change
        BY <1>0, <2>2, <3>2
      <4> QED BY <1>0, <2>1, <3>2, <4>1 DEF Kept
    <3>3. Kept(v, f)
      BY <2>3
    <3> QED BY <3>1, <3>2, <3>3 DEF Kept
  <2>4. CASE v \notin users
    <3>1. row'[v][f] = NULL
      BY <1>v, <2>1, <2>4 DEF PhonesInv
    <3>2. \A k \in 1..Len(log) : log[k].user # v
      BY <2>4 DEF TypeOK
    <3>3. \A k \in 1..n : log'[k].user = v => f \notin DOMAIN log'[k].change
      BY <1>0, <2>2, <3>2
    <3> QED BY <1>0, <3>1, <3>3 DEF Kept
  <2> QED BY <2>3, <2>4
<1> QED BY <1>1, <1>2
-----------------------------------------------------------------------------
(* The steps.                                                              *)

LEMMA NextCases ==
  ASSUME [Next]_vars
  PROVE  \/ \E h \in Handlers :
              \/ \E u \in Names, p \in Texts : Register(h, u, p)
              \/ \E u \in Names : LoginByName(h, u) \/ LoginByPhone(h, u)
              \/ CreateSession(h) \/ CreateSessionError(h)
              \/ Authenticate(h) \/ Connect(h) \/ Disconnect(h)
              \/ UpdateUser(h) \/ UpdateError(h) \/ ReadBack(h) \/ ReadBackError(h)
              \/ Answer(h)
         \/ Tick
         \/ Crash
         \/ UNCHANGED vars
BY DEF Next, Step

\* Both logins look a registered user up.
LEMMA LoginCases ==
  ASSUME NEW h \in Handlers, NEW u \in Names, LoginByName(h, u) \/ LoginByPhone(h, u)
  PROVE  /\ u \in users /\ Goto(h, "idle", Opening(u))
         /\ UNCHANGED <<users, row, log, sessions, now, answered, denied, faults, crashes>>
BY DEF LoginByName, LoginByPhone, LookUp, UsersNamed, OwnersOf, tables, heard

\* The statement of UpdateUser or UpdateError is one of a registered user.
LEMMA UpdaterWrites ==
  ASSUME AccountsInv, NEW h \in Handlers, job[h].at = "admitted",
         NEW change \in Changes, Update(job[h].user, change), users' = users
  PROVE  job[h].user \in users /\ job[h].user \in Names /\ Writes(job[h].user, change)
<1>1. TypeOK /\ job[h].user \in users /\ users \subseteq Names
  BY DEF AccountsInv, ActorOK, TypeOK
<1> QED BY <1>1, UpdateWrites

\* A step writes at most one statement.
LEMMA WriteCases ==
  ASSUME AccountsInv, [Next]_vars
  PROVE  \/ UNCHANGED <<users, row, log>>
         \/ \E u \in Names, change \in Settings : Writes(u, change)
<1>0. TypeOK
  BY DEF AccountsInv
<1>1. ASSUME NEW h \in Handlers, NEW u \in Names, NEW p \in Texts, Register(h, u, p)
      PROVE  \E change \in Settings : Writes(u, change)
  BY <1>0, <1>1, RegisterWrites DEF Writes
<1>2. ASSUME NEW h \in Handlers, UpdateUser(h)
      PROVE  \E u \in Names, change \in Settings : Writes(u, change)
  <2>1. PICK change \in Changes : Update(job[h].user, change)
    BY <1>2 DEF UpdateUser
  <2>2. job[h].at = "admitted" /\ users' = users
    BY <1>2 DEF UpdateUser, Goto
  <2>3. job[h].user \in Names /\ Writes(job[h].user, change)
    BY <2>1, <2>2, UpdaterWrites
  <2> QED BY <2>3 DEF Writes
<1>3. ASSUME NEW h \in Handlers, UpdateError(h)
      PROVE  \/ UNCHANGED <<users, row, log>>
             \/ \E u \in Names, change \in Settings : Writes(u, change)
  <2>1. job[h].at = "admitted" /\ users' = users
    BY <1>3 DEF UpdateError, Goto
  <2>2. \/ UNCHANGED <<row, log>>
        \/ \E change \in Changes : Update(job[h].user, change)
    BY <1>3 DEF UpdateError
  <2>3. ASSUME NEW change \in Changes, Update(job[h].user, change)
        PROVE  \E u \in Names, c \in Settings : Writes(u, c)
    <3>1. job[h].user \in Names /\ Writes(job[h].user, change)
      BY <2>1, <2>3, UpdaterWrites
    <3> QED BY <3>1 DEF Writes
  <2> QED BY <2>1, <2>2, <2>3
<1>4. ASSUME NEW h \in Handlers, NEW s \in Names, LoginByName(h, s) \/ LoginByPhone(h, s)
      PROVE  UNCHANGED <<users, row, log>>
  BY <1>4, LoginCases
<1>5. ASSUME NEW h \in Handlers,
             \/ CreateSession(h) \/ CreateSessionError(h) \/ Authenticate(h)
             \/ Connect(h) \/ Disconnect(h)
             \/ ReadBack(h) \/ ReadBackError(h) \/ Answer(h)
      PROVE  UNCHANGED <<users, row, log>>
  BY <1>5 DEF CreateSession, CreateSessionError, Authenticate, Connect, Disconnect,
              ReadBack, ReadBackError, Answer, tables
<1>6. CASE Tick \/ Crash \/ UNCHANGED vars
  BY <1>6 DEF Tick, Crash, vars, tables
<1> QED BY <1>1, <1>2, <1>3, <1>4, <1>5, <1>6, NextCases

\* Users, statements and sessions are only added.
LEMMA Grows ==
  ASSUME AccountsInv, [Next]_vars
  PROVE  /\ users \subseteq users' /\ users' \subseteq Names
         /\ sessions \subseteq sessions'
         /\ log' \in Seq(Entries) /\ Len(log) \in Nat /\ Len(log') \in Nat
         /\ Len(log) <= Len(log')
         /\ \A k \in 1..Len(log) : k \in 1..Len(log') /\ log'[k] = log[k]
         /\ row' \in [Names -> [Fields -> Values]]
         /\ \A k \in 1..Len(log') : log'[k].user \in users'
<1>0. TypeOK
  BY DEF AccountsInv
<1>1. sessions \subseteq sessions'
  <2>1. ASSUME NEW h \in Handlers, CreateSession(h) \/ CreateSessionError(h)
        PROVE  sessions \subseteq sessions'
    BY <2>1 DEF CreateSession, CreateSessionError, InsertSession
  <2>2. ASSUME NEW h \in Handlers, NEW s \in Names, LoginByName(h, s) \/ LoginByPhone(h, s)
        PROVE  sessions \subseteq sessions'
    BY <2>2, LoginCases
  <2>3. ASSUME NEW h \in Handlers,
               \/ Authenticate(h) \/ Connect(h) \/ Disconnect(h) \/ UpdateUser(h)
               \/ UpdateError(h) \/ ReadBack(h) \/ ReadBackError(h) \/ Answer(h)
        PROVE  sessions \subseteq sessions'
    BY <2>3 DEF Authenticate, Connect, Disconnect, UpdateUser, UpdateError, ReadBack,
                ReadBackError, Answer, tables
  <2>4. ASSUME NEW h \in Handlers, NEW u \in Names, NEW p \in Texts, Register(h, u, p)
        PROVE  sessions \subseteq sessions'
    BY <2>4 DEF Register
  <2>5. CASE Tick \/ Crash \/ UNCHANGED vars
    BY <2>5 DEF Tick, Crash, vars, tables
  <2> QED BY <2>1, <2>2, <2>3, <2>4, <2>5, NextCases
<1>2. CASE UNCHANGED <<users, row, log>>
  BY <1>0, <1>1, <1>2 DEF TypeOK
<1>3. ASSUME NEW u \in Names, NEW change \in Settings, Writes(u, change)
      PROVE  /\ users \subseteq users' /\ users' \subseteq Names
             /\ log' \in Seq(Entries) /\ Len(log) \in Nat /\ Len(log') \in Nat
             /\ Len(log) <= Len(log')
             /\ \A k \in 1..Len(log) : k \in 1..Len(log') /\ log'[k] = log[k]
             /\ row' \in [Names -> [Fields -> Values]]
             /\ \A k \in 1..Len(log') : log'[k].user \in users'
  <2>1. users' = users \cup {u} /\ users \subseteq Names
    BY <1>0, <1>3 DEF TypeOK, Writes
  <2>2. /\ Len(log) \in Nat /\ Len(log') = Len(log) + 1
        /\ \A k \in 1..Len(log) : log'[k] = log[k]
        /\ log'[Len(log) + 1] = [user |-> u, change |-> change]
        /\ log' \in Seq(Entries)
    BY <1>0, <1>3, WritesLog
  <2>3. row' \in [Names -> [Fields -> Values]]
    BY <1>0, <1>3, WritesRow
  <2>4. ASSUME NEW k \in 1..Len(log') PROVE log'[k].user \in users'
    <3>1. CASE k = Len(log) + 1
      BY <2>1, <2>2, <3>1
    <3>2. CASE k # Len(log) + 1
      <4>1. k \in 1..Len(log)
        BY <2>2, <3>2
      <4>2. log[k].user \in users
        BY <1>0, <4>1 DEF TypeOK
      <4> QED BY <2>1, <2>2, <4>1, <4>2
    <3> QED BY <3>1, <3>2
  <2>5. \A k \in 1..Len(log) : k \in 1..Len(log')
    BY <2>2
  <2> QED BY <2>1, <2>2, <2>3, <2>4, <2>5
<1> QED BY <1>1, <1>2, <1>3, WriteCases

LEMMA StateStep ==
  ASSUME AccountsInv, [Next]_vars
  PROVE  PhonesInv' /\ \A u \in users', f \in Fields : Kept(u, f)'
<1>0. TypeOK /\ PhonesInv /\ \A u \in users, f \in Fields : Kept(u, f)
  BY DEF AccountsInv
<1>1. CASE UNCHANGED <<users, row, log>>
  BY <1>0, <1>1 DEF PhonesInv, Kept, Sets
<1>2. ASSUME NEW u \in Names, NEW change \in Settings, Writes(u, change)
      PROVE  PhonesInv' /\ \A v \in users', f \in Fields : Kept(v, f)'
  BY <1>0, <1>2, WritesPhones, WritesKept
<1> QED BY <1>1, <1>2, WriteCases
-----------------------------------------------------------------------------
(* The jobs.                                                               *)

\* A step ends every job, keeps every job, or is one of a handler that goes
\* on to something or to nothing.
LEMMA JobCases ==
  ASSUME [Next]_vars
  PROVE  \/ UNCHANGED <<job, sessions>>
         \/ Crash
         \/ \E h \in Handlers :
              \/ \E u \in users : Goto(h, "idle", Opening(u)) /\ sessions' = sessions
              \/ CreateSession(h) \/ CreateSessionError(h)
              \/ Authenticate(h)
              \/ Connect(h)
              \/ \E u \in Names, p \in Texts : Register(h, u, p)
              \/ UpdateUser(h)
              \/ ReadBack(h)
              \/ \E from : Goto(h, from, Idle) /\ sessions' = sessions
<1>1. ASSUME NEW h \in Handlers,
             Disconnect(h) \/ UpdateError(h) \/ ReadBackError(h) \/ Answer(h)
      PROVE  \E from : Goto(h, from, Idle) /\ sessions' = sessions
  BY <1>1 DEF Disconnect, UpdateError, ReadBackError, Answer, tables
<1>2. Tick \/ UNCHANGED vars => UNCHANGED <<job, sessions>>
  BY DEF Tick, vars, tables
<1> QED BY <1>1, <1>2, LoginCases, NextCases

\* A job that goes on unchanged.
LEMMA OldJob ==
  ASSUME AccountsInv, [Next]_vars, NEW h \in Handlers, job'[h] = job[h]
  PROVE  ActorOK(job[h])' /\ WriteOK(job[h])'
<1>0. ActorOK(job[h]) /\ WriteOK(job[h])
  BY DEF AccountsInv
<1>1. ActorOK(job[h])'
  BY <1>0, Grows DEF ActorOK
<1>2. WriteOK(job[h])'
  <2>1. /\ Len(log) \in Nat /\ Len(log') \in Nat /\ Len(log) <= Len(log')
        /\ \A k \in 1..Len(log) : k \in 1..Len(log') /\ log'[k] = log[k]
    BY Grows
  <2>2. job[h].at \in OwingStages =>
          job[h].write \in 1..Len(log') /\ log'[job[h].write] = log[job[h].write]
            /\ log[job[h].write].user = job[h].user /\ job[h].write \in 1..Len(log)
    BY <1>0, <2>1 DEF WriteOK
  <2>3. ASSUME job[h].at = "answering", NEW f \in DOMAIN log[job[h].write].change
        PROVE  \E k \in job[h].write..Len(log') :
                 /\ log'[k].user = job[h].user
                 /\ f \in DOMAIN log'[k].change
                 /\ log'[k].change[f] = job[h].row[f]
    <3>1. PICK k \in job[h].write..Len(log) : Sets(k, job[h].user, f, job[h].row[f])
      BY <1>0, <2>2, <2>3 DEF WriteOK, OwingStages
    <3>2. k \in 1..Len(log) /\ k \in job[h].write..Len(log')
      BY <2>1, <2>2, <2>3 DEF OwingStages
    <3> QED BY <2>1, <3>1, <3>2 DEF Sets
  <2> QED BY <2>2, <2>3 DEF WriteOK, Sets, OwingStages
<1> QED BY <1>1, <1>2

\* What a handler goes on to.
LEMMA NewJob ==
  ASSUME AccountsInv, [Next]_vars, NEW h \in Handlers, job'[h] # job[h]
  PROVE  ActorOK(job[h])' /\ WriteOK(job[h])'
<1>0. /\ TypeOK /\ SessionsOwned /\ ActorOK(job[h]) /\ WriteOK(job[h])
      /\ \A u \in users, f \in Fields : Kept(u, f)
      /\ users \subseteq users' /\ sessions \subseteq sessions'
  BY Grows DEF AccountsInv
<1>1. ASSUME NEW g \in Handlers, NEW from, NEW to, Goto(g, from, to)
      PROVE  h = g /\ job[h].at = from /\ job'[h] = to /\ job[h] \in Jobs
  BY <1>0, <1>1, GotoJob
<1>2. CASE job'[h] = Idle
  BY <1>2 DEF ActorOK, WriteOK, OwingStages, Idle
<1>c. CASE Crash
  BY <1>2, <1>c DEF Crash
<1>3. ASSUME NEW g \in Handlers, NEW u \in users, Goto(g, "idle", Opening(u))
      PROVE  ActorOK(job[h])' /\ WriteOK(job[h])'
  <2>1. job'[h] = Opening(u)
    BY <1>1, <1>3
  <2>2. job'[h].at = "opening" /\ job'[h].user = u
    BY <2>1 DEF Opening
  <2> QED BY <1>0, <1>3, <2>2 DEF ActorOK, WriteOK, OwingStages
<1>4. ASSUME NEW g \in Handlers, Authenticate(g)
      PROVE  ActorOK(job[h])' /\ WriteOK(job[h])'
  <2>1. PICK t \in sessions : Goto(g, "idle", [at |-> "admitted", user |-> t.user])
    BY <1>4 DEF Authenticate
  <2>2. job'[h].at = "admitted" /\ job'[h].user = t.user
    BY <1>1, <2>1
  <2> QED BY <1>0, <2>2 DEF SessionsOwned, ActorOK, WriteOK, OwingStages
<1>5. ASSUME NEW g \in Handlers, Connect(g)
      PROVE  ActorOK(job[h])' /\ WriteOK(job[h])'
  <2>1. /\ h = g /\ job[h].at = "admitted"
        /\ job'[h].at = "connected" /\ job'[h].user = job[h].user
    BY <1>1, <1>5 DEF Connect
  <2> QED BY <1>0, <2>1 DEF ActorOK, WriteOK, OwingStages
<1>w. ASSUME NEW u \in Names, NEW change, Writes(u, change),
             job'[h].at \in {"created", "reading"}, job'[h].user = u,
             job'[h].write = Len(log) + 1
      PROVE  ActorOK(job[h])' /\ WriteOK(job[h])'
  <2>1. /\ Len(log) \in Nat /\ Len(log') = Len(log) + 1
        /\ log'[Len(log) + 1] = [user |-> u, change |-> change]
    BY <1>0, <1>w, WritesLog
  <2>2. job'[h].write \in 1..Len(log') /\ log'[job'[h].write].user = job'[h].user
    BY <1>w, <2>1
  <2>3. u \in users'
    BY <1>w DEF Writes
  <2> QED BY <1>w, <2>2, <2>3 DEF ActorOK, WriteOK
<1>r. ASSUME NEW g \in Handlers, NEW u \in Names, NEW p \in Texts, Register(g, u, p)
      PROVE  ActorOK(job[h])' /\ WriteOK(job[h])'
  <2>1. Writes(u, [f \in {"phone"} |-> p])
    BY <1>0, <1>r, RegisterWrites
  <2>2. CASE Goto(g, "idle", [at |-> "created", user |-> u, write |-> Len(log) + 1])
    <3>1. job'[h].at = "created" /\ job'[h].user = u /\ job'[h].write = Len(log) + 1
      BY <1>1, <2>2
    <3> QED BY <1>w, <2>1, <3>1
  <2>3. CASE Goto(g, "idle", Idle)
    BY <1>1, <1>2, <2>3
  <2> QED BY <1>r, <2>2, <2>3 DEF Register
<1>6. ASSUME NEW g \in Handlers, UpdateUser(g)
      PROVE  ActorOK(job[h])' /\ WriteOK(job[h])'
  <2>1. /\ h = g /\ job[h].at = "admitted" /\ users' = users
        /\ job'[h].at = "reading" /\ job'[h].user = job[h].user
        /\ job'[h].write = Len(log) + 1
    BY <1>1, <1>6 DEF UpdateUser
  <2>2. PICK change \in Changes : Update(job[h].user, change)
    BY <1>6, <2>1 DEF UpdateUser
  <2>3. job[h].user \in Names /\ Writes(job[h].user, change)
    BY <2>1, <2>2, UpdaterWrites
  <2> QED BY <1>w, <2>1, <2>3
<1>7. ASSUME NEW g \in Handlers, ReadBack(g)
      PROVE  ActorOK(job[h])' /\ WriteOK(job[h])'
  <2>1. /\ h = g /\ job[h].at = "reading" /\ job[h] \in Jobs
        /\ job'[h] = [at |-> "answering", user |-> job[h].user,
                      write |-> job[h].write, row |-> row[job[h].user]]
    BY <1>1, <1>7 DEF ReadBack
  <2>2. /\ job'[h].at = "answering" /\ job'[h].user = job[h].user
        /\ job'[h].write = job[h].write /\ job'[h].row = row[job[h].user]
        /\ log' = log /\ users' = users
    BY <1>7, <2>1 DEF ReadBack, tables
  <2>3. /\ job[h].write \in 1..Len(log) /\ log[job[h].write].user = job[h].user
        /\ job[h].user \in users /\ log \in Seq(Entries) /\ Len(log) \in Nat
    BY <1>0, <2>1 DEF WriteOK, ActorOK, TypeOK, OwingStages
  <2>4. ASSUME NEW f \in DOMAIN log[job[h].write].change
        PROVE  \E k \in job[h].write..Len(log) : Sets(k, job[h].user, f, row[job[h].user][f])
    <3>1. f \in Fields
      <4>1. log[job[h].write] \in Entries
        BY <2>3
      <4>2. log[job[h].write].change \in Settings
        BY <4>1 DEF Entries
      <4> QED BY <2>4, <4>2, SettingsDomain
    <3>2. Kept(job[h].user, f)
      BY <1>0, <2>3, <3>1
    <3>3. PICK k \in 1..Len(log) :
            /\ Sets(k, job[h].user, f, row[job[h].user][f])
            /\ \A j \in k+1..Len(log) :
                 log[j].user = job[h].user => f \notin DOMAIN log[j].change
      BY <2>3, <2>4, <3>2 DEF Kept
    <3>4. ~(job[h].write \in k+1..Len(log))
      BY <2>3, <2>4, <3>3
    <3>5. k \in job[h].write..Len(log)
      BY <2>3, <3>4
    <3> QED BY <3>3, <3>5
  <2>5. ActorOK(job[h])'
    BY <2>2, <2>3 DEF ActorOK
  <2>6. WriteOK(job[h])'
    BY <2>2, <2>3, <2>4 DEF WriteOK, Sets
  <2> QED BY <2>5, <2>6
<1>8. ASSUME NEW g \in Handlers, CreateSession(g) \/ CreateSessionError(g)
      PROVE  job'[h] = Idle
  BY <1>1, <1>8 DEF CreateSession, CreateSessionError
<1>9. ASSUME NEW g \in Handlers, NEW from, Goto(g, from, Idle) PROVE job'[h] = Idle
  BY <1>1, <1>9
<1> QED BY <1>2, <1>c, <1>3, <1>4, <1>5, <1>r, <1>6, <1>7, <1>8, <1>9, JobCases

LEMMA SessionsStep ==
  ASSUME AccountsInv, [Next]_vars
  PROVE  SessionsOwned' /\ sessions' \subseteq Sessions
<1>0. TypeOK /\ SessionsOwned /\ users \subseteq users'
  BY Grows DEF AccountsInv
<1>1. CASE sessions' = sessions
  BY <1>0, <1>1 DEF SessionsOwned, TypeOK
<1>2. ASSUME NEW h \in Handlers, job[h].at = "opening", InsertSession(h)
      PROVE  SessionsOwned' /\ sessions' \subseteq Sessions
  <2> DEFINE t == [user |-> job[h].user, expires |-> job[h].expires]
  <2>1. job[h] \in Jobs /\ sessions' = sessions \cup {t}
    BY <1>0, <1>2 DEF InsertSession, TypeOK
  <2>2. t.user \in users'
    BY <1>0, <1>2 DEF AccountsInv, ActorOK
  <2>3. t \in Sessions
    BY <1>2, <2>1, JobKinds DEF Sessions
  <2> HIDE DEF t
  <2>5. SessionsOwned'
    BY <1>0, <2>1, <2>2 DEF SessionsOwned
  <2>6. sessions' \subseteq Sessions
    BY <1>0, <2>1, <2>3 DEF TypeOK
  <2> QED BY <2>5, <2>6
<1>3. ASSUME NEW h \in Handlers, CreateSession(h) \/ CreateSessionError(h)
      PROVE  job[h].at = "opening" /\ (InsertSession(h) \/ sessions' = sessions)
  BY <1>3 DEF CreateSession, CreateSessionError, Goto
<1>4. ASSUME NEW h \in Handlers,
             \/ Authenticate(h) \/ Connect(h) \/ UpdateUser(h) \/ ReadBack(h)
             \/ \E u \in Names, p \in Texts : Register(h, u, p)
      PROVE  sessions' = sessions
  BY <1>4 DEF Authenticate, Connect, UpdateUser, ReadBack, Register, tables
<1>5. Crash => sessions' = sessions
  BY DEF Crash, tables
<1> QED BY <1>1, <1>2, <1>3, <1>4, <1>5, JobCases

LEMMA JobsStep ==
  ASSUME AccountsInv, [Next]_vars
  PROVE  job' \in [Handlers -> Jobs]
<1>0. /\ TypeOK /\ job \in [Handlers -> Jobs] /\ users \subseteq Names /\ now \in Nat
      /\ \A h \in Handlers : job[h] \in Jobs
      /\ Len(log) + 1 \in Nat
  BY DEF AccountsInv, TypeOK
<1>1. ASSUME NEW h \in Handlers, NEW from, NEW to, Goto(h, from, to), to \in Jobs
      PROVE  job' \in [Handlers -> Jobs]
  BY <1>0, <1>1, GotoJob
<1>u. ASSUME NEW h \in Handlers, NEW from, NEW to, Goto(h, from, to), from # "idle"
      PROVE  job[h].at = from /\ job[h].user \in Names
  BY <1>0, <1>u, JobKinds DEF Goto
<1>2. Idle \in Jobs
  BY DEF Jobs
<1>c. CASE Crash
  BY <1>2, <1>c DEF Crash
<1>3. ASSUME NEW h \in Handlers, NEW u \in users, Goto(h, "idle", Opening(u))
      PROVE  job' \in [Handlers -> Jobs]
  <2>1. now + TTL \in Nat
    BY <1>0, AccountsAssumption DEF TTL
  <2>2. Opening(u) \in Jobs
    BY <1>0, <2>1 DEF Opening, Jobs
  <2> QED BY <1>1, <1>3, <2>2
<1>4. ASSUME NEW h \in Handlers, CreateSession(h) \/ CreateSessionError(h)
      PROVE  job' \in [Handlers -> Jobs]
  BY <1>1, <1>2, <1>4 DEF CreateSession, CreateSessionError
<1>5. ASSUME NEW h \in Handlers, Authenticate(h) PROVE job' \in [Handlers -> Jobs]
  <2> DEFINE to(t) == [at |-> "admitted", user |-> t.user]
  <2>1. PICK t \in sessions : Goto(h, "idle", to(t))
    BY <1>5 DEF Authenticate
  <2>2. t \in Sessions
    BY <1>0 DEF TypeOK
  <2>3. to(t) \in Jobs
    BY <2>2 DEF Jobs, Sessions
  <2> QED BY <1>1, <2>1, <2>3
<1>6. ASSUME NEW h \in Handlers, Connect(h) PROVE job' \in [Handlers -> Jobs]
  <2> DEFINE to == [at |-> "connected", user |-> job[h].user]
  <2>1. Goto(h, "admitted", to)
    BY <1>6 DEF Connect
  <2>2. to \in Jobs
    BY <1>u, <2>1 DEF Jobs
  <2> QED BY <1>1, <2>1, <2>2
<1>r. ASSUME NEW h \in Handlers, NEW u \in Names, NEW p \in Texts, Register(h, u, p)
      PROVE  job' \in [Handlers -> Jobs]
  <2> DEFINE to == [at |-> "created", user |-> u, write |-> Len(log) + 1]
  <2>1. Goto(h, "idle", to) \/ Goto(h, "idle", Idle)
    BY <1>r DEF Register
  <2>2. to \in Jobs
    BY <1>0 DEF Jobs
  <2> QED BY <1>1, <1>2, <2>1, <2>2
<1>7. ASSUME NEW h \in Handlers, UpdateUser(h) PROVE job' \in [Handlers -> Jobs]
  <2> DEFINE to == [at |-> "reading", user |-> job[h].user, write |-> Len(log) + 1]
  <2>1. Goto(h, "admitted", to)
    BY <1>7 DEF UpdateUser
  <2>2. to \in Jobs
    BY <1>0, <1>u, <2>1 DEF Jobs
  <2> QED BY <1>1, <2>1, <2>2
<1>8. ASSUME NEW h \in Handlers, ReadBack(h) PROVE job' \in [Handlers -> Jobs]
  <2> DEFINE to == [at    |-> "answering", user |-> job[h].user,
                    write |-> job[h].write, row |-> row[job[h].user]]
  <2>1. Goto(h, "reading", to)
    BY <1>8 DEF ReadBack
  <2>2. job[h].user \in Names /\ job[h].write \in Nat
    BY <1>0, <2>1, JobKinds DEF Goto, OwingStages
  <2>3. row[job[h].user] \in [Fields -> Values]
    BY <1>0, <2>2 DEF TypeOK
  <2>4. to \in Jobs
    BY <2>2, <2>3 DEF Jobs
  <2> QED BY <1>1, <2>1, <2>4
<1>9. ASSUME NEW h \in Handlers, NEW from, Goto(h, from, Idle)
      PROVE  job' \in [Handlers -> Jobs]
  BY <1>1, <1>2, <1>9
<1> QED BY <1>0, <1>c, <1>3, <1>4, <1>5, <1>6, <1>r, <1>7, <1>8, <1>9, JobCases

-----------------------------------------------------------------------------
(* What the clients are told.                                              *)

\* The job of h is to answer for a statement.
Holds(h, k) == job[h].at \in OwingStages /\ job[h].write = k

LEMMA InHandIff ==
  ASSUME NEW k
  PROVE  k \in InHand <=> \E h \in Handlers : Holds(h, k)
BY DEF InHand, Owing, Holds, OwingStages

LEMMA InHandIffNext ==
  ASSUME NEW k
  PROVE  k \in InHand' <=> \E h \in Handlers : Holds(h, k)'
BY DEF InHand, Owing, Holds, OwingStages

\* A handler that has the same statement to answer for, or none, before a
\* step and after it.
LEMMA SameHands ==
  ASSUME AccountsInv, NEW h \in Handlers, NEW from, NEW to, Goto(h, from, to),
         from \in OwingStages <=> to.at \in OwingStages,
         from \in OwingStages => to.write = job[h].write
  PROVE  InHand' = InHand /\ OwnWrites'
<1>1. /\ job[h].at \in OwingStages <=> job'[h].at \in OwingStages
      /\ job[h].at \in OwingStages => job'[h].write = job[h].write
      /\ \A g \in Handlers \ {h} : job'[g] = job[g]
  BY GotoJob DEF AccountsInv
<1>2. \A g \in Handlers : \A k : Holds(g, k)' <=> Holds(g, k)
  BY <1>1 DEF Holds
<1>3. InHand' = InHand
  BY <1>2, InHandIff, InHandIffNext
<1>4. OwnWrites'
  BY <1>1 DEF AccountsInv, OwnWrites
<1> QED BY <1>3, <1>4

\* A handler takes the statement it has just executed in hand.
LEMMA TakeInHand ==
  ASSUME AccountsInv, NEW h \in Handlers, NEW from, NEW to, Goto(h, from, to),
         from \notin OwingStages, to.at \in OwingStages, to.write = Len(log) + 1
  PROVE  InHand' = InHand \cup {Len(log) + 1} /\ OwnWrites'
<1> DEFINE n == Len(log) + 1
<1>1. /\ job[h].at \notin OwingStages /\ job'[h] = to /\ to.write = n
      /\ \A g \in Handlers \ {h} : job'[g] = job[g]
  BY GotoJob DEF AccountsInv
<1>2. \A g \in Handlers : job[g].at \in OwingStages => job[g].write # n
  <2>1. Len(log) \in Nat
    BY DEF AccountsInv, TypeOK
  <2>2. \A g \in Handlers : job[g].at \in OwingStages => job[g].write \in 1..Len(log)
    BY DEF AccountsInv, WriteOK
  <2> QED BY <2>1, <2>2
<1> SUFFICES InHand' = InHand \cup {n} /\ OwnWrites'
  OBVIOUS
<1> HIDE DEF n
<1>3. \A g \in Handlers : \A k : Holds(g, k)' <=> Holds(g, k) \/ (g = h /\ k = n)
  BY <1>1 DEF Holds
<1>4. InHand' = InHand \cup {n}
  BY <1>3, InHandIff, InHandIffNext
<1>5. OwnWrites'
  BY <1>1, <1>2 DEF AccountsInv, OwnWrites
<1> QED BY <1>4, <1>5

\* A handler that has a statement in hand tells the client.
LEMMA GiveAway ==
  ASSUME AccountsInv, NEW h \in Handlers, NEW from \in OwingStages, Goto(h, from, Idle)
  PROVE  /\ InHand' = InHand \ {job[h].write} /\ OwnWrites'
         /\ job[h].write \in InHand
<1>1. /\ job[h].at \in OwingStages /\ job'[h].at \notin OwingStages
      /\ \A g \in Handlers \ {h} : job'[g] = job[g]
  BY GotoJob DEF AccountsInv, Idle, OwingStages
<1>2. \A g \in Handlers \ {h} : job[g].at \in OwingStages => job[g].write # job[h].write
  BY <1>1 DEF AccountsInv, OwnWrites
<1>3. \A g \in Handlers : \A k : Holds(g, k)' <=> Holds(g, k) /\ k # job[h].write
  BY <1>1, <1>2 DEF Holds
<1>4. \A k : k \in InHand' <=> k \in InHand /\ k # job[h].write
  BY <1>3, InHandIff, InHandIffNext
<1>5. OwnWrites'
  BY <1>1 DEF AccountsInv, OwnWrites
<1>6. job[h].write \in InHand
  BY <1>1, InHandIff DEF Holds
<1> QED BY <1>4, <1>5, <1>6

\* There are no more statements in hand than handlers.
LEMMA HandsCount ==
  /\ IsFiniteSet(InHand) /\ Cardinality(InHand) \in Nat
  /\ Cardinality(InHand) <= Cardinality(Handlers) /\ Cardinality(Handlers) \in Nat
<1> DEFINE hand == [h \in Owing |-> job[h].write]
<1>1. IsFiniteSet(Handlers) /\ Owing \subseteq Handlers
  BY AccountsAssumption DEF Owing
<1>2. /\ IsFiniteSet(Owing) /\ Cardinality(Owing) <= Cardinality(Handlers)
      /\ Cardinality(Owing) \in Nat /\ Cardinality(Handlers) \in Nat
  BY <1>1, FS_Subset, FS_CardinalityType
<1>3. hand \in Surjection(Owing, InHand)
  BY DEF Surjection, InHand
<1>4. IsFiniteSet(InHand) /\ Cardinality(InHand) <= Cardinality(Owing)
  BY <1>2, <1>3, FS_Surjection
<1> QED BY <1>2, <1>4, FS_CardinalityType

\* The statements are those answered with success, those denied, those in
\* hand and those that nobody will hear of, and no two of these share one.
Divided(n, a, d, hand, rest) ==
  /\ 1..n = a \cup d \cup hand \cup rest
  /\ a \cap (d \cup hand \cup rest) = {}
  /\ d \cap (hand \cup rest) = {}
  /\ hand \cap rest = {}

LEMMA DividedNow ==
  ASSUME AccountsInv
  PROVE  Divided(Len(log), answered, denied, InHand, Unheard)
<1>1. answered \cup denied \subseteq 1..Len(log)
  BY DEF AccountsInv, TypeOK
<1>2. InHand \subseteq 1..Len(log)
  BY InHandIff DEF AccountsInv, WriteOK, Holds
<1>3. answered \cap (denied \cup InHand) = {} /\ denied \cap InHand = {}
  BY DEF AccountsInv, ChangesAccounted
<1> QED BY <1>1, <1>2, <1>3 DEF Divided, Unheard

LEMMA DividedMore ==
  ASSUME NEW n \in Nat, NEW a, NEW d, NEW hand, NEW rest, Divided(n, a, d, hand, rest)
  PROVE  /\ Divided(n + 1, a, d \cup {n + 1}, hand, rest)
         /\ Divided(n + 1, a, d, hand \cup {n + 1}, rest)
<1> DEFINE m == n + 1
<1>1. m \notin 1..n /\ 1..m = 1..n \cup {m}
  OBVIOUS
<1> SUFFICES /\ Divided(m, a, d \cup {m}, hand, rest)
             /\ Divided(m, a, d, hand \cup {m}, rest)
  OBVIOUS
<1> HIDE DEF m
<1> QED BY <1>1 DEF Divided

LEMMA DividedMoved ==
  ASSUME NEW n, NEW a, NEW d, NEW hand, NEW rest, Divided(n, a, d, hand, rest),
         NEW k \in hand
  PROVE  /\ Divided(n, a \cup {k}, d, hand \ {k}, rest)
         /\ Divided(n, a, d \cup {k}, hand \ {k}, rest)
BY DEF Divided

\* One more is denied for one more error.
LEMMA DeniedCount ==
  ASSUME NEW n \in Nat, NEW d \in SUBSET (1..n)
  PROVE  /\ Cardinality(d) \in Nat
         /\ \A k, e \in Nat : Cardinality(d) <= e => Cardinality(d \cup {k}) <= e + 1
<1>1. IsFiniteSet(1..n)
  BY FS_Interval
<1>2. IsFiniteSet(d)
  BY <1>1, FS_Subset
<1>3. Cardinality(d) \in Nat
  BY <1>2, FS_CardinalityType
<1>4. \A k : /\ k \in d => Cardinality(d \cup {k}) = Cardinality(d)
             /\ k \notin d => Cardinality(d \cup {k}) = Cardinality(d) + 1
  BY <1>2, FS_AddElement
<1> QED BY <1>3, <1>4

Books ==
  /\ OwnWrites
  /\ ChangesAccounted
  /\ faults \in Nat /\ crashes \in Nat
  /\ answered \cup denied \subseteq 1..Len(log)

\* The books stay balanced if one statement at most changes hands, and one
\* that is denied is denied for an error.
LEMMA Balanced ==
  ASSUME AccountsInv, OwnWrites', Divided(Len(log'), answered', denied', InHand', Unheard),
         crashes' = crashes,
         \/ denied' = denied /\ faults' \in {faults, faults + 1}
         \/ (\E k \in Nat : denied' = denied \cup {k}) /\ faults' = faults + 1
  PROVE  Books'
<1>1. /\ Len(log) \in Nat /\ faults \in Nat /\ crashes \in Nat
      /\ denied \in SUBSET (1..Len(log)) /\ Cardinality(denied) <= faults
  BY DEF AccountsInv, TypeOK, ChangesAccounted
<1>2. /\ Cardinality(denied) \in Nat
      /\ \A k, e \in Nat : Cardinality(denied) <= e => Cardinality(denied \cup {k}) <= e + 1
  BY <1>1, DeniedCount
<1>3. faults' \in Nat /\ crashes' \in Nat
  BY <1>1
<1>4. Cardinality(denied') <= faults'
  <2>1. CASE denied' = denied /\ faults' \in {faults, faults + 1}
    <3>1. Cardinality(denied') = Cardinality(denied)
      BY <2>1
    <3> QED BY <1>1, <1>2, <2>1, <3>1
  <2>2. ASSUME NEW k \in Nat, denied' = denied \cup {k}, faults' = faults + 1
        PROVE  Cardinality(denied') <= faults'
    <3>1. Cardinality(denied') = Cardinality(denied \cup {k})
      BY <2>2
    <3> QED BY <1>1, <1>2, <2>2, <3>1
  <2> QED BY <2>1, <2>2
<1>5. Unheard' = Unheard /\ (answered \cup denied)' \subseteq 1..Len(log')
  BY DEF Divided, Unheard
<1>6. Cardinality(Unheard)' <= crashes' * Cardinality(Handlers)
  <2>1. Cardinality(Unheard)' = Cardinality(Unheard)
    BY <1>5
  <2>2. Cardinality(Unheard) <= crashes * Cardinality(Handlers)
    BY DEF AccountsInv, ChangesAccounted
  <2> QED BY <2>1, <2>2
<1>7. ChangesAccounted'
  BY <1>4, <1>6 DEF ChangesAccounted, Divided
<1> QED BY <1>3, <1>5, <1>7 DEF Books

\* A crash adds the statements in hand to those that nobody will hear of.
LEMMA CrashBalanced ==
  ASSUME AccountsInv, Crash
  PROVE  Books'
<1>0. /\ Divided(Len(log), answered, denied, InHand, Unheard)
      /\ UNCHANGED <<log, answered, denied, faults>> /\ crashes' = crashes + 1
      /\ crashes \in Nat /\ faults \in Nat
  BY DividedNow DEF Crash, tables, heard, AccountsInv, TypeOK
<1>1. \A h \in Handlers : job'[h] = Idle
  BY DEF Crash
<1>2. InHand' = {} /\ OwnWrites'
  <2>1. \A h \in Handlers : job'[h].at \notin OwingStages
    BY <1>1 DEF Idle, OwingStages
  <2>2. OwnWrites'
    BY <2>1 DEF OwnWrites
  <2>3. \A k : k \notin InHand'
    BY <2>1, InHandIffNext DEF Holds
  <2> QED BY <2>2, <2>3
<1>3. Unheard' = Unheard \cup InHand
  BY <1>0, <1>2 DEF Unheard, Divided
<1>4. IsFiniteSet(Unheard)
  <2>1. IsFiniteSet(1..Len(log))
    BY FS_Interval DEF AccountsInv, TypeOK
  <2> QED BY <1>0, <2>1, FS_Subset DEF Divided
<1>5. Cardinality(Unheard \cup InHand) <= Cardinality(Unheard) + Cardinality(InHand)
  <2>1. /\ Cardinality(Unheard \cap InHand) = 0
        /\ Cardinality(Unheard \cup InHand)
             = Cardinality(Unheard) + Cardinality(InHand) - Cardinality(Unheard \cap InHand)
    <3>1. Unheard \cap InHand = {}
      BY <1>0 DEF Divided
    <3> QED BY <1>4, <3>1, HandsCount, FS_Union, FS_EmptySet
  <2>2. Cardinality(Unheard) \in Nat
    BY <1>4, FS_CardinalityType
  <2> QED BY <2>1, <2>2, HandsCount
<1>6. Cardinality(Unheard)' <= crashes' * Cardinality(Handlers)
  <2>1. Cardinality(Unheard)' = Cardinality(Unheard \cup InHand)
    BY <1>3
  <2>2. Cardinality(Unheard) <= crashes * Cardinality(Handlers)
    BY DEF AccountsInv, ChangesAccounted
  <2>3. /\ Cardinality(Unheard) \in Nat
        /\ Cardinality(Unheard \cup InHand) \in Nat
    BY <1>4, HandsCount, FS_Union, FS_CardinalityType
  <2>4. ASSUME NEW c \in Nat, NEW k \in Nat PROVE (c + 1) * k = c * k + k /\ c * k \in Nat
    OBVIOUS
  <2>5. /\ (crashes + 1) * Cardinality(Handlers)
             = crashes * Cardinality(Handlers) + Cardinality(Handlers)
        /\ crashes * Cardinality(Handlers) \in Nat
    BY <1>0, <2>4, HandsCount
  <2> DEFINE before == crashes * Cardinality(Handlers)
             after  == (crashes + 1) * Cardinality(Handlers)
  <2>6. /\ after = before + Cardinality(Handlers) /\ before \in Nat
        /\ Cardinality(Unheard) <= before
    BY <2>2, <2>5
  <2> HIDE DEF before, after
  <2>7. Cardinality(Unheard \cup InHand) <= after
    BY <1>5, <2>3, <2>6, HandsCount
  <2> QED BY <1>0, <2>1, <2>7 DEF after
<1>7. Cardinality(denied') <= faults'
  <2>1. Cardinality(denied') = Cardinality(denied)
    BY <1>0
  <2> QED BY <1>0, <2>1 DEF AccountsInv, ChangesAccounted
<1>8. ChangesAccounted'
  BY <1>0, <1>2, <1>6, <1>7 DEF ChangesAccounted, Divided
<1>9. (answered \cup denied)' \subseteq 1..Len(log')
  BY <1>0 DEF Divided
<1> QED BY <1>0, <1>2, <1>8, <1>9 DEF Books

LEMMA AnswersStep ==
  ASSUME AccountsInv, [Next]_vars
  PROVE  Books'
<1> DEFINE n == Len(log)
<1>0. /\ TypeOK /\ n \in Nat /\ faults \in Nat
      /\ Divided(n, answered, denied, InHand, Unheard)
  BY DividedNow DEF AccountsInv, TypeOK
<1>n. n + 1 \in Nat /\ faults \in {faults, faults + 1}
  BY <1>0
<1>m. /\ Divided(n + 1, answered, denied \cup {n + 1}, InHand, Unheard)
      /\ Divided(n + 1, answered, denied, InHand \cup {n + 1}, Unheard)
  BY <1>0, DividedMore
<1>w. ASSUME NEW u \in Names, NEW change, Writes(u, change) PROVE Len(log') = n + 1
  BY <1>0, <1>w, WritesLog
<1>j. UNCHANGED job => InHand' = InHand /\ OwnWrites'
  BY DEF InHand, Owing, OwnWrites, AccountsInv
<1>i. Idle.at \notin OwingStages
  BY DEF Idle, OwingStages
<1>s. "idle" \notin OwingStages /\ "admitted" \notin OwingStages
  BY DEF OwingStages
<1>u. ASSUME NEW h \in Handlers, NEW change \in Changes, Update(job[h].user, change),
             job[h].at = "admitted", users' = users
      PROVE  Len(log') = n + 1
  BY <1>w, <1>u, UpdaterWrites
\* A statement that was executed is taken in hand, or denied.
<1>t. ASSUME NEW h \in Handlers, NEW from, from \notin OwingStages, NEW to,
             Goto(h, from, to), to.at \in OwingStages, to.write = Len(log) + 1,
             Len(log') = n + 1, UNCHANGED <<answered, denied, faults, crashes>>
      PROVE  Books'
  <2>1. InHand' = InHand \cup {n + 1} /\ OwnWrites'
    BY <1>t, TakeInHand
  <2>2. Divided(Len(log'), answered', denied', InHand', Unheard)
    BY <1>m, <1>t, <2>1
  <2> QED BY <1>n, <1>t, <2>1, <2>2, Balanced
<1>d. ASSUME NEW h \in Handlers, NEW from, from \notin OwingStages, Goto(h, from, Idle),
             Len(log') = n + 1, denied' = denied \cup {Len(log) + 1},
             faults' = faults + 1, UNCHANGED <<answered, crashes>>
      PROVE  Books'
  <2>1. InHand' = InHand /\ OwnWrites'
    BY <1>d, <1>i, SameHands
  <2>2. Divided(Len(log'), answered', denied', InHand', Unheard)
    BY <1>m, <1>d, <2>1
  <2> QED BY <1>n, <1>d, <2>1, <2>2, Balanced
\* No statement, and nobody is told.
<1>q. ASSUME InHand' = InHand, OwnWrites', UNCHANGED <<log, answered, denied, crashes>>,
             faults' \in {faults, faults + 1}
      PROVE  Books'
  <2>1. Divided(Len(log'), answered', denied', InHand', Unheard)
    BY <1>0, <1>q
  <2> QED BY <1>q, <2>1, Balanced
<1> HIDE DEF n
<1>1. ASSUME NEW h \in Handlers, NEW u \in Names, NEW p \in Texts, Register(h, u, p)
      PROVE  Books'
  <2> DEFINE to == [at |-> "created", user |-> u, write |-> Len(log) + 1]
  <2>1. Len(log') = n + 1 /\ UNCHANGED <<answered, crashes>>
    BY <1>0, <1>1, <1>w, RegisterWrites DEF Register
  <2>2. to.at \in OwingStages /\ to.write = Len(log) + 1
    BY DEF OwingStages
  <2> HIDE DEF to
  <2>3. \/ Goto(h, "idle", to) /\ UNCHANGED <<denied, faults>>
        \/ /\ Goto(h, "idle", Idle)
           /\ denied' = denied \cup {Len(log) + 1} /\ faults' = faults + 1
    BY <1>1 DEF Register, Fault, to
  <2> QED BY <1>s, <1>t, <1>d, <2>1, <2>2, <2>3
<1>2. ASSUME NEW h \in Handlers, UpdateUser(h) PROVE Books'
  <2> DEFINE to == [at |-> "reading", user |-> job[h].user, write |-> Len(log) + 1]
  <2>1. /\ Goto(h, "admitted", to) /\ users' = users
        /\ \E change \in Changes : Update(job[h].user, change)
        /\ UNCHANGED <<answered, denied, faults, crashes>>
    BY <1>2 DEF UpdateUser, heard
  <2>2. Len(log') = n + 1
    BY <1>u, <2>1 DEF Goto
  <2>3. to.at \in OwingStages /\ to.write = Len(log) + 1
    BY DEF OwingStages
  <2> HIDE DEF to
  <2> QED BY <1>s, <1>t, <2>1, <2>2, <2>3
<1>3. ASSUME NEW h \in Handlers, UpdateError(h) PROVE Books'
  <2>1. /\ Goto(h, "admitted", Idle) /\ users' = users
        /\ UNCHANGED <<answered, crashes>>
    BY <1>3 DEF UpdateError
  <2>2. InHand' = InHand /\ OwnWrites'
    BY <1>i, <1>s, <2>1, SameHands
  <2>3. CASE UNCHANGED <<row, log, denied>> /\ faults' \in {faults, faults + 1}
    BY <1>q, <2>1, <2>2, <2>3
  <2>4. ASSUME NEW change \in Changes, Update(job[h].user, change),
               denied' = denied \cup {Len(log) + 1}, faults' = faults + 1
        PROVE  Books'
    <3>1. Len(log') = n + 1
      BY <1>u, <2>1, <2>4 DEF Goto
    <3> QED BY <1>d, <1>s, <2>1, <2>4, <3>1
  <2> QED BY <1>3, <1>n, <2>3, <2>4 DEF UpdateError, Fault
<1>4. ASSUME NEW h \in Handlers, ReadBackError(h) \/ Answer(h) PROVE Books'
  <2> DEFINE k == job[h].write
  <2>1. PICK from \in OwingStages : Goto(h, from, Idle)
    BY <1>4 DEF ReadBackError, Answer, OwingStages
  <2>2. InHand' = InHand \ {k} /\ OwnWrites' /\ k \in InHand
    BY <2>1, GiveAway
  <2>3. /\ Divided(n, answered \cup {k}, denied, InHand \ {k}, Unheard)
        /\ Divided(n, answered, denied \cup {k}, InHand \ {k}, Unheard)
    BY <1>0, <2>2, DividedMoved
  <2>4. /\ log' = log /\ crashes' = crashes
        /\ \/ answered' = answered \cup {k} /\ denied' = denied /\ faults' = faults
           \/ answered' = answered /\ denied' = denied \cup {k} /\ faults' = faults + 1
    BY <1>4 DEF ReadBackError, Answer, Fault, tables
  <2>5. k \in Nat
    BY <1>0, <2>2 DEF Divided
  <2> HIDE DEF k
  <2>6. Divided(Len(log'), answered', denied', InHand', Unheard)
    BY <2>2, <2>3, <2>4 DEF n
  <2> QED BY <1>n, <2>2, <2>4, <2>5, <2>6, Balanced
<1>5. ASSUME NEW h \in Handlers, ReadBack(h) PROVE Books'
  <2> DEFINE to == [at    |-> "answering", user |-> job[h].user,
                    write |-> job[h].write, row |-> row[job[h].user]]
  <2>1. Goto(h, "reading", to) /\ UNCHANGED <<log, answered, denied, faults, crashes>>
    BY <1>5 DEF ReadBack, tables, heard
  <2>2. "reading" \in OwingStages /\ to.at \in OwingStages /\ to.write = job[h].write
    BY DEF OwingStages
  <2> HIDE DEF to
  <2>3. InHand' = InHand /\ OwnWrites'
    BY <2>1, <2>2, SameHands
  <2> QED BY <1>n, <1>q, <2>1, <2>3
<1>6. ASSUME NEW h \in Handlers, NEW u \in Names, LoginByName(h, u) \/ LoginByPhone(h, u)
      PROVE  Books'
  <2>1. /\ Goto(h, "idle", Opening(u))
        /\ UNCHANGED <<log, answered, denied, faults, crashes>>
    BY <1>6, LoginCases
  <2>2. Opening(u).at \notin OwingStages
    BY DEF Opening, OwingStages
  <2>3. InHand' = InHand /\ OwnWrites'
    BY <1>s, <2>1, <2>2, SameHands
  <2> QED BY <1>n, <1>q, <2>1, <2>3
<1>7. ASSUME NEW h \in Handlers,
             \/ CreateSession(h) \/ CreateSessionError(h) \/ Authenticate(h)
             \/ Connect(h) \/ Disconnect(h)
      PROVE  Books'
  <2>1. /\ UNCHANGED <<log, answered, denied, crashes>>
        /\ faults' \in {faults, faults + 1}
    BY <1>7, <1>n DEF CreateSession, CreateSessionError, Authenticate, Connect, Disconnect,
         Fault, tables, heard
  <2>2. PICK from \in {"idle", "opening", "admitted", "connected"},
             to \in {Idle} \cup [at : {"admitted", "connected"}, user : {job[h].user}]
                      \cup [at : {"admitted"}, user : {t.user : t \in sessions}] :
          Goto(h, from, to)
    BY <1>7 DEF CreateSession, CreateSessionError, Authenticate, Connect, Disconnect
  <2>3. from \notin OwingStages /\ to.at \notin OwingStages
    BY <1>i DEF OwingStages
  <2>4. InHand' = InHand /\ OwnWrites'
    BY <2>2, <2>3, SameHands
  <2> QED BY <1>q, <2>1, <2>4
<1>8. CASE Tick \/ UNCHANGED vars
  BY <1>n, <1>q, <1>8, <1>j DEF Tick, vars, tables, heard
<1> QED BY <1>1, <1>2, <1>3, <1>4, <1>5, <1>6, <1>7, <1>8, CrashBalanced, NextCases
-----------------------------------------------------------------------------
(* The invariant and what follows from it.                                 *)

LEMMA AccountsInit == Init => AccountsInv
<1> SUFFICES ASSUME Init PROVE AccountsInv
  OBVIOUS
<1>1. /\ users = {} /\ sessions = {} /\ log = <<>> /\ Len(log) = 0 /\ now = 0
      /\ answered = {} /\ denied = {} /\ faults = 0 /\ crashes = 0
      /\ row = [u \in Names |-> [f \in Fields |-> NULL]]
      /\ job = [h \in Handlers |-> Idle]
  BY DEF Init
<1>2. \A h \in Handlers : job[h] = Idle /\ job[h].at = "idle"
  BY <1>1 DEF Idle
<1>3. TypeOK
  <2>1. NULL \in Values
    BY DEF Values, Texts
  <2>2. row \in [Names -> [Fields -> Values]]
    BY <1>1, <2>1
  <2>3. job \in [Handlers -> Jobs]
    BY <1>1 DEF Jobs
  <2>4. log \in Seq(Entries) /\ 1..Len(log) = {}
    BY <1>1
  <2> QED BY <1>1, <2>2, <2>3, <2>4 DEF TypeOK
<1>4. PhonesInv
  BY <1>1 DEF PhonesInv
<1>5. \A h \in Handlers : ActorOK(job[h]) /\ WriteOK(job[h])
  BY <1>2 DEF ActorOK, WriteOK, OwingStages
<1>6. OwnWrites
  BY <1>2 DEF OwnWrites, OwingStages
<1>7. ChangesAccounted
  <2>1. InHand = {}
    BY <1>2 DEF InHand, Owing
  <2>2. Cardinality(denied) = 0 /\ Cardinality(Unheard) = 0
    BY <1>1, FS_EmptySet DEF Unheard
  <2>3. crashes * Cardinality(Handlers) = 0
    BY <1>1, HandsCount
  <2> QED BY <1>1, <2>1, <2>2, <2>3 DEF ChangesAccounted
<1>8. SessionsOwned /\ \A u \in users, f \in Fields : Kept(u, f)
  BY <1>1 DEF SessionsOwned
<1> QED BY <1>3, <1>4, <1>5, <1>6, <1>7, <1>8 DEF AccountsInv

LEMMA AccountsInductive == AccountsInv /\ [Next]_vars => AccountsInv'
<1> SUFFICES ASSUME AccountsInv, [Next]_vars PROVE AccountsInv'
  OBVIOUS
<1>1. now' \in Nat
  <2>1. now \in Nat
    BY DEF AccountsInv, TypeOK
  <2>2. now' \in {now, now + 1}
    BY NextCases, LoginCases
       DEF Register, CreateSession, CreateSessionError, Authenticate, Connect, Disconnect,
           UpdateUser, UpdateError, ReadBack, ReadBackError, Answer, Tick, Crash, vars
  <2> QED BY <2>1, <2>2
<1>2. Books'
  BY AnswersStep
<1>3. TypeOK'
  BY <1>1, <1>2, Grows, JobsStep, SessionsStep DEF TypeOK, Books
<1>4. \A h \in Handlers : ActorOK(job[h])' /\ WriteOK(job[h])'
  BY OldJob, NewJob
<1>5. PhonesInv' /\ SessionsOwned' /\ \A u \in users', f \in Fields : Kept(u, f)'
  BY StateStep, SessionsStep
<1> QED BY <1>2, <1>3, <1>4, <1>5 DEF AccountsInv, Books

LEMMA AccountsAlways == Spec => []AccountsInv
BY AccountsInit, AccountsInductive, PTL DEF Spec

\* Every variable keeps its type: the rows hold values of their columns, and
\* the statements that the requests stand for exist.
THEOREM TypeCorrect == Spec => []TypeOK
<1>1. AccountsInv => TypeOK
  BY DEF AccountsInv
<1> QED BY <1>1, AccountsAlways, PTL

\* A telephone line has one account, found under every form of its number,
\* because normalizeRUPhone stands before each statement that sets the column
\* and the column is unique.
THEOREM OneOwnerCorrect == Spec => []OneOwner
<1>1. ASSUME AccountsInv, NEW u \in users, row[u]["phone"] # NULL,
             NEW i \in Inputs, i.line = row[u]["phone"].line, Normalize(i) # Invalid
      PROVE  OwnersOf(Normalize(i)) = {u}
  <2>1. PhonesInv
    BY <1>1 DEF AccountsInv
  <2>2. PICK l \in Lines : row[u]["phone"] = [lead |-> "7", line |-> l]
    BY <1>1, <2>1 DEF PhonesInv, Formatted
  <2>3. Normalize(i) = row[u]["phone"]
    BY <1>1, <2>2, NormalForm
  <2>4. \A v \in users : row[v]["phone"] = row[u]["phone"] => v = u
    BY <1>1, <2>1 DEF PhonesInv
  <2> QED BY <2>3, <2>4 DEF OwnersOf
<1>2. AccountsInv => OneOwner
  BY <1>1 DEF OneOwner
<1> QED BY <1>2, AccountsAlways, PTL

\* No update of a profile undoes another of different fields, however the
\* statements of UpdateUser interleave.
THEOREM NoUpdateLostCorrect == Spec => []NoUpdateLost
<1>1. AccountsInv => NoUpdateLost
  BY DEF AccountsInv, NoUpdateLost, Kept
<1> QED BY <1>1, AccountsAlways, PTL

\* The answer to an update shows what the update set or a later value, though
\* GetUserByID reads it after the UPDATE has committed.
THEOREM AnswerCoversCorrect == Spec => []AnswerCovers
<1>1. AccountsInv => AnswerCovers
  BY DEF AccountsInv, AnswerCovers, WriteOK
<1> QED BY <1>1, AccountsAlways, PTL

\* Every statement that changed a user is in hand, answered with success,
\* denied because of a database error of which there is one for each, or lost
\* with the process, which leaves at most one per handler and crash: so the
\* SELECT that follows the UPDATE in UpdateUser, and the INSERT of CreateUser
\* whose answer is lost, mislead a client only then.
THEOREM ChangesAccountedCorrect == Spec => []ChangesAccounted
<1>1. AccountsInv => ChangesAccounted
  BY DEF AccountsInv
<1> QED BY <1>1, AccountsAlways, PTL
=============================================================================
