----------------------------- MODULE Deployment -----------------------------
(***************************************************************************)
(* The start of an installation on Kubernetes as k8s/README.md tells it:   *)
(* the database, the application, which serves only once it has reached    *)
(* the database, the ConfigMap of migrations, the job that applies them;   *)
(* and which of the documented calls then find the tables and columns that *)
(* their statements name.                                                  *)
(***************************************************************************)
EXTENDS Naturals

CONSTANT MaxRestarts  \* bound of the model: starts of the application that fail

\* What each file of migrations/ adds.
Migration ==
  <<{"users", "sessions", "chats", "chat_members", "messages"},
    {"users.phone"},
    {"phone_verifications"},
    {"users.profile"},
    {"push_tokens"}>>

\* The documented calls, and what their statements name.
Needs ==
  [register      |-> {"users", "users.phone"},
   login         |-> {"users", "sessions"},
   login_phone   |-> {"users", "users.phone", "sessions"},
   send_code     |-> {"users", "users.phone", "phone_verifications"},
   verify        |-> {"phone_verifications", "users", "users.phone"},
   users_me      |-> {"sessions", "users", "users.phone", "users.profile"},
   push_register |-> {"sessions", "push_tokens"},
   chats         |-> {"sessions", "chats", "chat_members", "messages",
                      "users", "users.phone", "users.profile"},
   messages      |-> {"sessions", "chat_members", "messages"}]

VARIABLES
  db,         \* "absent", "starting" or "up"
  app,        \* "absent", "down", "pinged" or "serving"
  restarts,   \* starts that failed
  configMap,  \* migrations in the ConfigMap
  job,        \* "absent", "waiting" or "complete"
  schema      \* tables and columns there are

vars == <<db, app, restarts, configMap, job, schema>>

Init ==
  /\ db = "absent" /\ app = "absent" /\ restarts = 0
  /\ configMap = {} /\ job = "absent" /\ schema = {}

-----------------------------------------------------------------------------
(* The steps of the guide, in its order.                                   *)

ApplyDb ==
  /\ db = "absent"
  /\ db' = "starting"
  /\ UNCHANGED <<app, restarts, configMap, job, schema>>

ApplyApp ==
  /\ db # "absent" /\ app = "absent"
  /\ app' = "down"
  /\ UNCHANGED <<db, restarts, configMap, job, schema>>

\* --from-file=migrations/001_init.sql
CreateConfigMap ==
  /\ app # "absent" /\ configMap = {}
  /\ configMap' = {1}
  /\ UNCHANGED <<db, app, restarts, job, schema>>

ApplyJob ==
  /\ configMap # {} /\ job = "absent"
  /\ job' = "waiting"
  /\ UNCHANGED <<db, app, restarts, configMap, schema>>

-----------------------------------------------------------------------------
(* What they set off.                                                      *)

DbStarts ==
  /\ db = "starting"
  /\ db' = "up"
  /\ UNCHANGED <<app, restarts, configMap, job, schema>>

\* pg_isready, then psql -f /migrations/001_init.sql and no other file.
JobRuns ==
  /\ job = "waiting" /\ db = "up"
  /\ schema' = schema \cup UNION {Migration[f] : f \in configMap \cap {1}}
  /\ job' = "complete"
  /\ UNCHANGED <<db, app, restarts, configMap>>

\* main: Ping fails, the process ends and is started again.
PingFails ==
  /\ app = "down" /\ db # "up" /\ restarts < MaxRestarts
  /\ restarts' = restarts + 1
  /\ UNCHANGED <<db, app, configMap, job, schema>>

PingOk ==
  /\ app = "down" /\ db = "up"
  /\ app' = "pinged"
  /\ UNCHANGED <<db, restarts, configMap, job, schema>>

\* The handlers are registered and the server listens, whatever the schema.
Listen ==
  /\ app = "pinged"
  /\ app' = "serving"
  /\ UNCHANGED <<db, restarts, configMap, job, schema>>

Next ==
  \/ ApplyDb \/ ApplyApp \/ CreateConfigMap \/ ApplyJob
  \/ DbStarts \/ JobRuns \/ PingFails \/ PingOk \/ Listen

Spec == Init /\ [][Next]_vars

-----------------------------------------------------------------------------
\* Once the guide has been followed to its end and the application serves,
\* every documented call finds what its statements name.
GuideServes ==
  job = "complete" /\ app = "serving" =>
    \A call \in DOMAIN Needs : Needs[call] \subseteq schema
=============================================================================
