------------------------- MODULE PhoneVerification -------------------------
(***************************************************************************)
(* Registration by phone: POST /api/phone/send_code (SendPhoneCode) and    *)
(* POST /api/phone/verify (RegisterByPhoneCode), for one phone number; the *)
(* rows of different numbers have nothing in common.  Several requests of  *)
(* either kind are served at the same time, and each statement sent to the *)
(* database is atomic, so what a request has read may be stale when it     *)
(* acts on it.  A statement may commit and only its answer be lost, when   *)
(* the client gives up or the connection drops: the handler sees an error. *)
(* A code is the number of the request that made it.                       *)
(***************************************************************************)
EXTENDS Naturals, FiniteSets

CONSTANTS
  Senders,        \* handlers of send_code, one request at a time
  Verifiers,      \* handlers of verify, one request at a time
  MaxAttempts,    \* phoneCodeMaxAttempts, 5 in the code
  SmsConfigured,  \* SMS_RU_API_ID is set
  MaxCodes,       \* bound of the model: codes made
  MaxLost         \* bound of the model: of lost and of kept, each

ASSUME VerificationAssumption ==
  /\ IsFiniteSet(Verifiers)
  /\ MaxAttempts \in Nat \ {0}
  /\ SmsConfigured \in BOOLEAN
  /\ MaxCodes \in Nat
  /\ MaxLost \in Nat

VARIABLES
  spc,       \* where each sender is
  code,      \* the code it made, 0 before
  answer,    \* the status it answered with last
  vpc,       \* where each verifier is
  seen,      \* the code whose hash it read, 0 before
  tries,     \* the attempts it read with it
  stored,    \* phone_verifications: the code of the row, 0 without a row
  attempts,  \* its attempts
  expired,   \* codes whose expires_at has passed
  made,      \* codes made so far
  taken,     \* a row of users has the phone
  wrong,     \* auxiliary: failed comparisons with each code
  uses,      \* auxiliary: accounts registered with each code
  lost,      \* auxiliary: failed comparisons that were never recorded
  kept       \* auxiliary: registrations that have left their code in place

senderVars   == <<spc, code, answer>>
verifierVars == <<vpc, seen, tries>>
rowVars      == <<stored, attempts>>
auxVars      == <<wrong, uses, lost, kept>>
vars == <<senderVars, verifierVars, rowVars, expired, made, taken, auxVars>>

Codes == 1..MaxCodes

SenderStates == {"idle", "store", "sms"}
\* "judge": has read the row; "record": the code was wrong; "purge": the
\* code had expired; "register": it was right; "clean": the user is created.
VerifierStates == {"idle", "judge", "record", "purge", "register", "clean"}

Init ==
  /\ spc = [s \in Senders |-> "idle"]
  /\ code = [s \in Senders |-> 0]
  /\ answer = [s \in Senders |-> "none"]
  /\ vpc = [v \in Verifiers |-> "idle"]
  /\ seen = [v \in Verifiers |-> 0]
  /\ tries = [v \in Verifiers |-> 0]
  /\ stored = 0
  /\ attempts = 0
  /\ expired = {}
  /\ made = 0
  /\ taken = FALSE
  /\ wrong = [g \in Codes |-> 0]
  /\ uses = [g \in Codes |-> 0]
  /\ lost = 0
  /\ kept = 0

-----------------------------------------------------------------------------
(* SendPhoneCode.                                                          *)

Respond(s, status) ==
  /\ spc' = [spc EXCEPT ![s] = "idle"]
  /\ code' = [code EXCEPT ![s] = 0]
  /\ answer' = [answer EXCEPT ![s] = status]

\* GetUserByPhone finds the phone taken, or fails.
RefuseSend(s) ==
  /\ spc[s] = "idle"
  /\ \/ taken /\ Respond(s, "409")
     \/ Respond(s, "500")
  /\ UNCHANGED <<verifierVars, rowVars, expired, made, taken, auxVars>>

\* The phone is free: a code is made and hashed.
MakeCode(s) ==
  /\ spc[s] = "idle"
  /\ ~taken
  /\ made < MaxCodes
  /\ made' = made + 1
  /\ spc' = [spc EXCEPT ![s] = "store"]
  /\ code' = [code EXCEPT ![s] = made + 1]
  /\ answer' = [answer EXCEPT ![s] = "none"]
  /\ UNCHANGED <<verifierVars, rowVars, expired, taken, auxVars>>

\* UpsertPhoneVerification replaces the row, whatever it holds.
WriteRow(s) == stored' = code[s] /\ attempts' = 0

StoreCode(s) ==
  /\ spc[s] = "store"
  /\ WriteRow(s)
  /\ spc' = [spc EXCEPT ![s] = "sms"]
  /\ UNCHANGED <<code, answer, verifierVars, expired, made, taken, auxVars>>

\* The statement fails, or commits and its answer is lost.
StoreError(s) ==
  /\ spc[s] = "store"
  /\ Respond(s, "500")
  /\ WriteRow(s) \/ UNCHANGED rowVars
  /\ UNCHANGED <<verifierVars, expired, made, taken, auxVars>>

\* Send fails with ErrSMSNotConfigured without an API id.  With one,
\* http.NewRequest refuses baseURL, whose host has spaces in it.
SendSMS(s) ==
  /\ spc[s] = "sms"
  /\ Respond(s, IF SmsConfigured THEN "500" ELSE "503")
  /\ UNCHANGED <<verifierVars, rowVars, expired, made, taken, auxVars>>

-----------------------------------------------------------------------------
(* RegisterByPhoneCode.                                                    *)

Go(v, to) == vpc' = [vpc EXCEPT ![v] = to]

\* The request is answered and its local variables are forgotten.
Finish(v) ==
  /\ Go(v, "idle")
  /\ seen' = [seen EXCEPT ![v] = 0]
  /\ tries' = [tries EXCEPT ![v] = 0]

\* GetPhoneVerification; without a row the request ends here.
ReadRow(v) ==
  /\ vpc[v] = "idle"
  /\ stored # 0
  /\ Go(v, "judge")
  /\ seen' = [seen EXCEPT ![v] = stored]
  /\ tries' = [tries EXCEPT ![v] = attempts]
  /\ UNCHANGED <<senderVars, rowVars, expired, made, taken, auxVars>>

JudgeExpired(v) ==
  /\ vpc[v] = "judge"
  /\ seen[v] \in expired
  /\ Go(v, "purge")
  /\ UNCHANGED <<senderVars, seen, tries, rowVars, expired, made, taken, auxVars>>

\* Mutant: a row with no attempts left is deleted.
JudgeTooManyDeleting(v) ==
  /\ vpc[v] = "judge"
  /\ seen[v] \notin expired
  /\ tries[v] >= MaxAttempts
  /\ Finish(v)
  /\ stored' = 0
  /\ attempts' = 0
  /\ UNCHANGED <<senderVars, expired, made, taken, auxVars>>

JudgeTooMany(v) ==
  /\ vpc[v] = "judge"
  /\ seen[v] \notin expired
  /\ tries[v] >= MaxAttempts
  /\ Finish(v)
  /\ UNCHANGED <<senderVars, rowVars, expired, made, taken, auxVars>>

\* Mutant: the limit is off by one.
ComparableLate(v) ==
  /\ vpc[v] = "judge"
  /\ seen[v] \notin expired
  /\ tries[v] <= MaxAttempts

\* The code of the request is compared with the hash that was read.
Comparable(v) ==
  /\ vpc[v] = "judge"
  /\ seen[v] \notin expired
  /\ tries[v] < MaxAttempts

CompareWrong(v) ==
  /\ Comparable(v)
  /\ Go(v, "record")
  /\ wrong' = [wrong EXCEPT ![seen[v]] = @ + 1]
  /\ UNCHANGED <<senderVars, seen, tries, rowVars, expired, made, taken,
                 uses, lost, kept>>

CompareRight(v) ==
  /\ Comparable(v)
  /\ Go(v, "register")
  /\ UNCHANGED <<senderVars, seen, tries, rowVars, expired, made, taken, auxVars>>

\* Mutant: a row that is gone is recreated by the statement.
RecordUpserting(v) ==
  /\ vpc[v] = "record"
  /\ Finish(v)
  /\ attempts' = attempts + 1
  /\ UNCHANGED <<senderVars, stored, expired, made, taken, auxVars>>

\* attempts + 1 for the row of the phone, whatever code it holds by now.
Record(v) ==
  /\ vpc[v] = "record"
  /\ Finish(v)
  /\ attempts' = IF stored = 0 THEN 0 ELSE attempts + 1
  /\ UNCHANGED <<senderVars, stored, expired, made, taken, auxVars>>

\* The error of the statement is ignored.
RecordError(v) ==
  /\ vpc[v] = "record"
  /\ lost < MaxLost
  /\ Finish(v)
  /\ lost' = lost + 1
  /\ UNCHANGED <<senderVars, rowVars, expired, made, taken, wrong, uses, kept>>

\* DeletePhoneVerification for the row of the phone.
DeleteRow == stored' = 0 /\ attempts' = 0

\* An expired code; the error of the statement is ignored.
Purge(v) ==
  /\ vpc[v] = "purge"
  /\ Finish(v)
  /\ DeleteRow \/ UNCHANGED rowVars
  /\ UNCHANGED <<senderVars, expired, made, taken, auxVars>>

\* The INSERT of CreateUser commits; the unique phone of users refuses a
\* second account.
CreateUser(v) ==
  /\ vpc[v] = "register"
  /\ ~taken
  /\ taken' = TRUE
  /\ uses' = [uses EXCEPT ![seen[v]] = @ + 1]
  /\ UNCHANGED <<senderVars, rowVars, expired, made, wrong, lost>>

Register(v) ==
  /\ CreateUser(v)
  /\ Go(v, "clean")
  /\ UNCHANGED <<seen, tries, kept>>

\* The phone or the username is taken, or the statement fails without effect.
RegisterError(v) ==
  /\ vpc[v] = "register"
  /\ Finish(v)
  /\ UNCHANGED <<senderVars, rowVars, expired, made, taken, auxVars>>

\* The INSERT commits and its answer is lost: the handler returns the error,
\* and its code is never deleted.
RegisterUnanswered(v) ==
  /\ CreateUser(v)
  /\ Finish(v)
  /\ kept < MaxLost
  /\ kept' = kept + 1

\* Mutant: the code of a new account is not deleted.
CleanNothing(v) ==
  /\ vpc[v] = "clean"
  /\ Finish(v)
  /\ UNCHANGED <<senderVars, rowVars, expired, made, taken, auxVars>>

Clean(v) ==
  /\ vpc[v] = "clean"
  /\ Finish(v)
  /\ DeleteRow
  /\ UNCHANGED <<senderVars, expired, made, taken, auxVars>>

\* The error of the deletion is ignored.
CleanError(v) ==
  /\ vpc[v] = "clean"
  /\ kept < MaxLost
  /\ Finish(v)
  /\ kept' = kept + 1
  /\ UNCHANGED <<senderVars, rowVars, expired, made, taken, wrong, uses, lost>>

-----------------------------------------------------------------------------
(* The world around them.                                                  *)

\* phoneCodeTTL passes.
Expire(g) ==
  /\ g <= made
  /\ g \notin expired
  /\ expired' = expired \cup {g}
  /\ UNCHANGED <<senderVars, verifierVars, rowVars, made, taken, auxVars>>

\* UpdateUser, by the owner of another account or of this one, or a
\* registration with a password, which asks for no code.
ChangePhone ==
  /\ taken' = ~taken
  /\ UNCHANGED <<senderVars, verifierVars, rowVars, expired, made, auxVars>>

At(stage) == {v \in Verifiers : vpc[v] = stage}

\* The process dies with its requests; what they would have recorded or
\* deleted is lost.  A statement that commits as it dies is the step of the
\* statement followed by this one.
Crash ==
  /\ \E s \in Senders : spc[s] # "idle"
     \/ \E v \in Verifiers : vpc[v] # "idle"
  /\ lost' = lost + Cardinality(At("record"))
  /\ kept' = kept + Cardinality(At("clean"))
  /\ lost' <= MaxLost
  /\ kept' <= MaxLost
  /\ spc' = [s \in Senders |-> "idle"]
  /\ code' = [s \in Senders |-> 0]
  /\ vpc' = [v \in Verifiers |-> "idle"]
  /\ seen' = [v \in Verifiers |-> 0]
  /\ tries' = [v \in Verifiers |-> 0]
  /\ UNCHANGED <<answer, rowVars, expired, made, taken, wrong, uses>>

Next ==
  \/ \E s \in Senders :
       RefuseSend(s) \/ MakeCode(s) \/ StoreCode(s) \/ StoreError(s) \/ SendSMS(s)
  \/ \E v \in Verifiers :
       \/ ReadRow(v)
       \/ JudgeExpired(v) \/ JudgeTooMany(v) \/ CompareWrong(v) \/ CompareRight(v)
       \/ Record(v) \/ RecordError(v) \/ Purge(v)
       \/ Register(v) \/ RegisterError(v) \/ RegisterUnanswered(v)
       \/ Clean(v) \/ CleanError(v)
  \/ \E g \in Codes : Expire(g)
  \/ ChangePhone
  \/ Crash

Spec == Init /\ [][Next]_vars

-----------------------------------------------------------------------------
\* Every variable has its type, and there are no attempts without a row.
TypeOK ==
  /\ spc \in [Senders -> SenderStates]
  /\ code \in [Senders -> 0..made]
  /\ answer \in [Senders -> {"none", "204", "409", "500", "503"}]
  /\ vpc \in [Verifiers -> VerifierStates]
  /\ seen \in [Verifiers -> 0..made]
  /\ \A v \in Verifiers : vpc[v] # "idle" => seen[v] \in 1..made
  /\ tries \in [Verifiers -> Nat]
  /\ stored \in 0..made
  /\ attempts \in Nat
  /\ stored = 0 => attempts = 0
  /\ expired \subseteq 1..made
  /\ made \in 0..MaxCodes
  /\ taken \in BOOLEAN
  /\ wrong \in [Codes -> Nat]
  /\ uses \in [Codes -> Nat]
  /\ lost \in Nat
  /\ kept \in Nat

\* The attempts of a code are checked when it is read and recorded after it
\* was compared, so requests that overlap may guess more often than
\* MaxAttempts: but only by one guess for each of the other requests served
\* at the time, and one for each guess the database did not record.
GuessBudget ==
  \A g \in Codes :
    wrong[g] <= (MaxAttempts - 1) + Cardinality(Verifiers) + lost

\* A code can register more than one account, if its phone is given up
\* meanwhile: but only once for each request served at the time, and once
\* for each registration that left the code in place, because its deletion
\* failed, was cut off by a crash, or was never tried: the handler took the
\* lost answer of the INSERT for a failure.
ReuseBounded == \A g \in Codes : uses[g] <= Cardinality(Verifiers) + kept

\* A code that is not expired and has registered nobody is removed only by a
\* request that had read an older code before this one was stored.
FreshCodeKept ==
  [][stored # 0 /\ stored' = 0 /\ stored \notin expired /\ uses[stored] = 0 =>
       \E v \in Verifiers : /\ vpc[v] \in {"purge", "clean"}
                            /\ vpc'[v] = "idle"
                            /\ seen[v] # stored]_vars

\* What the API notes promise of send_code: with a provider configured and
\* the code stored, the request succeeds.
CodeRequestSucceeds ==
  [][\A s \in Senders :
       SmsConfigured /\ spc[s] = "sms" /\ answer'[s] # "none" /\ answer'[s] # answer[s]
         => answer'[s] = "204"]_vars
=============================================================================
