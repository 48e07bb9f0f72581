---------------------- MODULE PhoneVerificationProofs ----------------------
(***************************************************************************)
(* Proofs about PhoneVerification, for any senders, any finite set of      *)
(* verifiers, any limit of attempts and any bounds.                        *)
(***************************************************************************)
EXTENDS PhoneVerification, FiniteSetTheorems, TLAPS

\* Case analysis used by every proof of this module.
SenderStep(s) ==
  RefuseSend(s) \/ MakeCode(s) \/ StoreCode(s) \/ StoreError(s) \/ SendSMS(s)

VerifierStep(v) ==
  \/ ReadRow(v)
  \/ JudgeExpired(v) \/ JudgeTooMany(v) \/ CompareWrong(v) \/ CompareRight(v)
  \/ Record(v) \/ RecordError(v) \/ Purge(v)
  \/ Register(v) \/ RegisterError(v) \/ RegisterUnanswered(v)
  \/ Clean(v) \/ CleanError(v)

LEMMA NextCases ==
  ASSUME [Next]_vars
  PROVE  \/ \E s \in Senders : SenderStep(s)
         \/ \E v \in Verifiers : VerifierStep(v)
         \/ \E g \in Codes : Expire(g)
         \/ ChangePhone
         \/ Crash
         \/ UNCHANGED vars
BY DEF Next, SenderStep, VerifierStep

\* Sets of verifiers are finite, and disjoint ones are counted together.
LEMMA VerifierSets ==
  ASSUME NEW A \in SUBSET Verifiers
  PROVE  /\ IsFiniteSet(A) /\ Cardinality(A) \in Nat
         /\ Cardinality(A) <= Cardinality(Verifiers)
         /\ Cardinality(Verifiers) \in Nat
BY VerificationAssumption, FS_Subset, FS_CardinalityType

LEMMA OneVerifier ==
  ASSUME NEW A \in SUBSET Verifiers, NEW v \in Verifiers
  PROVE  /\ v \in A => Cardinality(A \ {v}) = Cardinality(A) - 1
         /\ v \notin A => Cardinality(A \cup {v}) = Cardinality(A) + 1
         /\ Cardinality(A \ {v}) + 1 >= Cardinality(A)
<1>0. IsFiniteSet(A) /\ Cardinality(A) \in Nat
  BY VerifierSets
<1>1. v \in A => Cardinality(A \ {v}) = Cardinality(A) - 1
  BY <1>0, FS_RemoveElement
<1>2. v \notin A => Cardinality(A \cup {v}) = Cardinality(A) + 1
  BY <1>0, FS_AddElement
<1>3. v \notin A => A \ {v} = A
  OBVIOUS
<1>4. Cardinality(A \ {v}) + 1 >= Cardinality(A)
  <2>1. CASE v \in A
    BY <1>0, <1>1, <2>1
  <2>2. CASE v \notin A
    <3>1. Cardinality(A \ {v}) = Cardinality(A)
      BY <1>3, <2>2
    <3> QED BY <1>0, <3>1
  <2> QED BY <2>1, <2>2
<1> QED BY <1>1, <1>2, <1>4

LEMMA DisjointVerifiers ==
  ASSUME NEW A \in SUBSET Verifiers, NEW B \in SUBSET Verifiers, A \cap B = {}
  PROVE  Cardinality(A) + Cardinality(B) <= Cardinality(Verifiers)
<1>1. IsFiniteSet(A) /\ IsFiniteSet(B) /\ A \cup B \in SUBSET Verifiers
  BY VerifierSets
<1>2. Cardinality(A \cup B) = Cardinality(A) + Cardinality(B)
  <2>1. Cardinality(A \cap B) = 0
    BY FS_EmptySet
  <2>2. Cardinality(A) \in Nat /\ Cardinality(B) \in Nat
    BY VerifierSets
  <2>3. Cardinality(A \cup B)
          = Cardinality(A) + Cardinality(B) - Cardinality(A \cap B)
    BY <1>1, FS_Union
  <2> QED BY <2>1, <2>2, <2>3
<1> QED BY <1>1, <1>2, VerifierSets

-----------------------------------------------------------------------------
(* Type correctness.                                                       *)

LEMMA TypeInit == Init => TypeOK
<1> SUFFICES ASSUME Init PROVE TypeOK
  OBVIOUS
<1>1. 0 \in 0..made /\ made \in 0..MaxCodes
  BY VerificationAssumption DEF Init
<1> QED BY <1>1 DEF Init, TypeOK, SenderStates, VerifierStates

LEMMA TypeStep == TypeOK /\ [Next]_vars => TypeOK'
<1> SUFFICES ASSUME TypeOK, [Next]_vars PROVE TypeOK'
  OBVIOUS
<1>0. MaxCodes \in Nat /\ made \in Nat /\ 0 \in 0..made
  BY VerificationAssumption DEF TypeOK
<1>1. CASE UNCHANGED vars
  BY <1>1 DEF TypeOK, vars, senderVars, verifierVars, rowVars, auxVars
<1>2. CASE Crash
  <2>1. Cardinality(At("record")) \in Nat /\ Cardinality(At("clean")) \in Nat
    BY VerifierSets DEF At
  <2> QED BY <1>0, <1>2, <2>1 DEF Crash, rowVars, TypeOK, SenderStates, VerifierStates
<1>3. CASE ChangePhone
  BY <1>3 DEF ChangePhone, TypeOK, senderVars, verifierVars, rowVars, auxVars
<1>4. ASSUME NEW g \in Codes, Expire(g) PROVE TypeOK'
  <2>1. expired' \subseteq 1..made
    BY <1>0, <1>4 DEF Expire, Codes, TypeOK
  <2> QED BY <1>4, <2>1 DEF Expire, TypeOK, senderVars, verifierVars, rowVars, auxVars
<1>5. ASSUME NEW s \in Senders, SenderStep(s) PROVE TypeOK'
  <2> USE DEF verifierVars, rowVars, auxVars, SenderStates
  <2>1. CASE RefuseSend(s) \/ SendSMS(s)
    BY <1>0, <2>1 DEF RefuseSend, SendSMS, Respond, TypeOK
  <2>2. CASE MakeCode(s)
    <3>1. made + 1 \in 1..MaxCodes /\ made' = made + 1
      BY <1>0, <2>2 DEF MakeCode, TypeOK
    <3> QED BY <2>2, <3>1 DEF MakeCode, TypeOK
  <2>3. CASE StoreCode(s)
    BY <1>0, <2>3 DEF StoreCode, WriteRow, TypeOK
  <2>4. CASE StoreError(s)
    BY <1>0, <2>4 DEF StoreError, WriteRow, Respond, TypeOK
  <2> QED BY <1>5, <2>1, <2>2, <2>3, <2>4 DEF SenderStep
<1>6. ASSUME NEW v \in Verifiers, VerifierStep(v) PROVE TypeOK'
  <2> DEFINE Locals == /\ vpc \in [Verifiers -> VerifierStates]
                       /\ seen \in [Verifiers -> 0..made]
                       /\ \A x \in Verifiers : vpc[x] # "idle" => seen[x] \in 1..made
                       /\ tries \in [Verifiers -> Nat]
  <2>1. ASSUME Finish(v), made' = made PROVE Locals'
    BY <1>0, <2>1 DEF Finish, Go, TypeOK, VerifierStates
  <2>2. ASSUME NEW to \in VerifierStates, vpc[v] # "idle", Go(v, to),
               UNCHANGED <<seen, tries, made>>
        PROVE  Locals'
    BY <2>2 DEF Go, TypeOK
  <2>0. ASSUME CreateUser(v)
        PROVE  /\ uses' \in [Codes -> Nat]
               /\ UNCHANGED <<spc, code, answer, stored, attempts, expired, made,
                              wrong, lost>> /\ taken' = TRUE
    <3>1. uses \in [Codes -> Nat] /\ uses' = [uses EXCEPT ![seen[v]] = @ + 1]
      BY <2>0 DEF CreateUser, TypeOK
    <3>2. seen[v] \in Codes /\ uses[seen[v]] \in Nat
      BY <1>0, <2>0 DEF CreateUser, TypeOK, Codes
    <3>3. uses' \in [Codes -> Nat]
      BY <3>1, <3>2
    <3> QED BY <2>0, <3>3 DEF CreateUser, senderVars, rowVars
  <2>3. CASE ReadRow(v)
    BY <1>0, <2>3 DEF ReadRow, Go, TypeOK, VerifierStates, senderVars, rowVars, auxVars
  <2>4. CASE JudgeExpired(v)
    <3>1. Locals'
      BY <2>2, <2>4 DEF JudgeExpired, VerifierStates
    <3> QED BY <2>4, <3>1 DEF JudgeExpired, TypeOK, senderVars, rowVars, auxVars
  <2>5. CASE JudgeTooMany(v)
    <3>1. Locals'
      BY <2>1, <2>5 DEF JudgeTooMany
    <3> QED BY <2>5, <3>1 DEF JudgeTooMany, TypeOK, senderVars, rowVars, auxVars
  <2>6. CASE CompareRight(v)
    <3>1. Locals'
      BY <2>2, <2>6 DEF CompareRight, Comparable, VerifierStates
    <3> QED BY <2>6, <3>1 DEF CompareRight, TypeOK, senderVars, rowVars, auxVars
  <2>7. CASE CompareWrong(v)
    <3>1. Locals'
      BY <2>2, <2>7 DEF CompareWrong, Comparable, VerifierStates
    <3>2. wrong' \in [Codes -> Nat]
      <4>1. wrong \in [Codes -> Nat] /\ wrong' = [wrong EXCEPT ![seen[v]] = @ + 1]
        BY <2>7 DEF CompareWrong, TypeOK
      <4>2. seen[v] \in Codes /\ wrong[seen[v]] \in Nat
        BY <1>0, <2>7 DEF CompareWrong, Comparable, TypeOK, Codes
      <4> QED BY <4>1, <4>2
    <3>3. UNCHANGED <<spc, code, answer, stored, attempts, expired, made, taken,
                      uses, lost, kept>>
      BY <2>7 DEF CompareWrong, senderVars, rowVars
    <3> QED BY <3>1, <3>2, <3>3 DEF TypeOK
  <2>8. CASE Record(v)
    <3>1. Locals'
      BY <2>1, <2>8 DEF Record
    <3> QED BY <2>8, <3>1 DEF Record, TypeOK, senderVars, auxVars
  <2>9. CASE RecordError(v)
    <3>1. Locals'
      BY <2>1, <2>9 DEF RecordError
    <3> QED BY <2>9, <3>1 DEF RecordError, TypeOK, senderVars, rowVars
  <2>10. CASE Purge(v) \/ Clean(v)
    <3>1. Locals'
      BY <2>1, <2>10 DEF Purge, Clean
    <3>2. stored' \in 0..made /\ attempts' \in Nat /\ (stored' = 0 => attempts' = 0)
      BY <1>0, <2>10 DEF Purge, Clean, DeleteRow, TypeOK, rowVars
    <3> QED BY <2>10, <3>1, <3>2 DEF Purge, Clean, TypeOK, senderVars, auxVars
  <2>11. CASE CleanError(v)
    <3>1. Locals'
      BY <2>1, <2>11 DEF CleanError
    <3> QED BY <2>11, <3>1 DEF CleanError, TypeOK, senderVars, rowVars
  <2>12. CASE Register(v)
    <3>1. Locals'
      BY <2>2, <2>12 DEF Register, CreateUser, VerifierStates
    <3> QED BY <2>0, <2>12, <3>1 DEF Register, TypeOK
  <2>13. CASE RegisterError(v)
    <3>1. Locals'
      BY <2>1, <2>13 DEF RegisterError
    <3> QED BY <2>13, <3>1 DEF RegisterError, TypeOK, senderVars, rowVars, auxVars
  <2>14. CASE RegisterUnanswered(v)
    <3>1. Locals'
      BY <2>1, <2>14 DEF RegisterUnanswered, CreateUser
    <3>2. kept' \in Nat
      BY <2>14 DEF RegisterUnanswered, TypeOK
    <3> QED BY <2>0, <2>14, <3>1, <3>2 DEF RegisterUnanswered, TypeOK
  <2> QED BY <1>6, <2>3, <2>4, <2>5, <2>6, <2>7, <2>8, <2>9, <2>10, <2>11, <2>12,
             <2>13, <2>14 DEF VerifierStep
<1> QED BY <1>1, <1>2, <1>3, <1>4, <1>5, <1>6, NextCases

\* Every variable keeps its type, and there are never attempts without a row.
THEOREM TypeCorrect == Spec => []TypeOK
BY TypeInit, TypeStep, PTL DEF Spec

-----------------------------------------------------------------------------
(* A code is stored once, and nobody knows it before.                      *)

CodesFresh ==
  /\ \A s \in Senders : spc[s] = "store" =>
       /\ code[s] \in 1..made
       /\ code[s] # stored
       /\ wrong[code[s]] = 0 /\ uses[code[s]] = 0
       /\ \A v \in Verifiers : seen[v] # code[s]
  /\ \A r, s \in Senders :
       spc[r] = "store" /\ spc[s] = "store" /\ r # s => code[r] # code[s]
  /\ \A g \in Codes : g > made => wrong[g] = 0 /\ uses[g] = 0

LEMMA FreshInit == Init => CodesFresh
BY DEF Init, CodesFresh

LEMMA FreshStep == TypeOK /\ CodesFresh /\ [Next]_vars => CodesFresh'
<1> SUFFICES ASSUME TypeOK, CodesFresh, [Next]_vars PROVE CodesFresh'
  OBVIOUS
<1>1. CASE UNCHANGED vars
  BY <1>1 DEF CodesFresh, vars, senderVars, verifierVars, rowVars, auxVars
<1>2. CASE Crash
  BY <1>2 DEF Crash, CodesFresh
<1>3. CASE ChangePhone \/ \E g \in Codes : Expire(g)
  BY <1>3 DEF ChangePhone, Expire, CodesFresh, senderVars, verifierVars, rowVars,
       auxVars
<1>5. ASSUME NEW s \in Senders, SenderStep(s) PROVE CodesFresh'
  <2> USE DEF verifierVars, rowVars, auxVars
  <2>1. CASE RefuseSend(s) \/ SendSMS(s)
    BY <2>1 DEF RefuseSend, SendSMS, Respond, TypeOK, CodesFresh
  <2>2. CASE MakeCode(s)
    BY <2>2, VerificationAssumption DEF MakeCode, TypeOK, CodesFresh, Codes
  <2>3. CASE StoreCode(s)
    BY <2>3 DEF StoreCode, WriteRow, TypeOK, CodesFresh
  <2>4. CASE StoreError(s)
    BY <2>4 DEF StoreError, WriteRow, Respond, TypeOK, CodesFresh
  <2> QED BY <1>5, <2>1, <2>2, <2>3, <2>4 DEF SenderStep
<1>6. ASSUME NEW v \in Verifiers, VerifierStep(v) PROVE CodesFresh'
  <2> USE DEF senderVars, rowVars, auxVars, Go, Finish
  <2>1. CASE ReadRow(v)
    BY <2>1 DEF ReadRow, TypeOK, CodesFresh
  <2>2. CASE JudgeExpired(v) \/ JudgeTooMany(v) \/ CompareRight(v)
    BY <2>2 DEF JudgeExpired, JudgeTooMany, CompareRight, Comparable, TypeOK,
         CodesFresh
  <2>3. CASE CompareWrong(v)
    BY <2>3 DEF CompareWrong, Comparable, TypeOK, Codes, CodesFresh
  <2>4. CASE Record(v) \/ RecordError(v) \/ RegisterError(v)
    BY <2>4 DEF Record, RecordError, RegisterError, TypeOK, CodesFresh
  <2>5. CASE Purge(v) \/ Clean(v) \/ CleanError(v)
    BY <2>5 DEF Purge, Clean, CleanError, DeleteRow, TypeOK, CodesFresh
  <2>6. CASE Register(v)
    BY <2>6 DEF Register, CreateUser, TypeOK, Codes, CodesFresh
  <2>7. CASE RegisterUnanswered(v)
    BY <2>7 DEF RegisterUnanswered, CreateUser, TypeOK, Codes, CodesFresh
  <2> QED BY <1>6, <2>1, <2>2, <2>3, <2>4, <2>5, <2>6, <2>7 DEF VerifierStep
<1> QED BY <1>1, <1>2, <1>3, <1>5, <1>6, NextCases

-----------------------------------------------------------------------------
(* The budget of guesses.                                                  *)

\* Requests that may still compare with g, and that have compared with it
\* and not yet recorded it.
Guessing(g) ==
  {v \in Verifiers : vpc[v] = "judge" /\ seen[v] = g /\ tries[v] < MaxAttempts}
Recording(g) == {v \in Verifiers : vpc[v] = "record" /\ seen[v] = g}

\* GuessBudget is inductive with the guesses still to come on its left, and
\* if the attempts of the row account for the guesses already made.
GuessesOf(g) ==
  /\ g = stored => wrong[g] <= attempts + Cardinality(Recording(g)) + lost
  /\ wrong[g] + Cardinality(Guessing(g))
       <= (MaxAttempts - 1) + Cardinality(Verifiers) + lost

GuessesInv == \A g \in Codes : GuessesOf(g)

LEMMA GuessesInit == Init => GuessesInv
<1> SUFFICES ASSUME Init, NEW g \in Codes PROVE GuessesOf(g)
  BY DEF GuessesInv
<1>1. Guessing(g) = {} /\ Cardinality(Guessing(g)) = 0
  BY FS_EmptySet DEF Init, Guessing
<1>2. g # stored /\ wrong[g] = 0 /\ lost = 0
  BY DEF Init, Codes
<1> QED BY <1>1, <1>2, VerifierSets, VerificationAssumption DEF GuessesOf

LEMMA GuessFacts ==
  ASSUME TypeOK, NEW g \in Codes
  PROVE  /\ Guessing(g) \in SUBSET Verifiers /\ Cardinality(Guessing(g)) \in Nat
         /\ Recording(g) \in SUBSET Verifiers /\ Cardinality(Recording(g)) \in Nat
         /\ wrong[g] \in Nat /\ lost \in Nat /\ attempts \in Nat
         /\ MaxAttempts \in Nat \ {0} /\ Cardinality(Verifiers) \in Nat
BY VerifierSets, VerificationAssumption DEF TypeOK, Guessing, Recording

\* A step that neither guesses nor forgets a guess, and lets nobody read.
LEMMA GuessesQuiet ==
  ASSUME TypeOK, TypeOK', NEW g \in Codes, GuessesOf(g),
         wrong'[g] = wrong[g], lost' >= lost,
         g = stored' => wrong[g] = 0 \/ (g = stored /\ attempts' >= attempts),
         Recording(g)' = Recording(g),
         Guessing(g)' \subseteq Guessing(g)
  PROVE  GuessesOf(g)'
<1>1. /\ Cardinality(Guessing(g)') <= Cardinality(Guessing(g))
      /\ Cardinality(Guessing(g)') \in Nat /\ Cardinality(Recording(g)') \in Nat
  BY GuessFacts, VerifierSets, FS_Subset
<1>2. lost' \in Nat /\ attempts' \in Nat
  BY DEF TypeOK
<1>3. Cardinality(Recording(g)') = Cardinality(Recording(g))
  OBVIOUS
<1>4. g = stored' =>
        wrong'[g] <= attempts' + Cardinality(Recording(g)') + lost'
  BY <1>1, <1>2, <1>3, GuessFacts DEF GuessesOf
<1>5. wrong'[g] + Cardinality(Guessing(g)')
        <= (MaxAttempts - 1) + Cardinality(Verifiers) + lost'
  BY <1>1, <1>2, GuessFacts DEF GuessesOf
<1> QED BY <1>4, <1>5 DEF GuessesOf

LEMMA GuessesStep ==
  TypeOK /\ TypeOK' /\ CodesFresh /\ GuessesInv /\ [Next]_vars => GuessesInv'
<1> SUFFICES ASSUME TypeOK, TypeOK', CodesFresh, GuessesInv, [Next]_vars,
                    NEW g \in Codes
             PROVE  GuessesOf(g)'
  BY DEF GuessesInv
<1>0. GuessesOf(g) /\ lost \in Nat /\ attempts \in Nat
  BY DEF GuessesInv, TypeOK
<1>1. CASE UNCHANGED vars
  BY <1>0, <1>1, GuessesQuiet
    DEF vars, senderVars, verifierVars, rowVars, auxVars, Guessing, Recording
<1>2. CASE Crash
  <2>1. Guessing(g)' = {} /\ Recording(g)' = {}
    BY <1>2 DEF Crash, Guessing, Recording
  <2>2. Cardinality(Recording(g)) <= Cardinality(At("record"))
    <3>1. Recording(g) \subseteq At("record") /\ At("record") \in SUBSET Verifiers
      BY DEF Recording, At
    <3> QED BY <3>1, VerifierSets, FS_Subset
  <2>3. /\ lost' = lost + Cardinality(At("record")) /\ Cardinality(At("record")) \in Nat
        /\ UNCHANGED <<wrong, stored, attempts>>
    <3>1. At("record") \in SUBSET Verifiers
      BY DEF At
    <3> QED BY <1>2, <3>1, VerifierSets DEF Crash, rowVars
  <2>4. Cardinality(Guessing(g)') = 0 /\ Cardinality(Recording(g)') = 0
    BY <2>1, FS_EmptySet
  <2> QED BY <1>0, <2>2, <2>3, <2>4, GuessFacts DEF GuessesOf
<1>3. CASE ChangePhone \/ \E x \in Codes : Expire(x)
  BY <1>0, <1>3, GuessesQuiet
    DEF ChangePhone, Expire, senderVars, verifierVars, rowVars, auxVars, Guessing,
        Recording
<1>4. ASSUME NEW s \in Senders, SenderStep(s) PROVE GuessesOf(g)'
  <2>1. /\ UNCHANGED <<vpc, seen, tries, wrong, lost>>
        /\ Guessing(g)' = Guessing(g) /\ Recording(g)' = Recording(g)
    BY <1>4 DEF SenderStep, RefuseSend, MakeCode, StoreCode, StoreError, SendSMS,
         verifierVars, auxVars, Guessing, Recording
  <2>2. g = stored' => wrong[g] = 0 \/ (g = stored /\ attempts' >= attempts)
    <3>1. CASE StoreCode(s) \/ StoreError(s)
      BY <1>0, <3>1 DEF StoreCode, StoreError, WriteRow, CodesFresh, rowVars
    <3>2. CASE ~StoreCode(s) /\ ~StoreError(s)
      BY <1>0, <1>4, <3>2 DEF SenderStep, RefuseSend, MakeCode, SendSMS, rowVars
    <3> QED BY <3>1, <3>2
  <2> QED BY <1>0, <2>1, <2>2, GuessesQuiet
<1>5. ASSUME NEW v \in Verifiers, VerifierStep(v) PROVE GuessesOf(g)'
  <2> USE DEF Go, Finish
  <2>1. CASE ReadRow(v)
    <3>1. CASE g = stored /\ attempts < MaxAttempts
      <4>1. Recording(g)' = Recording(g) /\ UNCHANGED <<wrong, lost, stored, attempts>>
        BY <2>1 DEF ReadRow, Recording, TypeOK, rowVars, auxVars
      <4>2. Guessing(g)' \in SUBSET Verifiers /\ Guessing(g)' \cap Recording(g) = {}
        BY <2>1 DEF ReadRow, Guessing, Recording, TypeOK
      <4>3. /\ Cardinality(Guessing(g)') + Cardinality(Recording(g))
                 <= Cardinality(Verifiers)
            /\ Cardinality(Guessing(g)') \in Nat
        BY <4>2, GuessFacts, DisjointVerifiers, VerifierSets
      <4>4. wrong[g] <= attempts + Cardinality(Recording(g)) + lost
        BY <1>0, <3>1 DEF GuessesOf
      <4>5. wrong[g] + Cardinality(Guessing(g)')
              <= (MaxAttempts - 1) + Cardinality(Verifiers) + lost
        BY <3>1, <4>3, <4>4, GuessFacts
      <4> QED BY <4>1, <4>4, <4>5 DEF GuessesOf
    <3>2. CASE ~(g = stored /\ attempts < MaxAttempts)
      <4>1. Recording(g)' = Recording(g) /\ Guessing(g)' \subseteq Guessing(g)
        BY <2>1, <3>2 DEF ReadRow, Recording, Guessing, TypeOK
      <4> QED BY <1>0, <2>1, <4>1, GuessesQuiet DEF ReadRow, rowVars, auxVars
    <3> QED BY <3>1, <3>2
  <2>2. CASE JudgeExpired(v) \/ JudgeTooMany(v) \/ CompareRight(v)
    <3>1. Recording(g)' = Recording(g) /\ Guessing(g)' \subseteq Guessing(g)
      BY <2>2 DEF JudgeExpired, JudgeTooMany, CompareRight, Comparable, Recording,
           Guessing, TypeOK
    <3>2. UNCHANGED <<stored, attempts, wrong, lost>>
      BY <2>2 DEF JudgeExpired, JudgeTooMany, CompareRight, rowVars, auxVars
    <3> QED BY <1>0, <3>1, <3>2, GuessesQuiet
  <2>3. CASE CompareWrong(v)
    <3>0. seen[v] \in Codes /\ UNCHANGED <<stored, attempts, lost>>
      BY <2>3, VerificationAssumption DEF CompareWrong, Comparable, TypeOK, Codes, rowVars
    <3>1. CASE seen[v] = g
      <4>1. Guessing(g)' = Guessing(g) \ {v} /\ v \in Guessing(g)
        BY <2>3, <3>1 DEF CompareWrong, Comparable, Guessing, TypeOK
      <4>2. Recording(g)' = Recording(g) \cup {v} /\ v \notin Recording(g)
        BY <2>3, <3>1 DEF CompareWrong, Comparable, Recording, TypeOK
      <4>3. Cardinality(Guessing(g) \ {v}) = Cardinality(Guessing(g)) - 1
        BY <4>1, GuessFacts, OneVerifier
      <4>4. Cardinality(Recording(g) \cup {v}) = Cardinality(Recording(g)) + 1
        BY <4>2, GuessFacts, OneVerifier
      <4>5. wrong'[g] = wrong[g] + 1
        BY <2>3, <3>1 DEF CompareWrong, TypeOK
      <4>6. wrong'[g] + Cardinality(Guessing(g)') = wrong[g] + Cardinality(Guessing(g))
        BY <4>1, <4>3, <4>5, GuessFacts
      <4>7. wrong'[g] - Cardinality(Recording(g)') = wrong[g] - Cardinality(Recording(g))
        BY <4>2, <4>4, <4>5, GuessFacts
      <4>8. Cardinality(Recording(g)') \in Nat /\ wrong'[g] \in Nat
        BY <4>2, <4>4, <4>5, GuessFacts
      <4> QED BY <1>0, <3>0, <4>6, <4>7, <4>8, GuessFacts DEF GuessesOf
    <3>2. CASE seen[v] # g
      <4>1. Recording(g)' = Recording(g) /\ Guessing(g)' \subseteq Guessing(g)
        BY <2>3, <3>2 DEF CompareWrong, Recording, Guessing, TypeOK
      <4>2. wrong'[g] = wrong[g]
        BY <2>3, <3>2 DEF CompareWrong, TypeOK
      <4> QED BY <1>0, <3>0, <4>1, <4>2, GuessesQuiet
    <3> QED BY <3>1, <3>2
  <2>4. CASE Record(v) \/ RecordError(v)
    <3>0. wrong' = wrong /\ stored' = stored
      BY <2>4 DEF Record, RecordError, auxVars, rowVars
    <3>1. Guessing(g)' \subseteq Guessing(g)
      BY <2>4 DEF Record, RecordError, Guessing, TypeOK
    <3>2. Recording(g)' = Recording(g) \ {v}
      BY <2>4 DEF Record, RecordError, Recording, TypeOK
    <3>3. /\ g = stored => attempts' + lost' = attempts + lost + 1
          /\ lost' >= lost /\ attempts' \in Nat /\ lost' \in Nat
      <4>1. g # 0
        BY DEF Codes
      <4>2. CASE Record(v)
        BY <1>0, <4>1, <4>2 DEF Record, auxVars
      <4>3. CASE RecordError(v)
        BY <1>0, <4>3 DEF RecordError, rowVars
      <4> QED BY <2>4, <4>2, <4>3
    <3>4. /\ Cardinality(Guessing(g)') <= Cardinality(Guessing(g))
          /\ Cardinality(Guessing(g)') \in Nat
      BY <3>1, GuessFacts, VerifierSets, FS_Subset
    <3>5. /\ Cardinality(Recording(g) \ {v}) + 1 >= Cardinality(Recording(g))
          /\ Cardinality(Recording(g) \ {v}) \in Nat
      BY GuessFacts, VerifierSets, OneVerifier
    <3>6. /\ Cardinality(Recording(g)') + 1 >= Cardinality(Recording(g))
          /\ Cardinality(Recording(g)') \in Nat
      BY <3>2, <3>5
    <3>7. g = stored' => wrong'[g] <= attempts' + Cardinality(Recording(g)') + lost'
      <4> SUFFICES ASSUME g = stored'
                   PROVE  wrong'[g] <= attempts' + Cardinality(Recording(g)') + lost'
        OBVIOUS
      <4>1. g = stored /\ wrong'[g] = wrong[g]
        BY <3>0
      <4>2. wrong[g] <= attempts + Cardinality(Recording(g)) + lost
        BY <1>0, <4>1 DEF GuessesOf
      <4> QED BY <3>3, <3>6, <4>1, <4>2, GuessFacts
    <3>8. wrong'[g] + Cardinality(Guessing(g)')
            <= (MaxAttempts - 1) + Cardinality(Verifiers) + lost'
      BY <1>0, <3>0, <3>3, <3>4, GuessFacts DEF GuessesOf
    <3> QED BY <3>7, <3>8 DEF GuessesOf
  <2>5. CASE Purge(v) \/ Clean(v) \/ CleanError(v)
    <3>1. Recording(g)' = Recording(g) /\ Guessing(g)' \subseteq Guessing(g)
      BY <2>5 DEF Purge, Clean, CleanError, Recording, Guessing, TypeOK
    <3>2. /\ UNCHANGED <<wrong, lost>>
          /\ g = stored' => g = stored /\ attempts' = attempts
      BY <2>5 DEF Purge, Clean, CleanError, DeleteRow, rowVars, auxVars, Codes
    <3> QED BY <1>0, <3>1, <3>2, GuessesQuiet
  <2>6. CASE Register(v) \/ RegisterError(v) \/ RegisterUnanswered(v)
    <3>1. Recording(g)' = Recording(g) /\ Guessing(g)' \subseteq Guessing(g)
      BY <2>6 DEF Register, RegisterError, RegisterUnanswered, CreateUser, Recording,
           Guessing, TypeOK
    <3>2. UNCHANGED <<wrong, lost, stored, attempts>>
      BY <2>6 DEF Register, RegisterError, RegisterUnanswered, CreateUser, rowVars,
           auxVars
    <3> QED BY <1>0, <3>1, <3>2, GuessesQuiet
  <2> QED BY <1>5, <2>1, <2>2, <2>3, <2>4, <2>5, <2>6 DEF VerifierStep
<1> QED BY <1>1, <1>2, <1>3, <1>4, <1>5, NextCases

\* However the requests overlap, no code is guessed wrongly more often than
\* MaxAttempts - 1 times, once more for each request served at the time and
\* once more for each guess the database did not record.
THEOREM BudgetCorrect == Spec => []GuessBudget
<1>1. TypeOK /\ GuessesInv => GuessBudget
  <2> SUFFICES ASSUME TypeOK, GuessesInv, NEW g \in Codes
               PROVE  wrong[g] <= (MaxAttempts - 1) + Cardinality(Verifiers) + lost
    BY DEF GuessBudget
  <2> QED BY GuessFacts DEF GuessesInv, GuessesOf
<1> QED BY <1>1, TypeInit, TypeStep, FreshInit, FreshStep, GuessesInit, GuessesStep,
           PTL DEF Spec

-----------------------------------------------------------------------------
(* The reuse of a code.                                                    *)

\* Requests that may still register with g, and that have registered with
\* it and not yet deleted it.
Holding(g) == {v \in Verifiers : vpc[v] \in {"judge", "register"} /\ seen[v] = g}
Cleaning(g) == {v \in Verifiers : vpc[v] = "clean" /\ seen[v] = g}

\* ReuseBounded is inductive with the registrations still to come on its
\* left, and if a code that is still there has only been used by requests
\* that have yet to delete it or never will.
ReuseOf(g) ==
  /\ g = stored => uses[g] <= Cardinality(Cleaning(g)) + kept
  /\ uses[g] + Cardinality(Holding(g)) <= Cardinality(Verifiers) + kept

ReuseInv == \A g \in Codes : ReuseOf(g)

LEMMA ReuseFacts ==
  ASSUME TypeOK, NEW g \in Codes
  PROVE  /\ Holding(g) \in SUBSET Verifiers /\ Cardinality(Holding(g)) \in Nat
         /\ Cleaning(g) \in SUBSET Verifiers /\ Cardinality(Cleaning(g)) \in Nat
         /\ uses[g] \in Nat /\ kept \in Nat /\ Cardinality(Verifiers) \in Nat
BY VerifierSets DEF TypeOK, Holding, Cleaning

LEMMA ReuseInit == Init => ReuseInv
<1> SUFFICES ASSUME Init, NEW g \in Codes PROVE ReuseOf(g)
  BY DEF ReuseInv
<1>1. Holding(g) = {} /\ Cardinality(Holding(g)) = 0
  BY FS_EmptySet DEF Init, Holding
<1>2. g # stored /\ uses[g] = 0 /\ kept = 0
  BY DEF Init, Codes
<1> QED BY <1>1, <1>2, VerifierSets DEF ReuseOf

\* A step that neither registers with g nor deletes it, and lets nobody read.
LEMMA ReuseQuiet ==
  ASSUME TypeOK, TypeOK', NEW g \in Codes, ReuseOf(g),
         uses'[g] = uses[g], kept' >= kept,
         g = stored' => uses[g] = 0 \/ (g = stored /\ Cleaning(g)' = Cleaning(g)),
         Holding(g)' \subseteq Holding(g)
  PROVE  ReuseOf(g)'
<1>1. /\ Cardinality(Holding(g)') <= Cardinality(Holding(g))
      /\ Cardinality(Holding(g)') \in Nat
  BY ReuseFacts, VerifierSets, FS_Subset
<1>2. Cardinality(Cleaning(g)') \in Nat
  <2>1. Cleaning(g)' \in SUBSET Verifiers
    BY DEF Cleaning
  <2> QED BY <2>1, VerifierSets
<1>5. kept' \in Nat
  BY DEF TypeOK
<1>3. g = stored' => uses'[g] <= Cardinality(Cleaning(g)') + kept'
  <2> SUFFICES ASSUME g = stored'
               PROVE  uses[g] <= Cardinality(Cleaning(g)') + kept'
    OBVIOUS
  <2>1. CASE uses[g] = 0
    BY <1>2, <1>5, <2>1, ReuseFacts
  <2>2. CASE g = stored /\ Cleaning(g)' = Cleaning(g)
    <3>1. Cardinality(Cleaning(g)') = Cardinality(Cleaning(g))
      BY <2>2
    <3>2. uses[g] <= Cardinality(Cleaning(g)) + kept
      BY <2>2 DEF ReuseOf
    <3> QED BY <1>2, <1>5, <3>1, <3>2, ReuseFacts
  <2> QED BY <2>1, <2>2
<1>4. uses'[g] + Cardinality(Holding(g)') <= Cardinality(Verifiers) + kept'
  BY <1>1, <1>5, ReuseFacts DEF ReuseOf
<1> QED BY <1>3, <1>4 DEF ReuseOf

LEMMA ReuseStep ==
  TypeOK /\ TypeOK' /\ CodesFresh /\ ReuseInv /\ [Next]_vars => ReuseInv'
<1> SUFFICES ASSUME TypeOK, TypeOK', CodesFresh, ReuseInv, [Next]_vars,
                    NEW g \in Codes
             PROVE  ReuseOf(g)'
  BY DEF ReuseInv
<1>0. ReuseOf(g) /\ kept \in Nat
  BY DEF ReuseInv, TypeOK
<1>1. CASE UNCHANGED vars
  BY <1>0, <1>1, ReuseQuiet
    DEF vars, senderVars, verifierVars, rowVars, auxVars, Holding, Cleaning
<1>2. CASE Crash
  <2>1. Holding(g)' = {} /\ Cleaning(g)' = {}
    BY <1>2 DEF Crash, Holding, Cleaning
  <2>2. /\ Cardinality(Cleaning(g)) <= Cardinality(At("clean"))
        /\ Cardinality(At("clean")) \in Nat
    <3>1. Cleaning(g) \subseteq At("clean") /\ At("clean") \in SUBSET Verifiers
      BY DEF Cleaning, At
    <3> QED BY <3>1, VerifierSets, FS_Subset
  <2>3. kept' = kept + Cardinality(At("clean")) /\ UNCHANGED <<uses, stored>>
    BY <1>2 DEF Crash, rowVars
  <2>4. Cardinality(Holding(g)') = 0 /\ Cardinality(Cleaning(g)') = 0
    BY <2>1, FS_EmptySet
  <2> QED BY <1>0, <2>2, <2>3, <2>4, ReuseFacts DEF ReuseOf
<1>3. CASE ChangePhone \/ \E x \in Codes : Expire(x)
  BY <1>0, <1>3, ReuseQuiet
    DEF ChangePhone, Expire, senderVars, verifierVars, rowVars, auxVars, Holding,
        Cleaning
<1>4. ASSUME NEW s \in Senders, SenderStep(s) PROVE ReuseOf(g)'
  <2>1. /\ UNCHANGED <<vpc, seen, uses, kept>>
        /\ Holding(g)' = Holding(g) /\ Cleaning(g)' = Cleaning(g)
    BY <1>4 DEF SenderStep, RefuseSend, MakeCode, StoreCode, StoreError, SendSMS,
         verifierVars, auxVars, Holding, Cleaning
  <2>2. g = stored' => uses[g] = 0 \/ g = stored
    <3>1. CASE StoreCode(s) \/ StoreError(s)
      BY <3>1 DEF StoreCode, StoreError, WriteRow, CodesFresh, rowVars
    <3>2. CASE ~StoreCode(s) /\ ~StoreError(s)
      BY <1>4, <3>2 DEF SenderStep, RefuseSend, MakeCode, SendSMS, rowVars
    <3> QED BY <3>1, <3>2
  <2> QED BY <1>0, <2>1, <2>2, ReuseQuiet
<1>5. ASSUME NEW v \in Verifiers, VerifierStep(v) PROVE ReuseOf(g)'
  <2> USE DEF Go, Finish
  <2>1. CASE ReadRow(v)
    <3>0. Cleaning(g)' = Cleaning(g) /\ UNCHANGED <<uses, kept, stored>>
      BY <2>1 DEF ReadRow, Cleaning, TypeOK, rowVars, auxVars
    <3>1. CASE g = stored
      <4>1. Holding(g)' \in SUBSET Verifiers /\ Holding(g)' \cap Cleaning(g) = {}
        BY <2>1 DEF ReadRow, Holding, Cleaning, TypeOK
      <4>2. /\ Cardinality(Holding(g)') + Cardinality(Cleaning(g))
                 <= Cardinality(Verifiers)
            /\ Cardinality(Holding(g)') \in Nat
        BY <4>1, ReuseFacts, DisjointVerifiers, VerifierSets
      <4>3. uses[g] <= Cardinality(Cleaning(g)) + kept
        BY <1>0, <3>1 DEF ReuseOf
      <4>4. uses[g] + Cardinality(Holding(g)') <= Cardinality(Verifiers) + kept
        BY <4>2, <4>3, ReuseFacts
      <4> QED BY <3>0, <4>3, <4>4 DEF ReuseOf
    <3>2. CASE g # stored
      <4>1. Holding(g)' \subseteq Holding(g)
        BY <2>1, <3>2 DEF ReadRow, Holding, TypeOK
      <4> QED BY <1>0, <3>0, <4>1, ReuseQuiet
    <3> QED BY <3>1, <3>2
  <2>2. CASE \/ JudgeExpired(v) \/ JudgeTooMany(v) \/ CompareRight(v)
             \/ CompareWrong(v) \/ RegisterError(v)
    <3>1. Cleaning(g)' = Cleaning(g) /\ Holding(g)' \subseteq Holding(g)
      BY <2>2 DEF JudgeExpired, JudgeTooMany, CompareRight, CompareWrong, Comparable,
           RegisterError, Cleaning, Holding, TypeOK
    <3>2. UNCHANGED <<stored, uses, kept>>
      BY <2>2 DEF JudgeExpired, JudgeTooMany, CompareRight, CompareWrong,
           RegisterError, rowVars, auxVars
    <3> QED BY <1>0, <3>1, <3>2, ReuseQuiet
  <2>3. CASE Record(v) \/ RecordError(v)
    <3>1. Cleaning(g)' = Cleaning(g) /\ Holding(g)' \subseteq Holding(g)
      BY <2>3 DEF Record, RecordError, Cleaning, Holding, TypeOK
    <3>2. UNCHANGED <<stored, uses, kept>>
      BY <2>3 DEF Record, RecordError, rowVars, auxVars
    <3> QED BY <1>0, <3>1, <3>2, ReuseQuiet
  <2>4. CASE Purge(v)
    <3>1. Cleaning(g)' = Cleaning(g) /\ Holding(g)' \subseteq Holding(g)
      BY <2>4 DEF Purge, Cleaning, Holding, TypeOK
    <3>2. UNCHANGED <<uses, kept>> /\ (g = stored' => g = stored)
      BY <2>4 DEF Purge, DeleteRow, rowVars, auxVars, Codes
    <3> QED BY <1>0, <3>1, <3>2, ReuseQuiet
  <2>5. CASE Clean(v)
    <3>1. Holding(g)' \subseteq Holding(g)
      BY <2>5 DEF Clean, Holding, TypeOK
    <3>2. UNCHANGED <<uses, kept>> /\ g # stored'
      BY <2>5 DEF Clean, DeleteRow, auxVars, Codes
    <3> QED BY <1>0, <3>1, <3>2, ReuseQuiet
  <2>6. CASE CleanError(v)
    <3>1. Holding(g)' \subseteq Holding(g) /\ Cleaning(g)' = Cleaning(g) \ {v}
      BY <2>6 DEF CleanError, Holding, Cleaning, TypeOK
    <3>2. UNCHANGED <<uses, stored>> /\ kept' = kept + 1
      BY <2>6 DEF CleanError, rowVars
    <3>3. /\ Cardinality(Holding(g)') <= Cardinality(Holding(g))
          /\ Cardinality(Holding(g)') \in Nat
      BY <3>1, ReuseFacts, VerifierSets, FS_Subset
    <3>4. /\ Cardinality(Cleaning(g) \ {v}) + 1 >= Cardinality(Cleaning(g))
          /\ Cardinality(Cleaning(g) \ {v}) \in Nat
      BY ReuseFacts, VerifierSets, OneVerifier
    <3>5. g = stored' => uses'[g] <= Cardinality(Cleaning(g)') + kept'
      <4> SUFFICES ASSUME g = stored
                   PROVE  uses[g] <= Cardinality(Cleaning(g) \ {v}) + kept + 1
        BY <1>0, <3>1, <3>2, <3>4
      <4>1. uses[g] <= Cardinality(Cleaning(g)) + kept
        BY <1>0 DEF ReuseOf
      <4> QED BY <3>4, <4>1, ReuseFacts
    <3>6. uses'[g] + Cardinality(Holding(g)') <= Cardinality(Verifiers) + kept'
      BY <1>0, <3>2, <3>3, ReuseFacts DEF ReuseOf
    <3> QED BY <3>5, <3>6 DEF ReuseOf
  <2>7. CASE Register(v)
    <3>0. seen[v] \in Codes /\ UNCHANGED <<stored, kept>>
      BY <2>7, VerificationAssumption DEF Register, CreateUser, TypeOK, Codes, rowVars
    <3>1. CASE seen[v] = g
      <4>1. Holding(g)' = Holding(g) \ {v} /\ v \in Holding(g)
        BY <2>7, <3>1 DEF Register, CreateUser, Holding, TypeOK
      <4>2. Cleaning(g)' = Cleaning(g) \cup {v} /\ v \notin Cleaning(g)
        BY <2>7, <3>1 DEF Register, CreateUser, Cleaning, TypeOK
      <4>3. Cardinality(Holding(g) \ {v}) = Cardinality(Holding(g)) - 1
        BY <4>1, ReuseFacts, OneVerifier
      <4>4. Cardinality(Cleaning(g) \cup {v}) = Cardinality(Cleaning(g)) + 1
        BY <4>2, ReuseFacts, OneVerifier
      <4>5. uses'[g] = uses[g] + 1
        BY <2>7, <3>1 DEF Register, CreateUser, TypeOK
      <4>6. uses'[g] + Cardinality(Holding(g)') = uses[g] + Cardinality(Holding(g))
        BY <4>1, <4>3, <4>5, ReuseFacts
      <4>7. uses'[g] - Cardinality(Cleaning(g)') = uses[g] - Cardinality(Cleaning(g))
        BY <4>2, <4>4, <4>5, ReuseFacts
      <4>8. Cardinality(Cleaning(g)') \in Nat /\ uses'[g] \in Nat
        BY <4>2, <4>4, <4>5, ReuseFacts
      <4> QED BY <1>0, <3>0, <4>6, <4>7, <4>8, ReuseFacts DEF ReuseOf
    <3>2. CASE seen[v] # g
      <4>1. Cleaning(g)' = Cleaning(g) /\ Holding(g)' \subseteq Holding(g)
        BY <2>7, <3>2 DEF Register, CreateUser, Cleaning, Holding, TypeOK
      <4>2. uses'[g] = uses[g]
        BY <2>7, <3>2 DEF Register, CreateUser, TypeOK
      <4> QED BY <1>0, <3>0, <4>1, <4>2, ReuseQuiet
    <3> QED BY <3>1, <3>2
  <2>8. CASE RegisterUnanswered(v)
    <3>0. /\ seen[v] \in Codes /\ UNCHANGED stored /\ kept' = kept + 1
          /\ Cleaning(g)' = Cleaning(g) /\ Holding(g)' \subseteq Holding(g)
      BY <2>8, VerificationAssumption DEF RegisterUnanswered, CreateUser, TypeOK, Codes,
           rowVars, Cleaning, Holding
    <3>1. CASE seen[v] = g
      <4>1. Holding(g)' = Holding(g) \ {v} /\ v \in Holding(g)
        BY <2>8, <3>1 DEF RegisterUnanswered, CreateUser, Holding, TypeOK
      <4>2. Cardinality(Holding(g)') = Cardinality(Holding(g)) - 1
        BY <4>1, ReuseFacts, OneVerifier
      <4>3. uses'[g] = uses[g] + 1
        BY <2>8, <3>1 DEF RegisterUnanswered, CreateUser, TypeOK
      <4>4. Cardinality(Cleaning(g)') = Cardinality(Cleaning(g))
        BY <3>0
      <4>5. g = stored' => uses'[g] <= Cardinality(Cleaning(g)') + kept'
        BY <1>0, <3>0, <4>3, <4>4, ReuseFacts DEF ReuseOf
      <4>6. uses'[g] + Cardinality(Holding(g)') <= Cardinality(Verifiers) + kept'
        BY <1>0, <3>0, <4>2, <4>3, ReuseFacts DEF ReuseOf
      <4> QED BY <4>5, <4>6 DEF ReuseOf
    <3>2. CASE seen[v] # g
      <4>1. uses'[g] = uses[g]
        BY <2>8, <3>2 DEF RegisterUnanswered, CreateUser, TypeOK
      <4> QED BY <1>0, <3>0, <4>1, ReuseQuiet
    <3> QED BY <3>1, <3>2
  <2> QED BY <1>5, <2>1, <2>2, <2>3, <2>4, <2>5, <2>6, <2>7, <2>8 DEF VerifierStep
<1> QED BY <1>1, <1>2, <1>3, <1>4, <1>5, NextCases

\* No code registers more accounts than there are requests served at the
\* same time, but for one more for each registration that left its code in
\* place.
THEOREM ReuseCorrect == Spec => []ReuseBounded
<1>1. TypeOK /\ ReuseInv => ReuseBounded
  <2> SUFFICES ASSUME TypeOK, ReuseInv, NEW g \in Codes
               PROVE  uses[g] <= Cardinality(Verifiers) + kept
    BY DEF ReuseBounded
  <2> QED BY ReuseFacts DEF ReuseInv, ReuseOf
<1> QED BY <1>1, TypeInit, TypeStep, FreshInit, FreshStep, ReuseInit, ReuseStep,
           PTL DEF Spec

-----------------------------------------------------------------------------
(* Who removes a row.                                                      *)

\* A request that is about to delete the row has read an expired code, or
\* one that has registered an account.
DeletionsDue ==
  \A v \in Verifiers :
    /\ vpc[v] = "purge" => seen[v] \in expired
    /\ vpc[v] = "clean" => uses[seen[v]] # 0

LEMMA DueInit == Init => DeletionsDue
BY DEF Init, DeletionsDue

LEMMA DueStep == TypeOK /\ DeletionsDue /\ [Next]_vars => DeletionsDue'
<1> SUFFICES ASSUME TypeOK, DeletionsDue, [Next]_vars PROVE DeletionsDue'
  OBVIOUS
<1>1. CASE UNCHANGED vars
  BY <1>1 DEF DeletionsDue, vars, verifierVars, auxVars
<1>2. CASE Crash
  BY <1>2 DEF Crash, DeletionsDue
<1>3. CASE ChangePhone \/ \E g \in Codes : Expire(g)
  BY <1>3 DEF ChangePhone, Expire, DeletionsDue, verifierVars, auxVars
<1>4. ASSUME NEW s \in Senders, SenderStep(s) PROVE DeletionsDue'
  BY <1>4 DEF SenderStep, RefuseSend, MakeCode, StoreCode, StoreError, SendSMS,
       DeletionsDue, verifierVars, auxVars
<1>5. ASSUME NEW v \in Verifiers, VerifierStep(v) PROVE DeletionsDue'
  <2> USE DEF Go, Finish
  <2>1. CASE ReadRow(v) \/ JudgeExpired(v) \/ JudgeTooMany(v) \/ CompareRight(v)
    BY <2>1 DEF ReadRow, JudgeExpired, JudgeTooMany, CompareRight, DeletionsDue,
         TypeOK, auxVars
  <2>2. CASE CompareWrong(v) \/ Record(v) \/ RecordError(v) \/ RegisterError(v)
    BY <2>2 DEF CompareWrong, Record, RecordError, RegisterError, DeletionsDue,
         TypeOK, auxVars
  <2>3. CASE Purge(v) \/ Clean(v) \/ CleanError(v)
    BY <2>3 DEF Purge, Clean, CleanError, DeletionsDue, TypeOK, auxVars
  <2>4. CASE CreateUser(v) /\ (Finish(v) \/ (Go(v, "clean") /\ UNCHANGED seen))
    <3>1. seen[v] \in Codes
      BY <2>4, VerificationAssumption DEF CreateUser, TypeOK, Codes
    <3>2. \A g \in Codes : uses'[g] # 0 \/ uses[g] = 0
      BY <2>4, <3>1 DEF CreateUser, TypeOK
    <3>3. uses'[seen[v]] # 0
      BY <2>4, <3>1 DEF CreateUser, TypeOK
    <3>4. \A w \in Verifiers : vpc[w] = "clean" => seen[w] \in Codes
      BY VerificationAssumption DEF TypeOK, Codes
    <3>5. /\ expired' = expired
          /\ \A w \in Verifiers \ {v} : vpc'[w] = vpc[w] /\ seen'[w] = seen[w]
          /\ vpc'[v] = "idle" \/ (vpc'[v] = "clean" /\ seen'[v] = seen[v])
      BY <2>4 DEF CreateUser, TypeOK
    <3> QED BY <3>2, <3>3, <3>4, <3>5 DEF DeletionsDue
  <2> QED BY <1>5, <2>1, <2>2, <2>3, <2>4
        DEF VerifierStep, Register, RegisterUnanswered
<1> QED BY <1>1, <1>2, <1>3, <1>4, <1>5, NextCases

\* A code that still holds and is unused is removed only by a request that
\* read an older one.
THEOREM FreshKeptCorrect == Spec => FreshCodeKept
<1>1. ASSUME TypeOK, CodesFresh, DeletionsDue, [Next]_vars,
             stored # 0, stored' = 0, stored \notin expired, uses[stored] = 0
      PROVE  \E v \in Verifiers : /\ vpc[v] \in {"purge", "clean"}
                                  /\ vpc'[v] = "idle"
                                  /\ seen[v] # stored
  <2>1. ~UNCHANGED vars /\ ~Crash /\ ~ChangePhone /\ ~\E g \in Codes : Expire(g)
    BY <1>1 DEF vars, Crash, ChangePhone, Expire, rowVars
  <2>2. ASSUME NEW s \in Senders PROVE ~SenderStep(s)
    <3>1. ~StoreCode(s) /\ ~StoreError(s)
      BY <1>1 DEF StoreCode, StoreError, WriteRow, CodesFresh, TypeOK, rowVars
    <3> QED BY <1>1, <3>1 DEF SenderStep, RefuseSend, MakeCode, SendSMS, rowVars
  <2>3. PICK v \in Verifiers : VerifierStep(v)
    BY <1>1, <2>1, <2>2, NextCases
  <2>4. Purge(v) \/ Clean(v)
    BY <1>1, <2>3 DEF VerifierStep, ReadRow, JudgeExpired, JudgeTooMany, CompareWrong,
         CompareRight, Record, RecordError, Register, RegisterError,
         RegisterUnanswered, CreateUser, CleanError, rowVars
  <2>5. vpc[v] \in {"purge", "clean"} /\ vpc'[v] = "idle"
    BY <1>1, <2>4 DEF Purge, Clean, Finish, Go, TypeOK
  <2>6. seen[v] # stored
    BY <1>1, <2>5 DEF DeletionsDue
  <2> QED BY <2>5, <2>6
<1>2. TypeOK /\ CodesFresh /\ DeletionsDue /\ [Next]_vars =>
        [stored # 0 /\ stored' = 0 /\ stored \notin expired /\ uses[stored] = 0 =>
           \E v \in Verifiers : /\ vpc[v] \in {"purge", "clean"}
                                /\ vpc'[v] = "idle"
                                /\ seen[v] # stored]_vars
  BY <1>1
<1> QED BY <1>2, TypeInit, TypeStep, FreshInit, FreshStep, DueInit, DueStep,
           PTL DEF Spec, FreshCodeKept
=============================================================================
