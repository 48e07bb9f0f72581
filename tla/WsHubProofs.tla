---------------------------- MODULE WsHubProofs ----------------------------
(***************************************************************************)
(* Proofs about WsHub, for any finite set of connections, any hub keys and *)
(* any positive channel capacity.                                          *)
(***************************************************************************)
EXTENDS WsHub, FiniteSetTheorems, SequenceTheorems, TLAPS

\* Case analysis used by every proof of this module.
StepOf(c) ==
  \/ RegisterClient(c) \/ MarkOnline(c) \/ ReadError(c)
  \/ UnregisterClient(c) \/ MarkOffline(c)
  \/ TakeMsg(c) \/ WriteOk(c) \/ WriteFail(c) \/ RangeEnd(c)

LEMMA NextCases ==
  ASSUME [Next]_vars
  PROVE  \/ \E c \in Conns : StepOf(c)
         \/ \E k \in Keys : Broadcast(k)
         \/ UNCHANGED vars
BY DEF Next, HandlerStep, WriterStep, StepOf, Terminated

-----------------------------------------------------------------------------
(* Type correctness.                                                       *)

LEMMA TypeInit == Init => TypeOK
BY HubAssumption DEF Init, TypeOK, HandlerStates, WriterStates

LEMMA TypeHandler ==
  ASSUME TypeOK, NEW c \in Conns,
         \/ RegisterClient(c) \/ MarkOnline(c) \/ ReadError(c)
         \/ UnregisterClient(c) \/ MarkOffline(c)
  PROVE  TypeOK'
<1> USE HubAssumption
<1>1. CASE RegisterClient(c)
  BY <1>1 DEF TypeOK, RegisterClient, Goto, writerVars, HandlerStates
<1>2. CASE MarkOnline(c)
  BY <1>2 DEF TypeOK, MarkOnline, Goto, hubVars, HandlerStates, WriterStates
<1>3. CASE ReadError(c)
  BY <1>3 DEF TypeOK, ReadError, Goto, hubVars, writerVars, HandlerStates
<1>4. CASE UnregisterClient(c)
  BY <1>4 DEF TypeOK, UnregisterClient, EntriesWithout, Goto, writerVars,
              HandlerStates
<1>5. CASE MarkOffline(c)
  BY <1>5 DEF TypeOK, MarkOffline, Decremented, Goto, hubVars, writerVars,
              HandlerStates
<1> QED BY <1>1, <1>2, <1>3, <1>4, <1>5

LEMMA TypeWriter ==
  ASSUME TypeOK, NEW c \in Conns,
         TakeMsg(c) \/ WriteOk(c) \/ WriteFail(c) \/ RangeEnd(c)
  PROVE  TypeOK'
<1>1. CASE TakeMsg(c)
  <2>1. /\ Head(queue[c]) \in Nat
        /\ Tail(queue[c]) \in Seq(Nat)
        /\ Len(Tail(queue[c])) = Len(queue[c]) - 1
        /\ Len(queue[c]) \in Nat
    BY <1>1, HeadTailProperties, LenProperties DEF TypeOK, TakeMsg
  <2>2. /\ queue' = [queue EXCEPT ![c] = Tail(queue[c])]
        /\ \A d \in Conns : Len(queue'[d]) <= SendCap
    BY <1>1, <2>1, HubAssumption DEF TypeOK, TakeMsg
  <2> QED BY <1>1, <2>1, <2>2 DEF TypeOK, TakeMsg, hubVars, WriterStates
<1>2. CASE WriteOk(c)
  <2>1. delivered[c] \o hand[c] \in Seq(Nat)
    BY ConcatProperties DEF TypeOK
  <2> QED BY <1>2, <2>1 DEF TypeOK, WriteOk, hubVars, WriterStates
<1>3. CASE WriterExit(c)
  BY <1>3 DEF TypeOK, WriterExit, hubVars, WriterStates
<1> QED BY <1>1, <1>2, <1>3 DEF WriteFail, RangeEnd

LEMMA TypeBroadcast ==
  ASSUME TypeOK, NEW k \in Keys, Broadcast(k)
  PROVE  TypeOK'
<1>1. \A c \in Conns : Append(queue[c], sent[k] + 1) \in Seq(Nat)
  BY AppendProperties DEF TypeOK
<1>2. queue' \in [Conns -> Seq(Nat)]
  BY <1>1 DEF Broadcast, TypeOK
<1>3. ASSUME NEW c \in Conns PROVE Len(queue'[c]) <= SendCap
  <2>1. CASE c \in hub[k] \ Overflowing(k)
    <3>1. queue'[c] = Append(queue[c], sent[k] + 1)
      BY <2>1 DEF Broadcast
    <3>2. Len(queue[c]) \in Nat /\ Len(queue[c]) # SendCap /\ Len(queue[c]) <= SendCap
      BY <2>1, LenProperties DEF Overflowing, TypeOK
    <3>3. Len(queue'[c]) = Len(queue[c]) + 1
      BY <3>1, AppendProperties DEF TypeOK
    <3> QED BY <3>2, <3>3, HubAssumption
  <2>2. CASE c \notin hub[k] \ Overflowing(k)
    BY <2>2 DEF Broadcast, TypeOK
  <2> QED BY <2>1, <2>2
<1> QED BY <1>2, <1>3 DEF Broadcast, TypeOK, Overflowing, writerVars

LEMMA TypeStep == TypeOK /\ [Next]_vars => TypeOK'
<1> SUFFICES ASSUME TypeOK, [Next]_vars PROVE TypeOK'
  OBVIOUS
<1>1. CASE UNCHANGED vars
  BY <1>1 DEF vars, TypeOK
<1> QED BY <1>1, NextCases, TypeHandler, TypeWriter, TypeBroadcast DEF StepOf

\* Every variable keeps its type and no channel exceeds its capacity.
THEOREM TypeCorrect == Spec => []TypeOK
BY TypeInit, TypeStep, PTL DEF Spec

-----------------------------------------------------------------------------
(* The hub, its maps and its channels.                                     *)

\* OpenIffRegistered and EntriesOwned are inductive together once a channel
\* is known to be open only while its handler is active.
HubInv ==
  /\ OpenIffRegistered
  /\ EntriesOwned
  /\ \A c \in Conns : open[c] => Active(c)

LEMMA HubHandler ==
  ASSUME TypeOK, HubInv, NEW c \in Conns,
         RegisterClient(c) \/ UnregisterClient(c)
  PROVE  HubInv'
<1> USE HubAssumption
<1> DEFINE k == KeyOf[c]
<1>0. k \in Keys
  OBVIOUS
<1>1. CASE RegisterClient(c)
  <2>1. /\ Active(c)' /\ ~Active(c) /\ open'[c]
        /\ \A d \in Conns \ {c} : Active(d)' = Active(d) /\ open'[d] = open[d]
        /\ hub'[k] = hub[k] \cup {c} /\ entries' = entries \cup {k}
        /\ \A j \in Keys \ {k} : hub'[j] = hub[j]
    BY <1>1, <1>0 DEF RegisterClient, Goto, Active, TypeOK
  <2>2. OpenIffRegistered'
    BY <2>1, <1>0 DEF HubInv, OpenIffRegistered
  <2>3. EntriesOwned'
    BY <2>1, <1>0 DEF HubInv, EntriesOwned, Active
  <2> QED BY <2>1, <2>2, <2>3 DEF HubInv
<1>2. CASE UnregisterClient(c)
  <2>1. /\ Active(c) /\ ~Active(c)' /\ ~open'[c]
        /\ \A d \in Conns \ {c} : Active(d)' = Active(d) /\ open'[d] = open[d]
        /\ hub'[k] = hub[k] \ {c} /\ entries' = EntriesWithout(c)
        /\ \A j \in Keys \ {k} : hub'[j] = hub[j]
    BY <1>2, <1>0 DEF UnregisterClient, Goto, Active, TypeOK
  <2>2. OpenIffRegistered'
    BY <2>1, <1>0 DEF HubInv, OpenIffRegistered
  <2>3. ASSUME NEW j \in Keys, j \in entries'
        PROVE  \E d \in Conns : KeyOf[d] = j /\ Active(d)'
    <3>1. CASE j = k
      <4>1. PICK d \in Conns : d \in hub[k] /\ d # c
        BY <2>1, <2>3, <3>1, <1>0 DEF EntriesWithout, TypeOK
      <4> QED BY <4>1, <3>1, <2>1, <1>0 DEF HubInv, OpenIffRegistered
    <3>2. CASE j # k
      <4>1. j \in entries
        BY <2>1, <2>3, <3>2 DEF EntriesWithout
      <4>2. PICK d \in Conns : KeyOf[d] = j /\ Active(d)
        BY <4>1 DEF HubInv, EntriesOwned
      <4> QED BY <4>2, <3>2, <2>1
    <3> QED BY <3>1, <3>2
  <2>4. ASSUME NEW j \in Keys, j \notin entries'
        PROVE  hub'[j] = {}
    <3>1. CASE j \in entries
      BY <2>1, <2>4, <3>1, <1>0 DEF EntriesWithout
    <3>2. CASE j \notin entries
      BY <2>1, <3>2, <1>0 DEF HubInv, EntriesOwned
    <3> QED BY <3>1, <3>2
  <2>5. EntriesOwned'
    BY <2>3, <2>4 DEF EntriesOwned
  <2> QED BY <2>1, <2>2, <2>5 DEF HubInv
<1> QED BY <1>1, <1>2

LEMMA HubBroadcast ==
  ASSUME TypeOK, HubInv, NEW k \in Keys, Broadcast(k)
  PROVE  HubInv'
<1>1. /\ \A c \in Conns : Active(c)' = Active(c)
      /\ \A c \in Conns : open'[c] = (open[c] /\ c \notin Overflowing(k))
      /\ hub'[k] = hub[k] \ Overflowing(k)
      /\ \A j \in Keys \ {k} : hub'[j] = hub[j]
      /\ entries' = entries
  BY DEF Broadcast, Active, TypeOK
<1>2. \A c \in Overflowing(k) : c \in Conns /\ KeyOf[c] = k
  BY DEF Overflowing, HubInv, OpenIffRegistered, TypeOK
<1>3. ASSUME NEW c \in Conns, NEW j \in Keys
      PROVE  c \in hub'[j] <=> j = KeyOf[c] /\ open'[c] /\ Active(c)'
  <2>1. c \in hub[j] <=> j = KeyOf[c] /\ open[c] /\ Active(c)
    BY DEF HubInv, OpenIffRegistered
  <2>2. CASE j = k
    BY <2>1, <2>2, <1>1
  <2>3. CASE j # k
    BY <2>1, <2>3, <1>1, <1>2
  <2> QED BY <2>2, <2>3
<1>4. EntriesOwned'
  BY <1>1 DEF HubInv, EntriesOwned
<1>5. \A c \in Conns : open'[c] => Active(c)'
  BY <1>1 DEF HubInv
<1>6. OpenIffRegistered'
  BY <1>3 DEF OpenIffRegistered
<1> QED BY <1>4, <1>5, <1>6 DEF HubInv

LEMMA HubOther ==
  ASSUME TypeOK, HubInv, NEW c \in Conns,
         \/ MarkOnline(c) \/ ReadError(c) \/ MarkOffline(c)
         \/ TakeMsg(c) \/ WriteOk(c) \/ WriteFail(c) \/ RangeEnd(c)
  PROVE  HubInv'
<1>1. hub' = hub /\ entries' = entries /\ open' = open
  BY DEF MarkOnline, ReadError, MarkOffline, TakeMsg, WriteOk, WriteFail,
         RangeEnd, WriterExit, hubVars
<1>2. \A d \in Conns : Active(d)' = Active(d)
  BY DEF MarkOnline, ReadError, MarkOffline, TakeMsg, WriteOk, WriteFail,
         RangeEnd, WriterExit, Goto, Active, TypeOK
<1> QED BY <1>1, <1>2 DEF HubInv, OpenIffRegistered, EntriesOwned

LEMMA HubStep == TypeOK /\ HubInv /\ [Next]_vars => HubInv'
<1> SUFFICES ASSUME TypeOK, HubInv, [Next]_vars PROVE HubInv'
  OBVIOUS
<1>1. CASE UNCHANGED vars
  BY <1>1 DEF vars, HubInv, OpenIffRegistered, EntriesOwned, Active
<1> QED BY <1>1, NextCases, HubHandler, HubBroadcast, HubOther DEF StepOf

LEMMA HubInit == Init => HubInv
BY DEF Init, HubInv, OpenIffRegistered, EntriesOwned, Active

LEMMA HubInductive == Spec => []HubInv
BY HubInit, HubStep, TypeCorrect, PTL DEF Spec

\* A client is in its hub exactly as long as its channel is open and its
\* handler has still to unregister it.
THEOREM HubCorrect == Spec => []OpenIffRegistered
<1>1. HubInv => OpenIffRegistered
  BY DEF HubInv
<1> QED BY <1>1, HubInductive, PTL

\* registerClient, evictions and unregisterClient together leave no map
\* behind that nobody will remove.
THEOREM EntriesCorrect == Spec => []EntriesOwned
<1>1. HubInv => EntriesOwned
  BY DEF HubInv
<1> QED BY <1>1, HubInductive, PTL

-----------------------------------------------------------------------------
(* The streams of the connections.                                         *)

LEMMA RunAppend ==
  ASSUME NEW n \in Nat, NEW s \in Seq(Nat), RunAfter(n, s),
         NEW m \in Nat, m = n + Len(s) + 1
  PROVE  RunAfter(n, Append(s, m))
<1>1. /\ Len(s) \in Nat /\ Len(Append(s, m)) = Len(s) + 1
      /\ \A i \in 1..Len(s) : Append(s, m)[i] = s[i]
      /\ Append(s, m)[Len(s) + 1] = m
  BY AppendProperties, LenProperties
<1>2. ASSUME NEW i \in 1..(Len(s) + 1) PROVE Append(s, m)[i] = n + i
  <2>1. CASE i \in 1..Len(s)
    BY <1>1, <2>1 DEF RunAfter
  <2>2. CASE i = Len(s) + 1
    BY <1>1, <2>2
  <2> QED BY <1>1, <2>1, <2>2
<1> QED BY <1>1, <1>2 DEF RunAfter

LEMMA RunConcat ==
  ASSUME NEW n \in Nat, NEW s \in Seq(Nat), RunAfter(n, s),
         NEW t \in Seq(Nat), RunAfter(n + Len(s), t)
  PROVE  RunAfter(n, s \o t)
<1>1. /\ Len(s) \in Nat /\ Len(t) \in Nat
      /\ Len(s \o t) = Len(s) + Len(t)
      /\ \A i \in 1..Len(s) : (s \o t)[i] = s[i]
      /\ \A i \in 1..(Len(s) + Len(t)) :
           i > Len(s) => (s \o t)[i] = t[i - Len(s)]
  BY ConcatProperties, LenProperties
<1>2. ASSUME NEW i \in 1..(Len(s) + Len(t)) PROVE (s \o t)[i] = n + i
  <2>1. CASE i \in 1..Len(s)
    BY <1>1, <2>1 DEF RunAfter
  <2>2. CASE i > Len(s)
    <3>1. i - Len(s) \in 1..Len(t)
      BY <1>1, <2>2
    <3>2. t[i - Len(s)] = n + Len(s) + (i - Len(s))
      BY <3>1 DEF RunAfter
    <3> QED BY <1>1, <2>2, <3>2
  <2> QED BY <1>1, <2>1, <2>2
<1> QED BY <1>1, <1>2 DEF RunAfter

LEMMA RunTail ==
  ASSUME NEW n \in Nat, NEW s \in Seq(Nat), s # <<>>, RunAfter(n, s)
  PROVE  Head(s) = n + 1 /\ RunAfter(n + 1, Tail(s))
<1>1. /\ Len(s) \in Nat /\ Len(s) >= 1 /\ Len(Tail(s)) = Len(s) - 1
      /\ Head(s) = s[1]
      /\ \A i \in 1..Len(Tail(s)) : Tail(s)[i] = s[i + 1]
  BY HeadTailProperties, EmptySeq, LenProperties
<1>2. s[1] = n + 1
  BY <1>1 DEF RunAfter
<1>3. ASSUME NEW i \in 1..(Len(s) - 1) PROVE Tail(s)[i] = n + 1 + i
  <2>1. i + 1 \in 1..Len(s)
    BY <1>1
  <2>2. s[i + 1] = n + (i + 1)
    BY <2>1 DEF RunAfter
  <2> QED BY <1>1, <2>2
<1> QED BY <1>1, <1>2, <1>3 DEF RunAfter

LEMMA RunEmpty ==
  ASSUME NEW n PROVE RunAfter(n, <<>>)
BY DEF RunAfter

LEMMA RunSingle ==
  ASSUME NEW n \in Nat PROVE RunAfter(n, <<n + 1>>)
BY DEF RunAfter

\* What StreamExact says of one connection, without its last conjunct.
Consecutive(c) ==
  /\ RunAfter(joined[c], delivered[c])
  /\ RunAfter(joined[c] + Len(delivered[c]), hand[c])
  /\ RunAfter(joined[c] + Len(delivered[c]) + Len(hand[c]), queue[c])

\* The writer holds a message only while it writes it or after it failed to.
HandMatches(c) ==
  /\ pc[c] \in {"new", "registered"} => writer[c] = "none"
  /\ writer[c] \in {"none", "recv"} => hand[c] = <<>>
  /\ writer[c] = "writing" => Len(hand[c]) = 1

\* A client whose channel is open has accepted every broadcast since it
\* joined; one that was evicted has missed some; none has got more than was
\* sent.
Accounted(c) ==
  LET last == joined[c] + Accepted(c)
  IN  /\ last <= sent[KeyOf[c]]
      /\ pc[c] = "new" => delivered[c] = <<>> /\ queue[c] = <<>>
      /\ Active(c) /\ open[c] => last = sent[KeyOf[c]]
      /\ Active(c) /\ ~open[c] => last < sent[KeyOf[c]]
      /\ c \in panicked => pc[c] \in {"unregistered", "gone"}

ConnInv(c) == Consecutive(c) /\ HandMatches(c) /\ Accounted(c)

StreamInv == \A c \in Conns : ConnInv(c)

Untouched(c) ==
  /\ pc'[c] = pc[c] /\ writer'[c] = writer[c] /\ hand'[c] = hand[c]
  /\ queue'[c] = queue[c] /\ delivered'[c] = delivered[c]
  /\ joined'[c] = joined[c] /\ open'[c] = open[c]
  /\ sent'[KeyOf[c]] = sent[KeyOf[c]]
  /\ c \in panicked' => c \in panicked

LEMMA UntouchedConn ==
  ASSUME NEW c \in Conns, ConnInv(c), Untouched(c)
  PROVE  ConnInv(c)'
BY DEF ConnInv, Consecutive, HandMatches, Accounted, Accepted, Active,
       Untouched

\* A step of one connection leaves the others alone.
LEMMA OnlyOwnConn ==
  ASSUME TypeOK, NEW c \in Conns, StepOf(c), NEW d \in Conns, d # c
  PROVE  Untouched(d)
<1>1. CASE RegisterClient(c)
  BY <1>1 DEF RegisterClient, Goto, Untouched, TypeOK, writerVars
<1>2. CASE MarkOnline(c)
  BY <1>2 DEF MarkOnline, Goto, Untouched, TypeOK, hubVars
<1>3. CASE ReadError(c) \/ MarkOffline(c)
  BY <1>3 DEF ReadError, MarkOffline, Goto, Untouched, TypeOK, hubVars,
              writerVars
<1>4. CASE UnregisterClient(c)
  BY <1>4 DEF UnregisterClient, Goto, Untouched, TypeOK, writerVars
<1>5. CASE TakeMsg(c)
  BY <1>5 DEF TakeMsg, Untouched, TypeOK, hubVars
<1>6. CASE WriteOk(c)
  BY <1>6 DEF WriteOk, Untouched, TypeOK, hubVars
<1>7. CASE WriteFail(c) \/ RangeEnd(c)
  BY <1>7 DEF WriteFail, RangeEnd, WriterExit, Untouched, TypeOK, hubVars
<1> QED BY <1>1, <1>2, <1>3, <1>4, <1>5, <1>6, <1>7 DEF StepOf

LEMMA StreamHandler ==
  ASSUME TypeOK, NEW c \in Conns, ConnInv(c),
         \/ RegisterClient(c) \/ MarkOnline(c) \/ ReadError(c)
         \/ UnregisterClient(c) \/ MarkOffline(c)
  PROVE  ConnInv(c)'
<1> USE HubAssumption
<1>1. CASE RegisterClient(c)
  <2>1. /\ pc[c] = "new" /\ pc'[c] = "registered"
        /\ open'[c] /\ joined'[c] = sent[KeyOf[c]] /\ sent' = sent
        /\ writer'[c] = writer[c] /\ hand'[c] = hand[c]
        /\ queue'[c] = queue[c] /\ delivered'[c] = delivered[c]
        /\ panicked' = panicked
    BY <1>1 DEF RegisterClient, Goto, TypeOK, writerVars
  <2>2. delivered[c] = <<>> /\ hand[c] = <<>> /\ queue[c] = <<>>
    BY <2>1 DEF ConnInv, HandMatches, Accounted
  <2>3. Consecutive(c)'
    BY <2>1, <2>2, RunEmpty DEF Consecutive
  <2>4. HandMatches(c)'
    BY <2>1 DEF ConnInv, HandMatches
  <2>5. Accepted(c)' = 0 /\ sent[KeyOf[c]] \in Nat
    BY <2>1, <2>2 DEF Accepted, TypeOK
  <2>6. Accounted(c)'
    BY <2>1, <2>5 DEF ConnInv, Accounted, Active
  <2> QED BY <2>3, <2>4, <2>6 DEF ConnInv
<1>2. CASE MarkOnline(c)
  <2>1. /\ pc[c] = "registered" /\ pc'[c] = "reading" /\ writer'[c] = "recv"
        /\ hand'[c] = hand[c] /\ queue'[c] = queue[c]
        /\ delivered'[c] = delivered[c] /\ joined' = joined
        /\ open' = open /\ sent' = sent /\ panicked' = panicked
    BY <1>2 DEF MarkOnline, Goto, TypeOK, hubVars
  <2>2. hand[c] = <<>>
    BY <2>1 DEF ConnInv, HandMatches
  <2>3. HandMatches(c)'
    BY <2>1, <2>2 DEF HandMatches
  <2>4. Consecutive(c)' /\ Accounted(c)'
    BY <2>1 DEF ConnInv, Consecutive, Accounted, Accepted, Active
  <2> QED BY <2>3, <2>4 DEF ConnInv
<1>3. CASE ReadError(c)
  <2>1. /\ pc[c] = "reading" /\ pc'[c] = "leaving" /\ writer' = writer
        /\ hand' = hand /\ queue' = queue /\ delivered' = delivered
        /\ joined' = joined /\ open' = open /\ sent' = sent
        /\ panicked' = panicked
    BY <1>3 DEF ReadError, Goto, TypeOK, hubVars, writerVars
  <2> QED
    BY <2>1 DEF ConnInv, Consecutive, HandMatches, Accounted, Accepted, Active
<1>4. CASE UnregisterClient(c) \/ MarkOffline(c)
  <2>1. /\ pc[c] \in {"leaving", "unregistered"}
        /\ pc'[c] \in {"unregistered", "gone"} /\ writer' = writer
        /\ hand' = hand /\ queue' = queue /\ delivered' = delivered
        /\ joined' = joined /\ sent' = sent
    BY <1>4 DEF UnregisterClient, MarkOffline, Goto, TypeOK, hubVars, writerVars
  <2> QED
    BY <2>1 DEF ConnInv, Consecutive, HandMatches, Accounted, Accepted, Active
<1> QED BY <1>1, <1>2, <1>3, <1>4

\* The sequences of a connection, in the form in which the provers use them.
SeqTypes ==
  /\ delivered \in [Conns -> Seq(Nat)]
  /\ hand \in [Conns -> Seq(Nat)]
  /\ queue \in [Conns -> Seq(Nat)]

LEMMA StreamWriter ==
  ASSUME TypeOK, TypeOK', NEW c \in Conns, ConnInv(c),
         TakeMsg(c) \/ WriteOk(c) \/ WriteFail(c) \/ RangeEnd(c)
  PROVE  ConnInv(c)'
<1> USE HubAssumption
<1> DEFINE n == joined[c] + Len(delivered[c])
<1>0. /\ SeqTypes /\ SeqTypes'
      /\ Len(delivered[c]) \in Nat /\ Len(hand[c]) \in Nat
      /\ Len(queue[c]) \in Nat /\ joined[c] \in Nat /\ sent[KeyOf[c]] \in Nat
      /\ n \in Nat
  BY LenProperties DEF TypeOK, SeqTypes
<1>1. CASE TakeMsg(c)
  <2>1. /\ writer[c] = "recv" /\ writer'[c] = "writing" /\ queue[c] # <<>>
        /\ hand'[c] = <<Head(queue[c])>> /\ queue'[c] = Tail(queue[c])
        /\ pc' = pc /\ delivered' = delivered /\ joined' = joined
        /\ open' = open /\ sent' = sent /\ panicked' = panicked
    BY <1>1 DEF TakeMsg, TypeOK, hubVars
  <2>2. hand[c] = <<>> /\ pc[c] \notin {"new", "registered"}
    BY <2>1 DEF ConnInv, HandMatches
  <2>3. /\ Len(hand[c]) = 0 /\ Len(hand'[c]) = 1
        /\ Len(queue'[c]) = Len(queue[c]) - 1
    BY <1>0, <2>1, <2>2, HeadTailProperties DEF SeqTypes
  <2>4. RunAfter(n, queue[c])
    <3>1. n + Len(hand[c]) = n
      BY <1>0, <2>3
    <3> QED BY <3>1 DEF ConnInv, Consecutive
  <2>5. Head(queue[c]) = n + 1 /\ RunAfter(n + 1, queue'[c])
    BY <1>0, <2>1, <2>4, RunTail DEF SeqTypes
  <2>6. RunAfter(n, hand'[c])
    BY <1>0, <2>1, <2>5, RunSingle
  <2>7. Consecutive(c)'
    BY <2>1, <2>3, <2>5, <2>6 DEF ConnInv, Consecutive
  <2>8. HandMatches(c)'
    BY <2>1, <2>2, <2>3 DEF HandMatches
  <2>9. Accepted(c)' = Accepted(c)
    <3>1. Len(delivered'[c]) = Len(delivered[c])
      BY <2>1
    <3> QED BY <1>0, <2>3, <3>1 DEF Accepted, SeqTypes
  <2>10. Accounted(c)'
    BY <2>1, <2>2, <2>9 DEF ConnInv, Accounted, Active
  <2> QED BY <2>7, <2>8, <2>10 DEF ConnInv
<1>2. CASE WriteOk(c)
  <2>1. /\ writer[c] = "writing" /\ writer'[c] = "recv" /\ hand'[c] = <<>>
        /\ delivered'[c] = delivered[c] \o hand[c] /\ queue' = queue
        /\ pc' = pc /\ joined' = joined
        /\ open' = open /\ sent' = sent /\ panicked' = panicked
    BY <1>2 DEF WriteOk, TypeOK, hubVars
  <2>2. Len(hand[c]) = 1 /\ pc[c] \notin {"new", "registered"}
    BY <2>1 DEF ConnInv, HandMatches
  <2>3. /\ Len(delivered'[c]) = Len(delivered[c]) + 1 /\ Len(hand'[c]) = 0
        /\ Len(queue'[c]) = Len(queue[c])
    <3>1. Len(delivered[c] \o hand[c]) = Len(delivered[c]) + Len(hand[c])
      BY <1>0, ConcatProperties DEF SeqTypes
    <3>2. Len(hand'[c]) = 0 /\ Len(queue'[c]) = Len(queue[c])
      BY <2>1
    <3> QED BY <2>1, <2>2, <3>1, <3>2
  <2>4. RunAfter(joined[c], delivered'[c])
    BY <1>0, <2>1, RunConcat DEF ConnInv, Consecutive, SeqTypes
  <2>5. /\ joined'[c] + Len(delivered'[c]) + Len(hand'[c])
             = joined[c] + Len(delivered[c]) + Len(hand[c])
    <3>1. joined'[c] = joined[c] /\ joined[c] \in Nat /\ Len(delivered[c]) \in Nat
      BY <1>0, <2>1
    <3> QED BY <2>2, <2>3, <3>1
  <2>6. Consecutive(c)'
    BY <2>1, <2>4, <2>5, RunEmpty DEF ConnInv, Consecutive
  <2>7. HandMatches(c)'
    BY <2>1, <2>2 DEF HandMatches
  <2>8. Accepted(c)' = Accepted(c)
    BY <1>0, <2>2, <2>3 DEF Accepted, SeqTypes
  <2>9. Accounted(c)'
    BY <2>1, <2>2, <2>8 DEF ConnInv, Accounted, Active
  <2> QED BY <2>6, <2>7, <2>9 DEF ConnInv
<1>3. CASE WriteFail(c) \/ RangeEnd(c)
  <2>1. /\ writer[c] \in {"writing", "recv"} /\ writer'[c] = "done"
        /\ hand' = hand /\ queue' = queue /\ delivered' = delivered
        /\ pc' = pc /\ joined' = joined
        /\ open' = open /\ sent' = sent /\ panicked' = panicked
    BY <1>3 DEF WriteFail, RangeEnd, WriterExit, TypeOK, hubVars
  <2> QED
    BY <2>1 DEF ConnInv, Consecutive, HandMatches, Accounted, Accepted, Active
<1> QED BY <1>1, <1>2, <1>3

LEMMA StreamBroadcast ==
  ASSUME TypeOK, TypeOK', HubInv, StreamInv, NEW k \in Keys, Broadcast(k),
         NEW c \in Conns
  PROVE  ConnInv(c)'
<1> USE HubAssumption
<1> DEFINE last == joined[c] + Accepted(c)
<1>0. /\ SeqTypes /\ SeqTypes'
      /\ Len(delivered[c]) \in Nat /\ Len(hand[c]) \in Nat
      /\ Len(queue[c]) \in Nat /\ joined[c] \in Nat /\ sent[k] \in Nat
      /\ sent[KeyOf[c]] \in Nat
  BY LenProperties DEF TypeOK, SeqTypes
<1>1. /\ pc' = pc /\ writer' = writer /\ hand' = hand
      /\ delivered' = delivered /\ joined' = joined /\ panicked' = panicked
      /\ sent'[k] = sent[k] + 1
      /\ \A j \in Keys \ {k} : sent'[j] = sent[j]
      /\ open'[c] = (open[c] /\ c \notin Overflowing(k))
  BY DEF Broadcast, TypeOK, writerVars
<1>2. queue'[c] = IF c \in hub[k] \ Overflowing(k)
                  THEN Append(queue[c], sent[k] + 1) ELSE queue[c]
  BY DEF Broadcast
<1>3. c \in hub[k] <=> k = KeyOf[c] /\ open[c] /\ Active(c)
  BY DEF HubInv, OpenIffRegistered
<1>4. ConnInv(c)
  BY DEF StreamInv
<1>5. HandMatches(c)'
  BY <1>1, <1>4 DEF ConnInv, HandMatches
<1>6. /\ Len(delivered'[c]) = Len(delivered[c])
      /\ Len(hand'[c]) = Len(hand[c])
      /\ Active(c)' <=> Active(c)
  BY <1>1 DEF Active
<1>7. Accepted(c) \in Nat
  BY <1>0 DEF Accepted, SeqTypes
<1>8. CASE c \in hub[k] \ Overflowing(k)
  <2>1. last = sent[k] /\ k = KeyOf[c] /\ Active(c) /\ open[c]
    BY <1>3, <1>4, <1>8 DEF ConnInv, Accounted
  <2>2. queue'[c] = Append(queue[c], sent[k] + 1)
    BY <1>2, <1>8
  <2>3. Len(queue'[c]) = Len(queue[c]) + 1
    BY <1>0, <2>2, AppendProperties DEF SeqTypes
  <2>4. RunAfter(joined[c] + Len(delivered[c]) + Len(hand[c]), queue'[c])
    <3> DEFINE n == joined[c] + Len(delivered[c]) + Len(hand[c])
    <3>1. joined[c] + (Len(delivered[c]) + Len(hand[c]) + Len(queue[c])) = sent[k]
      BY <2>1 DEF Accepted
    <3>2. n \in Nat
      BY <1>0
    <3>3. sent[k] + 1 \in Nat
      BY <1>0
    <3>4. sent[k] + 1 = n + Len(queue[c]) + 1
      <4>1. /\ Len(delivered[c]) \in Nat /\ Len(hand[c]) \in Nat
            /\ Len(queue[c]) \in Nat /\ joined[c] \in Nat /\ sent[k] \in Nat
            /\ SeqTypes
        BY <1>0
      <4> QED BY <3>1, <4>1 DEF SeqTypes
    <3>5. RunAfter(n, queue[c]) /\ queue[c] \in Seq(Nat)
      BY <1>0, <1>4 DEF ConnInv, Consecutive, SeqTypes
    <3> HIDE DEF n
    <3>6. RunAfter(n, Append(queue[c], sent[k] + 1))
      BY <3>2, <3>3, <3>4, <3>5, RunAppend
    <3> QED BY <2>2, <3>6 DEF n
  <2>5. Consecutive(c)'
    BY <1>1, <1>4, <2>4 DEF ConnInv, Consecutive
  <2>6. Accepted(c)' = Accepted(c) + 1
    BY <1>0, <1>6, <2>3 DEF Accepted, SeqTypes
  <2>7. joined'[c] + Accepted(c)' = sent'[KeyOf[c]]
    <3>1. joined'[c] = joined[c] /\ sent'[KeyOf[c]] = sent[k] + 1
      BY <1>1, <2>1
    <3> HIDE DEF Accepted
    <3> QED BY <1>0, <1>7, <2>1, <2>6, <3>1
  <2>8. open'[c] /\ pc[c] # "new" /\ pc'[c] = pc[c]
    BY <1>1, <1>8, <2>1 DEF Active
  <2>9. joined'[c] + Accepted(c)' <= sent'[KeyOf[c]]
    <3>1. joined'[c] + Accepted(c)' \in Nat
      <4> HIDE DEF Accepted
      <4> QED BY <1>0, <1>1, <1>7, <2>6
    <3> QED BY <2>7, <3>1
  <2>10. Accounted(c)'
    BY <1>1, <1>4, <2>7, <2>8, <2>9 DEF ConnInv, Accounted
  <2> QED BY <1>5, <2>5, <2>10 DEF ConnInv
<1>9. CASE c \notin hub[k] \ Overflowing(k)
  <2>1. queue'[c] = queue[c]
    BY <1>2, <1>9
  <2>2. Consecutive(c)'
    BY <1>1, <1>4, <2>1 DEF ConnInv, Consecutive
  <2>3. Accepted(c)' = Accepted(c)
    BY <1>6, <2>1 DEF Accepted
  <2>4. /\ pc'[c] = pc[c] /\ queue'[c] = queue[c] /\ delivered'[c] = delivered[c]
        /\ joined'[c] = joined[c] /\ (c \in panicked' <=> c \in panicked)
    BY <1>1, <2>1
  <2>5. ASSUME KeyOf[c] = k PROVE Accounted(c)'
    <3>1. sent'[KeyOf[c]] = sent[KeyOf[c]] + 1
      BY <1>1, <2>5
    <3>2. Active(c) => ~open'[c]
      BY <1>1, <1>3, <1>9, <2>5
    <3>3. last <= sent[KeyOf[c]]
      BY <1>4 DEF ConnInv, Accounted
    <3>4. joined'[c] + Accepted(c)' < sent'[KeyOf[c]]
      BY <1>0, <1>7, <2>3, <2>4, <3>1, <3>3
    <3>5. joined'[c] + Accepted(c)' <= sent'[KeyOf[c]]
      <4>1. joined'[c] + Accepted(c)' \in Nat /\ sent'[KeyOf[c]] \in Nat
        BY <1>0, <1>7, <2>3, <2>4, <3>1
      <4> QED BY <3>4, <4>1
    <3> QED BY <1>4, <1>6, <2>4, <3>2, <3>4, <3>5 DEF ConnInv, Accounted
  <2>6. ASSUME KeyOf[c] # k PROVE Accounted(c)'
    <3>1. sent'[KeyOf[c]] = sent[KeyOf[c]]
      BY <1>1, <2>6
    <3>2. open'[c] <=> open[c]
      BY <1>1, <1>3, <2>6 DEF Overflowing
    <3> QED BY <1>4, <1>6, <2>3, <2>4, <3>1, <3>2 DEF ConnInv, Accounted
  <2>7. Accounted(c)'
    BY <2>5, <2>6
  <2> QED BY <1>5, <2>2, <2>7 DEF ConnInv
<1> QED BY <1>8, <1>9

LEMMA StreamInit == Init => StreamInv
<1> SUFFICES ASSUME Init, NEW c \in Conns PROVE ConnInv(c)
  BY DEF StreamInv
<1>1. Consecutive(c) /\ HandMatches(c)
  BY RunEmpty DEF Init, Consecutive, HandMatches
<1>2. joined[c] + Accepted(c) = 0 /\ sent[KeyOf[c]] = 0
  BY HubAssumption DEF Init, Accepted
<1> QED BY <1>1, <1>2 DEF Init, ConnInv, Accounted, Active

LEMMA StreamStep == TypeOK /\ HubInv /\ StreamInv /\ [Next]_vars => StreamInv'
<1> SUFFICES ASSUME TypeOK, HubInv, StreamInv, [Next]_vars PROVE StreamInv'
  OBVIOUS
<1>0. TypeOK'
  BY TypeStep
<1>1. CASE UNCHANGED vars
  <2>1. \A c \in Conns : Untouched(c)
    BY <1>1 DEF vars, Untouched
  <2> QED BY <2>1, UntouchedConn DEF StreamInv
<1>2. CASE \E c \in Conns : StepOf(c)
  <2>1. PICK c \in Conns : StepOf(c)
    BY <1>2
  <2>2. ConnInv(c)'
    BY <1>0, <2>1, StreamHandler, StreamWriter DEF StepOf, StreamInv
  <2>3. \A d \in Conns \ {c} : ConnInv(d)'
    BY <2>1, OnlyOwnConn, UntouchedConn DEF StreamInv
  <2> QED BY <2>2, <2>3 DEF StreamInv
<1>3. CASE \E k \in Keys : Broadcast(k)
  BY <1>0, <1>3, StreamBroadcast DEF StreamInv
<1> QED BY <1>1, <1>2, <1>3, NextCases

LEMMA StreamAlways == Spec => [](TypeOK /\ HubInv /\ StreamInv)
BY HubInductive, StreamInit, StreamStep, TypeCorrect, PTL DEF Spec

\* Written, in hand and buffered, the messages of a client are consecutive
\* broadcasts of its key since it registered, and none is missing as long as
\* it is registered.
THEOREM StreamCorrect == Spec => []StreamExact
<1>1. HubInv /\ StreamInv => StreamExact
  BY HubAssumption DEF HubInv, StreamInv, StreamExact, OpenIffRegistered,
                       ConnInv, Consecutive, Accounted
<1> QED BY <1>1, StreamAlways, PTL

\* unregisterClient panics exactly when its client missed a broadcast.
THEOREM PanicCorrect == Spec => PanicIffMissed
<1>1. ASSUME TypeOK, StreamInv, [Next]_vars, NEW c \in Conns,
             pc[c] = "leaving", pc'[c] = "unregistered"
      PROVE  c \in panicked' <=> joined[c] + Accepted(c) < sent[KeyOf[c]]
  <2>1. UnregisterClient(c)
    <3>1. CASE \E d \in Conns : StepOf(d)
      <4>1. PICK d \in Conns : StepOf(d)
        BY <3>1
      <4>2. d = c
        BY <1>1, <4>1, OnlyOwnConn DEF Untouched
      <4> QED
        BY <1>1, <4>1, <4>2 DEF StepOf, RegisterClient, MarkOnline, ReadError,
           MarkOffline, TakeMsg, WriteOk, WriteFail, RangeEnd, WriterExit,
           Goto, TypeOK
    <3>2. CASE \E k \in Keys : Broadcast(k)
      BY <1>1, <3>2 DEF Broadcast
    <3>3. CASE UNCHANGED vars
      BY <1>1, <3>3 DEF vars
    <3> QED BY <1>1, <3>1, <3>2, <3>3, NextCases
  <2>2. c \in panicked' <=> ~open[c]
    BY <1>1, <2>1 DEF UnregisterClient, StreamInv, ConnInv, Accounted
  <2>3. Active(c)
    BY <1>1 DEF Active
  <2>4. /\ joined[c] \in Nat /\ Accepted(c) \in Nat /\ sent[KeyOf[c]] \in Nat
    BY <1>1, LenProperties, HubAssumption DEF TypeOK, Accepted
  <2> QED
    BY <1>1, <2>2, <2>3, <2>4 DEF StreamInv, ConnInv, Accounted
<1>2. TypeOK /\ StreamInv /\ [Next]_vars =>
        \A c \in Conns :
          pc[c] = "leaving" /\ pc'[c] = "unregistered" =>
            (c \in panicked' <=> joined[c] + Accepted(c) < sent[KeyOf[c]])
  BY <1>1
<1> QED BY <1>2, StreamAlways, PTL DEF Spec, PanicIffMissed
-----------------------------------------------------------------------------
(* Presence.                                                               *)

LEMMA PresentFinite == \A u \in Users : IsFiniteSet(Present(u))
<1>1. \A u \in Users : Present(u) \subseteq Conns
  BY DEF Present
<1> QED BY <1>1, HubAssumption, FS_Subset

LEMMA PresenceMarkOnline ==
  ASSUME TypeOK, PresenceExact, NEW c \in Conns, MarkOnline(c), NEW u \in Users
  PROVE  online'[u] = Cardinality(Present(u)')
<1> USE HubAssumption
<1>1. /\ pc[c] = "registered" /\ pc'[c] = "reading"
      /\ \A d \in Conns \ {c} : pc'[d] = pc[d]
      /\ online' = [online EXCEPT ![UserOf[c]] = @ + 1]
  BY DEF MarkOnline, Goto, TypeOK
<1>2. CASE u = UserOf[c]
  <2>1. Present(u)' = Present(u) \cup {c} /\ c \notin Present(u)
    BY <1>1, <1>2 DEF Present
  <2>2. Cardinality(Present(u)') = Cardinality(Present(u)) + 1
    BY <2>1, PresentFinite, FS_AddElement
  <2> QED BY <1>1, <1>2, <2>2 DEF PresenceExact, TypeOK
<1>3. CASE u # UserOf[c]
  <2>1. Present(u)' = Present(u)
    BY <1>1, <1>3 DEF Present
  <2> QED BY <1>1, <1>3, <2>1 DEF PresenceExact, TypeOK
<1> QED BY <1>2, <1>3

LEMMA PresenceMarkOffline ==
  ASSUME TypeOK, PresenceExact, NEW c \in Conns, MarkOffline(c), NEW u \in Users
  PROVE  online'[u] = Cardinality(Present(u)')
<1> USE HubAssumption
<1>1. /\ pc[c] = "unregistered" /\ pc'[c] = "gone"
      /\ \A d \in Conns \ {c} : pc'[d] = pc[d]
      /\ online' = [online EXCEPT ![UserOf[c]] = Decremented(@)]
  BY DEF MarkOffline, Goto, TypeOK
<1>2. CASE u = UserOf[c]
  <2>1. Present(u)' = Present(u) \ {c} /\ c \in Present(u)
    BY <1>1, <1>2 DEF Present
  <2>2. Cardinality(Present(u)') = Cardinality(Present(u)) - 1
    BY <2>1, PresentFinite, FS_RemoveElement
  <2>3. online[u] \in Nat /\ online[u] = Cardinality(Present(u))
    BY DEF PresenceExact, TypeOK
  <2>4. Cardinality(Present(u)') \in Nat
    BY <2>1, PresentFinite, FS_RemoveElement, FS_CardinalityType
  <2>5. Decremented(online[u]) = online[u] - 1
    BY <2>2, <2>3, <2>4 DEF Decremented
  <2>6. online'[u] = online[u] - 1
    BY <1>1, <1>2, <2>5 DEF TypeOK
  <2> QED BY <2>2, <2>3, <2>6
<1>3. CASE u # UserOf[c]
  <2>1. Present(u)' = Present(u)
    BY <1>1, <1>3 DEF Present
  <2> QED BY <1>1, <1>3, <2>1 DEF PresenceExact, TypeOK
<1> QED BY <1>2, <1>3

LEMMA PresenceStep == TypeOK /\ PresenceExact /\ [Next]_vars => PresenceExact'
<1> SUFFICES ASSUME TypeOK, PresenceExact, [Next]_vars, NEW u \in Users
             PROVE  online'[u] = Cardinality(Present(u)')
  BY DEF PresenceExact
<1>1. ASSUME online' = online, Present(u)' = Present(u)
      PROVE  online'[u] = Cardinality(Present(u)')
  BY <1>1 DEF PresenceExact
<1>2. CASE UNCHANGED vars \/ \E k \in Keys : Broadcast(k)
  BY <1>1, <1>2 DEF vars, Broadcast, Present
<1>3. ASSUME NEW c \in Conns, StepOf(c)
      PROVE  online'[u] = Cardinality(Present(u)')
  <2>1. CASE MarkOnline(c)
    BY <2>1, PresenceMarkOnline
  <2>2. CASE MarkOffline(c)
    BY <2>2, PresenceMarkOffline
  <2>3. CASE RegisterClient(c) \/ ReadError(c) \/ UnregisterClient(c)
    <3>1. online' = online
      BY <2>3 DEF RegisterClient, ReadError, UnregisterClient
    <3>2. Present(u)' = Present(u)
      BY <2>3 DEF RegisterClient, ReadError, UnregisterClient, Goto, Present,
                  TypeOK
    <3> QED BY <1>1, <3>1, <3>2
  <2>4. CASE TakeMsg(c) \/ WriteOk(c) \/ WriteFail(c) \/ RangeEnd(c)
    BY <1>1, <2>4 DEF TakeMsg, WriteOk, WriteFail, RangeEnd, WriterExit, Present
  <2> QED BY <1>3, <2>1, <2>2, <2>3, <2>4 DEF StepOf
<1> QED BY <1>2, <1>3, NextCases

LEMMA PresenceInit == Init => PresenceExact
<1> SUFFICES ASSUME Init, NEW u \in Users PROVE online[u] = Cardinality(Present(u))
  BY DEF PresenceExact
<1>1. Present(u) = {} /\ online[u] = 0
  BY DEF Init, Present
<1> QED BY <1>1, FS_EmptySet

\* Server.online counts the connections of every user.
THEOREM PresenceCorrect == Spec => []PresenceExact
BY TypeCorrect, PresenceInit, PresenceStep, PTL DEF Spec
-----------------------------------------------------------------------------
(* The hub implements the ordered feed.                                    *)

\* The handler keeps the socket open only while it reads.
SockInv == \A c \in Conns : sock[c] => pc[c] \in {"registered", "reading"}

LEMMA SockStep == TypeOK /\ StreamInv /\ SockInv /\ [Next]_vars => SockInv'
<1> SUFFICES ASSUME TypeOK, StreamInv, SockInv, [Next]_vars PROVE SockInv'
  OBVIOUS
<1>1. CASE UNCHANGED vars \/ \E k \in Keys : Broadcast(k)
  BY <1>1 DEF vars, Broadcast, SockInv
<1>2. ASSUME NEW c \in Conns,
             RegisterClient(c) \/ MarkOnline(c) \/ ReadError(c)
      PROVE  SockInv'
  BY <1>2 DEF RegisterClient, MarkOnline, ReadError, Goto, SockInv, TypeOK
<1>3. ASSUME NEW c \in Conns, UnregisterClient(c) \/ MarkOffline(c)
      PROVE  SockInv'
  BY <1>3 DEF UnregisterClient, MarkOffline, Goto, SockInv, TypeOK
<1>4. ASSUME NEW c \in Conns,
             TakeMsg(c) \/ WriteOk(c) \/ WriteFail(c) \/ RangeEnd(c)
      PROVE  SockInv'
  BY <1>4 DEF TakeMsg, WriteOk, WriteFail, RangeEnd, WriterExit, SockInv, TypeOK
<1> QED BY <1>1, <1>2, <1>3, <1>4, NextCases DEF StepOf

LEMMA SockInit == Init => SockInv
BY DEF Init, SockInv

LEMMA FeedInit == Init => Feed!Init
BY DEF Init, Feed!Init, Phase

LEMMA FeedHandler ==
  ASSUME TypeOK, SockInv, NEW c \in Conns,
         \/ RegisterClient(c) \/ MarkOnline(c) \/ ReadError(c)
         \/ UnregisterClient(c) \/ MarkOffline(c)
  PROVE  [Feed!Next]_(Feed!vars)
<1>1. CASE RegisterClient(c)
  <2>1. /\ Phase[c] = "before"
        /\ Phase' = [Phase EXCEPT ![c] = "subscribed"]
    BY <1>1 DEF RegisterClient, Goto, Phase, TypeOK
  <2>2. Feed!Subscribe(c)
    BY <1>1, <2>1 DEF RegisterClient, writerVars, Feed!Subscribe
  <2> QED BY <2>2 DEF Feed!Next
<1>2. CASE ReadError(c)
  <2>0. sent' = sent /\ joined' = joined /\ delivered' = delivered
    BY <1>2 DEF ReadError, hubVars, writerVars
  <2>1. CASE sock[c]
    <3>1. Phase[c] = "subscribed" /\ Phase' = [Phase EXCEPT ![c] = "over"]
      BY <1>2, <2>1 DEF ReadError, Goto, Phase, TypeOK
    <3>2. Feed!End(c)
      BY <2>0, <3>1 DEF Feed!End
    <3> QED BY <3>2 DEF Feed!Next
  <2>2. CASE ~sock[c]
    <3>1. Phase' = Phase
      BY <1>2, <2>2 DEF ReadError, Goto, Phase, TypeOK
    <3> QED BY <2>0, <3>1 DEF Feed!vars
  <2> QED BY <2>1, <2>2
<1>3. CASE MarkOnline(c) \/ UnregisterClient(c) \/ MarkOffline(c)
  <2>1. Phase' = Phase
    BY <1>3 DEF MarkOnline, UnregisterClient, MarkOffline, Goto, Phase, TypeOK
  <2> QED
    BY <1>3, <2>1 DEF MarkOnline, UnregisterClient, MarkOffline, hubVars,
                      writerVars, Feed!vars
<1> QED BY <1>1, <1>2, <1>3

LEMMA FeedWriter ==
  ASSUME TypeOK, StreamInv, SockInv, NEW c \in Conns,
         TakeMsg(c) \/ WriteOk(c) \/ WriteFail(c) \/ RangeEnd(c)
  PROVE  [Feed!Next]_(Feed!vars)
<1> USE HubAssumption
<1>0. ConnInv(c)
  BY DEF StreamInv
<1>1. CASE TakeMsg(c)
  BY <1>1 DEF TakeMsg, hubVars, Phase, Feed!vars
<1>2. CASE WriteOk(c)
  <2> DEFINE next == joined[c] + Len(delivered[c]) + 1
  <2>1. /\ sent' = sent /\ joined' = joined /\ Phase' = Phase
        /\ delivered' = [delivered EXCEPT ![c] = @ \o hand[c]]
    BY <1>2 DEF WriteOk, hubVars, Phase
  <2>2. Phase[c] = "subscribed" /\ Active(c)
    BY <1>2 DEF WriteOk, SockInv, Phase, Active
  <2>3. /\ SeqTypes /\ Len(delivered[c]) \in Nat /\ Len(queue[c]) \in Nat
        /\ joined[c] \in Nat /\ sent[KeyOf[c]] \in Nat
    BY LenProperties DEF TypeOK, SeqTypes
  <2>4. Len(hand[c]) = 1
    BY <1>0, <1>2 DEF WriteOk, ConnInv, HandMatches
  <2>5. hand[c][1] = next
    BY <1>0, <2>3, <2>4 DEF ConnInv, Consecutive, RunAfter, SeqTypes
  <2>6. delivered[c] \o hand[c] = Append(delivered[c], next)
    <3>1. hand[c] = <<next>>
      BY <2>3, <2>4, <2>5 DEF SeqTypes
    <3> QED BY <2>3, <3>1 DEF SeqTypes
  <2>7. next <= sent[KeyOf[c]]
    <3>1. joined[c] + Accepted(c) <= sent[KeyOf[c]]
      <4>1. Accepted(c) \in Nat
        BY <2>3, <2>4 DEF Accepted, SeqTypes
      <4> QED BY <1>0, <2>2, <2>3, <4>1 DEF ConnInv, Accounted
    <3> QED BY <2>3, <2>4, <3>1 DEF Accepted, SeqTypes
  <2>8. Feed!Deliver(c)
    BY <2>1, <2>2, <2>6, <2>7 DEF Feed!Deliver
  <2> QED BY <2>8 DEF Feed!Next
<1>3. CASE WriteFail(c) \/ RangeEnd(c)
  <2>1. /\ sent' = sent /\ joined' = joined /\ delivered' = delivered
        /\ pc' = pc /\ sock' = [sock EXCEPT ![c] = FALSE]
    BY <1>3 DEF WriteFail, RangeEnd, WriterExit, hubVars
  <2>2. CASE sock[c]
    <3>1. Phase[c] = "subscribed" /\ Phase' = [Phase EXCEPT ![c] = "over"]
      BY <2>1, <2>2 DEF Phase, SockInv, TypeOK
    <3>2. Feed!End(c)
      BY <2>1, <3>1 DEF Feed!End
    <3> QED BY <3>2 DEF Feed!Next
  <2>3. CASE ~sock[c]
    <3>1. Phase' = Phase
      BY <2>1, <2>3 DEF Phase, TypeOK
    <3> QED BY <2>1, <3>1 DEF Feed!vars
  <2> QED BY <2>2, <2>3
<1> QED BY <1>1, <1>2, <1>3

LEMMA FeedStep ==
  TypeOK /\ StreamInv /\ SockInv /\ [Next]_vars => [Feed!Next]_(Feed!vars)
<1> SUFFICES ASSUME TypeOK, StreamInv, SockInv, [Next]_vars
             PROVE  [Feed!Next]_(Feed!vars)
  OBVIOUS
<1>1. CASE UNCHANGED vars
  BY <1>1 DEF vars, Phase, Feed!vars
<1>2. CASE \E k \in Keys : Broadcast(k)
  <2>1. PICK k \in Keys : Broadcast(k)
    BY <1>2
  <2>2. Feed!Publish(k)
    BY <2>1 DEF Broadcast, writerVars, Phase, Feed!Publish
  <2> QED BY <2>2 DEF Feed!Next
<1>3. CASE \E c \in Conns : StepOf(c)
  BY <1>3, FeedHandler, FeedWriter DEF StepOf
<1> QED BY <1>1, <1>2, <1>3, NextCases

\* With its buffers, writers, evictions and panics, the hub implements the
\* ordered feed: no duplicate, no hole, no reordering on any connection.
THEOREM FeedCorrect == Spec => ImplementsFeed
BY StreamAlways, SockInit, SockStep, FeedInit, FeedStep, PTL
   DEF Spec, ImplementsFeed, Feed!Spec

-----------------------------------------------------------------------------
(* What teardown rests on: it never waits for anybody but a peer that does *)
(* not read, and it takes a bounded number of steps.                       *)

\* A writer runs from markOnline on, and one that has ended closed the socket.
WriterInv ==
  \A c \in Conns :
    /\ writer[c] = "none" <=> pc[c] \in {"new", "registered"}
    /\ writer[c] = "done" => ~sock[c]

LEMMA WriterInvInit == Init => WriterInv
BY DEF Init, WriterInv

LEMMA WriterInvStep == TypeOK /\ StreamInv /\ WriterInv /\ [Next]_vars => WriterInv'
<1> SUFFICES ASSUME TypeOK, StreamInv, WriterInv, [Next]_vars PROVE WriterInv'
  OBVIOUS
<1>1. CASE UNCHANGED vars \/ \E k \in Keys : Broadcast(k)
  BY <1>1 DEF vars, Broadcast, writerVars, WriterInv
<1>2. ASSUME NEW c \in Conns, RegisterClient(c) \/ MarkOnline(c) \/ ReadError(c)
      PROVE  WriterInv'
  BY <1>2 DEF RegisterClient, MarkOnline, ReadError, Goto, writerVars, hubVars,
              WriterInv, TypeOK
<1>3. ASSUME NEW c \in Conns, UnregisterClient(c) \/ MarkOffline(c)
      PROVE  WriterInv'
  BY <1>3 DEF UnregisterClient, MarkOffline, Goto, writerVars, WriterInv, TypeOK
<1>4. ASSUME NEW c \in Conns, TakeMsg(c) \/ WriteOk(c) PROVE WriterInv'
  BY <1>4 DEF TakeMsg, WriteOk, WriterInv, TypeOK
<1>5. ASSUME NEW c \in Conns, WriteFail(c) \/ RangeEnd(c) PROVE WriterInv'
  BY <1>5 DEF WriteFail, RangeEnd, WriterExit, WriterInv, TypeOK
<1> QED BY <1>1, <1>2, <1>3, <1>4, <1>5, NextCases DEF StepOf

\* A connection whose channel is closed, by broadcast or by its handler.
Closed(c) == pc[c] # "new" /\ ~open[c]

\* A goroutine of c that can go on without its peer: the mutexes are held for
\* a bounded time, a read and a write fail on a socket that is closed, and
\* a channel has a message or, when it is closed, an end.
HandlerReady(c) ==
  \/ pc[c] \in {"registered", "leaving", "unregistered"}
  \/ pc[c] = "reading" /\ ~sock[c]

WriterReady(c) ==
  \/ writer[c] = "recv" /\ (queue[c] # <<>> \/ ~open[c])
  \/ writer[c] = "writing" /\ ~sock[c]

\* The writer is in a write that the peer does not take.
Stalled(c) == writer[c] = "writing" /\ sock[c]

\* A connection that the server has given up, by closing its channel or its
\* socket, is torn down, or a goroutine of it can go on, or the peer of an
\* evicted one holds up its writer.
TeardownReady ==
  \A c \in Conns :
    pc[c] # "new" /\ (~open[c] \/ ~sock[c]) =>
      \/ pc[c] = "gone" /\ writer[c] = "done"
      \/ HandlerReady(c) \/ WriterReady(c)
      \/ Stalled(c) /\ pc[c] = "reading" /\ ~open[c]

LEMMA TeardownFacts == TypeOK /\ HubInv /\ SockInv /\ WriterInv => TeardownReady
<1> SUFFICES ASSUME TypeOK, HubInv, SockInv, WriterInv, NEW c \in Conns,
                    pc[c] # "new", ~open[c] \/ ~sock[c]
             PROVE  \/ pc[c] = "gone" /\ writer[c] = "done"
                    \/ HandlerReady(c) \/ WriterReady(c)
                    \/ Stalled(c) /\ pc[c] = "reading" /\ ~open[c]
  BY DEF TeardownReady
<1>1. pc[c] \in HandlerStates /\ writer[c] \in WriterStates
  BY DEF TypeOK
<1>2. CASE pc[c] = "gone"
  <2>1. ~open[c] /\ ~sock[c]
    BY <1>2 DEF HubInv, SockInv, Active
  <2>2. writer[c] # "none"
    BY <1>2 DEF WriterInv
  <2> QED BY <1>1, <1>2, <2>1, <2>2 DEF WriterReady, WriterStates
<1>3. CASE pc[c] = "reading" /\ sock[c]
  <2>1. writer[c] \in {"recv", "writing"}
    BY <1>1, <1>3 DEF WriterInv, WriterStates
  <2> QED BY <1>3, <2>1 DEF WriterReady, Stalled
<1> QED BY <1>1, <1>2, <1>3 DEF HandlerReady, HandlerStates

\* The guards that WF is about in FairSpec: between an eviction, or the end of
\* a socket, and the end of both goroutines nothing but a peer that does not
\* read can hold up the teardown; there is no deadlock among the goroutines.
THEOREM TeardownReadyCorrect == Spec => []TeardownReady
BY TeardownFacts, StreamAlways, SockInit, SockStep, WriterInvInit, WriterInvStep, PTL DEF Spec

\* The steps that the two goroutines of a connection have left.
HandlerLeft(c) ==
  CASE pc[c] = "registered"   -> 4
    [] pc[c] = "reading"      -> 3
    [] pc[c] = "leaving"      -> 2
    [] pc[c] = "unregistered" -> 1
    [] OTHER                  -> 0

WriterLeft(c) ==
  CASE writer[c] = "writing" -> 2 * Len(queue[c]) + 2
    [] writer[c] = "done"    -> 0
    [] OTHER                 -> 2 * Len(queue[c]) + 1

StepsLeft(c) == HandlerLeft(c) + WriterLeft(c)

\* The channel of a connection that is closed stays closed, whatever is
\* broadcast puts nothing into it, and every step of the connection is one
\* of a bounded number.
TeardownEnds ==
  \A c \in Conns :
    Closed(c) =>
      /\ Closed(c)'
      /\ StepsLeft(c) \in Nat
      /\ StepOf(c) => StepsLeft(c)' < StepsLeft(c)
      /\ ~StepOf(c) => StepsLeft(c)' = StepsLeft(c)

LEMMA EndsOwnStep ==
  ASSUME TypeOK, WriterInv, NEW c \in Conns, Closed(c), StepOf(c)
  PROVE  Closed(c)' /\ StepsLeft(c) \in Nat /\ StepsLeft(c)' < StepsLeft(c)
<1>1. /\ pc[c] \in HandlerStates /\ writer[c] \in WriterStates
      /\ queue[c] \in Seq(Nat) /\ Len(queue[c]) \in Nat
  BY LenProperties DEF TypeOK
<1>2. HandlerLeft(c) \in 0..4 /\ WriterLeft(c) \in Nat
  BY <1>1 DEF HandlerLeft, WriterLeft
<1>3. CASE MarkOnline(c)
  <2>1. /\ pc[c] = "registered" /\ pc'[c] = "reading" /\ writer'[c] = "recv"
        /\ queue' = queue /\ open' = open
    BY <1>3 DEF MarkOnline, Goto, hubVars, TypeOK
  <2>2. writer[c] = "none"
    BY <2>1 DEF WriterInv
  <2> QED BY <1>1, <2>1, <2>2 DEF Closed, StepsLeft, HandlerLeft, WriterLeft
<1>4. CASE ReadError(c) \/ UnregisterClient(c) \/ MarkOffline(c)
  <2>1. /\ HandlerLeft(c)' < HandlerLeft(c) /\ HandlerLeft(c)' \in Nat
        /\ pc'[c] # "new" /\ writer' = writer /\ queue' = queue /\ ~open'[c]
    BY <1>4 DEF ReadError, UnregisterClient, MarkOffline, Goto, hubVars, writerVars,
                TypeOK, Closed, HandlerLeft
  <2>2. WriterLeft(c)' = WriterLeft(c)
    BY <2>1 DEF WriterLeft
  <2> QED BY <1>2, <2>1, <2>2 DEF Closed, StepsLeft
<1>5. CASE TakeMsg(c) \/ WriteOk(c) \/ WriteFail(c) \/ RangeEnd(c)
  <2>1. pc' = pc /\ open' = open
    BY <1>5 DEF TakeMsg, WriteOk, WriteFail, RangeEnd, WriterExit, hubVars
  <2>2. HandlerLeft(c)' = HandlerLeft(c)
    BY <2>1 DEF HandlerLeft
  <2>3. CASE TakeMsg(c)
    <3>1. /\ writer[c] = "recv" /\ writer'[c] = "writing" /\ queue[c] # <<>>
          /\ queue'[c] = Tail(queue[c])
      BY <2>3 DEF TakeMsg, TypeOK
    <3>2. Len(queue'[c]) = Len(queue[c]) - 1 /\ Len(queue[c]) > 0
      BY <1>1, <3>1, HeadTailProperties, EmptySeq
    <3>3. WriterLeft(c)' < WriterLeft(c) /\ WriterLeft(c)' \in Nat
      BY <1>1, <3>1, <3>2 DEF WriterLeft
    <3> QED BY <1>2, <2>1, <2>2, <3>3 DEF Closed, StepsLeft
  <2>4. CASE WriteOk(c)
    <3>1. writer[c] = "writing" /\ writer'[c] = "recv" /\ queue' = queue
      BY <2>4 DEF WriteOk, TypeOK
    <3>2. WriterLeft(c)' < WriterLeft(c) /\ WriterLeft(c)' \in Nat
      BY <1>1, <3>1 DEF WriterLeft
    <3> QED BY <1>2, <2>1, <2>2, <3>2 DEF Closed, StepsLeft
  <2>5. CASE WriteFail(c) \/ RangeEnd(c)
    <3>1. writer[c] \in {"recv", "writing"} /\ writer'[c] = "done"
      BY <2>5 DEF WriteFail, RangeEnd, WriterExit, TypeOK
    <3>2. WriterLeft(c)' < WriterLeft(c) /\ WriterLeft(c)' \in Nat
      BY <1>1, <3>1 DEF WriterLeft
    <3> QED BY <1>2, <2>1, <2>2, <3>2 DEF Closed, StepsLeft
  <2> QED BY <1>5, <2>3, <2>4, <2>5
<1>6. ~RegisterClient(c)
  BY DEF Closed, RegisterClient, Goto
<1> QED BY <1>2, <1>3, <1>4, <1>5, <1>6 DEF StepOf, StepsLeft

LEMMA EndsOtherStep ==
  ASSUME TypeOK, HubInv, NEW c \in Conns, Closed(c), [Next]_vars, ~StepOf(c)
  PROVE  Closed(c)' /\ StepsLeft(c)' = StepsLeft(c)
<1>1. pc'[c] = pc[c] /\ writer'[c] = writer[c] /\ queue'[c] = queue[c] /\ ~open'[c]
  <2>1. CASE UNCHANGED vars
    BY <2>1 DEF vars, Closed
  <2>2. ASSUME NEW d \in Conns, StepOf(d), d # c
        PROVE  pc'[c] = pc[c] /\ writer'[c] = writer[c] /\ queue'[c] = queue[c] /\ ~open'[c]
    BY <2>2, OnlyOwnConn DEF Untouched, Closed
  <2>3. ASSUME NEW k \in Keys, Broadcast(k)
        PROVE  pc'[c] = pc[c] /\ writer'[c] = writer[c] /\ queue'[c] = queue[c] /\ ~open'[c]
    <3>1. c \notin hub[k]
      BY DEF HubInv, OpenIffRegistered, Closed
    <3> QED BY <2>3, <3>1 DEF Broadcast, writerVars, Closed
  <2> QED BY <2>1, <2>2, <2>3, NextCases
<1> QED BY <1>1 DEF Closed, StepsLeft, HandlerLeft, WriterLeft

\* Eviction and unregisterClient are final: nothing is broadcast into a closed
\* channel, and the writer has the buffer, the message in its hand and the
\* end of the range to deal with, and no more.
THEOREM TeardownEndsCorrect == Spec => [][TeardownEnds]_vars
<1>1. TypeOK /\ HubInv /\ WriterInv /\ [Next]_vars => TeardownEnds
  <2> SUFFICES ASSUME TypeOK, HubInv, WriterInv, [Next]_vars, NEW c \in Conns, Closed(c)
               PROVE  /\ Closed(c)'
                      /\ StepsLeft(c) \in Nat
                      /\ StepOf(c) => StepsLeft(c)' < StepsLeft(c)
                      /\ ~StepOf(c) => StepsLeft(c)' = StepsLeft(c)
    BY DEF TeardownEnds
  <2>1. StepsLeft(c) \in Nat
    <3>1. Len(queue[c]) \in Nat
      BY LenProperties DEF TypeOK
    <3>2. HandlerLeft(c) \in Nat /\ WriterLeft(c) \in Nat
      BY <3>1 DEF HandlerLeft, WriterLeft
    <3> QED BY <3>2 DEF StepsLeft
  <2> QED BY <2>1, EndsOwnStep, EndsOtherStep
<1> QED BY <1>1, StreamAlways, WriterInvInit, WriterInvStep, PTL DEF Spec
=============================================================================
