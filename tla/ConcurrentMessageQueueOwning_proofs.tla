----------------- MODULE ConcurrentMessageQueueOwning_proofs -----------------
(***************************************************************************)
(* The message queue, for every finite set of producers and consumers and  *)
(* every capacity: its counters are exact.  For one producer and one       *)
(* consumer, as the answer-set results use it: no wakeup is lost.          *)
(***************************************************************************)
EXTENDS ConcurrentMessageQueueOwning, FiniteSetTheorems, TLAPS

\* a thread that waits, or whose wait has timed out, is inside a call of its side
WaitersCall ==
  /\ Sending \subseteq Producers
  /\ Receiving \subseteq Consumers
  /\ waiting \subseteq Sending \cup Receiving
  /\ timedOut \subseteq (Sending \cup Receiving) \ waiting

QInv == TypeOK /\ WaitersCall /\ CountersExact

-------------------------------------------------------------------------------
(***************************************************************************)
(* How the sets of callers change, and with them the counters.             *)
(***************************************************************************)

LEMMA CallsAreApart ==
  /\ SendCalls \cap ReceiveCalls = {}
  /\ "outside" \notin SendCalls \cup ReceiveCalls
  /\ "flush" \notin SendCalls \cup ReceiveCalls
  BY DEF SendCalls, ReceiveCalls

LEMMA CallersAreFinite ==
  /\ IsFiniteSet(Sending) /\ IsFiniteSet(Receiving)
  /\ Cardinality(Sending) \in Nat /\ Cardinality(Receiving) \in Nat
<1>1. IsFiniteSet(Threads)
  BY ThreadsAssumption, FS_Union DEF Threads
<1>2. Sending \in SUBSET Threads /\ Receiving \in SUBSET Threads
  BY DEF Sending, Receiving
<1> QED
  BY <1>1, <1>2, FS_Subset, FS_CardinalityType

\* notify_one leaves the sleepers alone or wakes one of them
LEMMA NotifyWakesAtMostOne ==
  ASSUME NEW counted, NotifyOne(counted)
  PROVE  /\ waiting' \subseteq waiting
         /\ counted /\ waiting # {} => \E t \in waiting : waiting' = waiting \ {t}
         /\ ~counted => waiting' = waiting
  BY DEF NotifyOne

\* a thread that begins to wait in a send call
LEMMA SenderEnters ==
  ASSUME QInv, NEW t \in Threads, pc[t] = "outside",
         NEW call \in SendCalls, pc' = [pc EXCEPT ![t] = call]
  PROVE  /\ Sending' = Sending \cup {t} /\ Receiving' = Receiving
         /\ Cardinality(Sending') = Cardinality(Sending) + 1
<1>1. t \notin Sending
  BY CallsAreApart DEF Sending
<1>2. Sending' = Sending \cup {t} /\ Receiving' = Receiving
  BY CallsAreApart DEF QInv, TypeOK, Sending, Receiving
<1> QED
  BY <1>1, <1>2, CallersAreFinite, FS_AddElement

\* a thread that begins to wait in a receive call
LEMMA ReceiverEnters ==
  ASSUME QInv, NEW t \in Threads, pc[t] = "outside",
         NEW call \in ReceiveCalls, pc' = [pc EXCEPT ![t] = call]
  PROVE  /\ Receiving' = Receiving \cup {t} /\ Sending' = Sending
         /\ Cardinality(Receiving') = Cardinality(Receiving) + 1
<1>1. t \notin Receiving
  BY CallsAreApart DEF Receiving
<1>2. Receiving' = Receiving \cup {t} /\ Sending' = Sending
  BY CallsAreApart DEF QInv, TypeOK, Sending, Receiving
<1> QED
  BY <1>1, <1>2, CallersAreFinite, FS_AddElement

\* a thread that leaves its call
LEMMA CallerLeaves ==
  ASSUME QInv, NEW t \in Threads, Leave(t)
  PROVE  /\ Sending' = Sending \ {t} /\ Receiving' = Receiving \ {t}
         /\ t \in Sending => Cardinality(Sending') = Cardinality(Sending) - 1
         /\ t \notin Sending => Sending' = Sending
         /\ t \in Receiving => Cardinality(Receiving') = Cardinality(Receiving) - 1
         /\ t \notin Receiving => Receiving' = Receiving
<1>1. Sending' = Sending \ {t} /\ Receiving' = Receiving \ {t}
  BY CallsAreApart DEF QInv, TypeOK, Sending, Receiving, Leave
<1>2. t \in Sending => Cardinality(Sending \ {t}) = Cardinality(Sending) - 1
  BY CallersAreFinite, FS_RemoveElement
<1>3. t \in Receiving => Cardinality(Receiving \ {t}) = Cardinality(Receiving) - 1
  BY CallersAreFinite, FS_RemoveElement
<1>4. /\ t \notin Sending => Sending \ {t} = Sending
      /\ t \notin Receiving => Receiving \ {t} = Receiving
  OBVIOUS
<1> QED
  BY <1>1, <1>2, <1>3, <1>4

-------------------------------------------------------------------------------
(***************************************************************************)
(* The inductive invariant holds initially and is kept by every action.    *)
(***************************************************************************)

LEMMA InitQueue == Init => QInv
<1> SUFFICES ASSUME Init PROVE QInv
  OBVIOUS
<1>1. Sending = {} /\ Receiving = {}
  BY CallsAreApart DEF Init, Sending, Receiving
<1>2. TypeOK
  BY CapacityAssumption DEF Init, TypeOK
<1> QED
  BY <1>1, <1>2, FS_EmptySet DEF Init, QInv, WaitersCall, CountersExact

LEMMA StartSendKeeps ==
  ASSUME QInv, NEW t \in Producers, NEW m \in Messages, NEW call \in SendCalls,
         StartSend(t, m, call)
  PROVE  QInv'
<1>1. t \in Threads /\ pc[t] = "outside" /\ t \notin Sending \cup Receiving
  BY CallsAreApart DEF Threads, StartSend, Sending, Receiving
<1>2. CASE Full /\ pc' = [pc EXCEPT ![t] = call] /\ enq' = enq + 1
           /\ waiting' = waiting \cup {t} /\ UNCHANGED q
  <2>1. /\ Sending' = Sending \cup {t} /\ Receiving' = Receiving
        /\ Cardinality(Sending') = Cardinality(Sending) + 1
    BY <1>1, <1>2, SenderEnters
  <2>2. TypeOK'
    BY <1>1, <1>2 DEF QInv, TypeOK, StartSend
  <2>3. WaitersCall'
    BY <1>1, <1>2, <2>1 DEF QInv, WaitersCall, StartSend
  <2>4. CountersExact'
    BY <1>2, <2>1 DEF QInv, CountersExact, StartSend
  <2> QED
    BY <2>2, <2>3, <2>4 DEF QInv
<1>3. CASE ~Full /\ NotifyConsumer /\ q' = Append(q, m) /\ UNCHANGED <<enq, pc>>
  <2>1. waiting' \subseteq waiting
    BY <1>3, NotifyWakesAtMostOne DEF NotifyConsumer
  <2>2. Sending' = Sending /\ Receiving' = Receiving
    BY <1>3 DEF Sending, Receiving
  <2>3. Len(q') <= Capacity /\ q' \in Seq(Messages)
    BY <1>3, CapacityAssumption DEF QInv, TypeOK, Full
  <2>4. TypeOK'
    BY <1>1, <1>3, <2>1, <2>3 DEF QInv, TypeOK, StartSend
  <2>5. WaitersCall'
    BY <2>1, <2>2 DEF QInv, WaitersCall, StartSend
  <2>6. CountersExact'
    BY <1>3, <2>2 DEF QInv, CountersExact, StartSend
  <2> QED
    BY <2>4, <2>5, <2>6 DEF QInv
<1> QED
  BY <1>2, <1>3 DEF StartSend

LEMMA StartReceiveKeeps ==
  ASSUME QInv, NEW t \in Consumers, NEW call \in ReceiveCalls,
         StartReceive(t, call)
  PROVE  QInv'
<1>1. t \in Threads /\ pc[t] = "outside" /\ t \notin Sending \cup Receiving
  BY CallsAreApart DEF Threads, StartReceive, Sending, Receiving
<1>2. CASE q = <<>> /\ pc' = [pc EXCEPT ![t] = call] /\ deq' = deq + 1
           /\ waiting' = waiting \cup {t} /\ UNCHANGED q
  <2>1. /\ Receiving' = Receiving \cup {t} /\ Sending' = Sending
        /\ Cardinality(Receiving') = Cardinality(Receiving) + 1
    BY <1>1, <1>2, ReceiverEnters
  <2>2. TypeOK'
    BY <1>1, <1>2 DEF QInv, TypeOK, StartReceive
  <2>3. WaitersCall'
    BY <1>1, <1>2, <2>1 DEF QInv, WaitersCall, StartReceive
  <2>4. CountersExact'
    BY <1>2, <2>1 DEF QInv, CountersExact, StartReceive
  <2> QED
    BY <2>2, <2>3, <2>4 DEF QInv
<1>3. CASE q # <<>> /\ NotifyProducer /\ q' = Tail(q) /\ UNCHANGED <<deq, pc>>
  <2>1. waiting' \subseteq waiting
    BY <1>3, NotifyWakesAtMostOne DEF NotifyProducer
  <2>2. Sending' = Sending /\ Receiving' = Receiving
    BY <1>3 DEF Sending, Receiving
  <2>3. Len(q') <= Capacity /\ q' \in Seq(Messages)
    BY <1>3, CapacityAssumption DEF QInv, TypeOK
  <2>4. TypeOK'
    BY <1>1, <1>3, <2>1, <2>3 DEF QInv, TypeOK, StartReceive
  <2>5. WaitersCall'
    BY <2>1, <2>2 DEF QInv, WaitersCall, StartReceive
  <2>6. CountersExact'
    BY <1>3, <2>2 DEF QInv, CountersExact, StartReceive
  <2> QED
    BY <2>4, <2>5, <2>6 DEF QInv
<1> QED
  BY <1>2, <1>3 DEF StartReceive

\* a woken producer, or one whose time is over, ends its call
LEMMA ResumeSendKeeps == ASSUME QInv, NEW t \in Threads, ResumeSend(t) PROVE QInv'
<1>1. t \in Sending /\ t \in Producers /\ t \notin Receiving /\ t \notin waiting
  BY CallsAreApart DEF ResumeSend, QInv, WaitersCall, Sending, Receiving
<1>2. /\ Sending' = Sending \ {t} /\ Receiving' = Receiving
      /\ Cardinality(Sending') = Cardinality(Sending) - 1
  BY <1>1, CallerLeaves DEF ResumeSend
<1>3. waiting' \subseteq waiting
  BY NotifyWakesAtMostOne DEF ResumeSend, NotifyConsumer
<1>4. q' \in Seq(Messages) /\ Len(q') <= Capacity
  <2>1. CASE t \in timedOut
    BY <2>1 DEF ResumeSend, QInv, TypeOK
  <2>2. CASE t \notin timedOut
    <3>1. outgoing[t] \in Messages
      BY <1>1 DEF QInv, TypeOK
    <3>2. q' = Append(q, outgoing[t]) /\ Len(q) # Capacity
      BY <2>2 DEF ResumeSend, Full
    <3> QED
      BY <3>1, <3>2, CapacityAssumption DEF QInv, TypeOK
  <2> QED
    BY <2>1, <2>2
<1>5. enq' \in Nat /\ enq' = Cardinality(Sending') /\ deq' = Cardinality(Receiving')
  <2>1. enq = Cardinality(Sending) /\ deq = Cardinality(Receiving)
    BY DEF QInv, CountersExact
  <2>2. enq' = enq - 1 /\ deq' = deq
    BY DEF ResumeSend
  <2>3. Cardinality(Sending) - 1 \in Nat
    <3>1. IsFiniteSet(Sending \ {t})
      BY CallersAreFinite, FS_RemoveElement
    <3> QED
      BY <1>2, <3>1, FS_CardinalityType
  <2> QED
    BY <1>2, <2>1, <2>2, <2>3
<1>6. TypeOK'
  BY <1>3, <1>4, <1>5 DEF QInv, TypeOK, ResumeSend, Leave
<1>7. WaitersCall'
  BY <1>1, <1>2, <1>3 DEF QInv, WaitersCall, ResumeSend
<1> QED
  BY <1>5, <1>6, <1>7 DEF QInv, CountersExact

\* a woken consumer, or one whose time is over, ends its call
LEMMA ResumeReceiveKeeps == ASSUME QInv, NEW t \in Threads, ResumeReceive(t) PROVE QInv'
<1>1. t \in Receiving /\ t \notin Sending /\ t \notin waiting
  BY CallsAreApart DEF ResumeReceive, QInv, WaitersCall, Sending, Receiving
<1>2. /\ Receiving' = Receiving \ {t} /\ Sending' = Sending
      /\ Cardinality(Receiving') = Cardinality(Receiving) - 1
  BY <1>1, CallerLeaves DEF ResumeReceive
<1>3. waiting' \subseteq waiting
  BY NotifyWakesAtMostOne DEF ResumeReceive, NotifyProducer
<1>4. q' \in Seq(Messages) /\ Len(q') <= Capacity
  <2>1. CASE t \in timedOut
    BY <2>1 DEF ResumeReceive, QInv, TypeOK
  <2>2. CASE t \notin timedOut
    <3>1. q' = Tail(q) /\ q # <<>>
      BY <2>2 DEF ResumeReceive
    <3> QED
      BY <3>1, CapacityAssumption DEF QInv, TypeOK
  <2> QED
    BY <2>1, <2>2
<1>5. deq' \in Nat /\ enq' = Cardinality(Sending') /\ deq' = Cardinality(Receiving')
  <2>1. enq = Cardinality(Sending) /\ deq = Cardinality(Receiving)
    BY DEF QInv, CountersExact
  <2>2. deq' = deq - 1 /\ enq' = enq
    BY DEF ResumeReceive
  <2>3. Cardinality(Receiving) - 1 \in Nat
    <3>1. IsFiniteSet(Receiving \ {t})
      BY CallersAreFinite, FS_RemoveElement
    <3> QED
      BY <1>2, <3>1, FS_CardinalityType
  <2> QED
    BY <1>2, <2>1, <2>2, <2>3
<1>6. TypeOK'
  BY <1>3, <1>4, <1>5 DEF QInv, TypeOK, ResumeReceive, Leave
<1>7. WaitersCall'
  BY <1>1, <1>2, <1>3 DEF QInv, WaitersCall, ResumeReceive
<1> QED
  BY <1>5, <1>6, <1>7 DEF QInv, CountersExact

LEMMA TrySendKeeps ==
  ASSUME QInv, NEW t \in Producers, NEW m \in Messages, TrySend(t, m)
  PROVE  QInv'
<1>1. waiting' \subseteq waiting
  BY NotifyWakesAtMostOne DEF TrySend, NotifyConsumer
<1>2. Sending' = Sending /\ Receiving' = Receiving
  BY DEF TrySend, Sending, Receiving
<1>3. q' \in Seq(Messages) /\ Len(q') <= Capacity
  BY CapacityAssumption DEF TrySend, Full, QInv, TypeOK
<1>4. TypeOK'
  BY <1>1, <1>3 DEF QInv, TypeOK, TrySend
<1>5. WaitersCall' /\ CountersExact'
  BY <1>1, <1>2 DEF QInv, WaitersCall, CountersExact, TrySend
<1> QED
  BY <1>4, <1>5 DEF QInv

LEMMA TryReceiveKeeps == ASSUME QInv, NEW t \in Consumers, TryReceive(t) PROVE QInv'
<1>1. waiting' \subseteq waiting
  BY NotifyWakesAtMostOne DEF TryReceive, NotifyProducer
<1>2. Sending' = Sending /\ Receiving' = Receiving
  BY DEF TryReceive, Sending, Receiving
<1>3. q' \in Seq(Messages) /\ Len(q') <= Capacity
  BY CapacityAssumption DEF TryReceive, QInv, TypeOK
<1>4. TypeOK'
  BY <1>1, <1>3 DEF QInv, TypeOK, TryReceive
<1>5. WaitersCall' /\ CountersExact'
  BY <1>1, <1>2 DEF QInv, WaitersCall, CountersExact, TryReceive
<1> QED
  BY <1>4, <1>5 DEF QInv

LEMMA FlushKeeps == ASSUME QInv, NEW t \in Threads, Flush(t) PROVE QInv'
<1>1. Sending' = Sending /\ Receiving' = Receiving
  BY CallsAreApart DEF Flush, QInv, TypeOK, Sending, Receiving
<1>2. TypeOK'
  BY CapacityAssumption DEF QInv, TypeOK, Flush
<1>3. WaitersCall' /\ CountersExact'
  BY <1>1 DEF QInv, WaitersCall, CountersExact, Flush
<1> QED
  BY <1>2, <1>3 DEF QInv

LEMMA NotifyAfterFlushKeeps ==
  ASSUME QInv, NEW t \in Threads, NotifyAfterFlush(t) PROVE QInv'
<1>1. waiting' \subseteq waiting
  BY NotifyWakesAtMostOne DEF NotifyAfterFlush, NotifyProducer
<1>2. Sending' = Sending /\ Receiving' = Receiving
  BY CallsAreApart, CallerLeaves DEF NotifyAfterFlush, Sending, Receiving
<1>3. TypeOK'
  BY <1>1 DEF QInv, TypeOK, NotifyAfterFlush, Leave
<1>4. WaitersCall' /\ CountersExact'
  BY <1>1, <1>2 DEF QInv, WaitersCall, CountersExact, NotifyAfterFlush
<1> QED
  BY <1>3, <1>4 DEF QInv

\* the steps that only move a thread between waiting and running
LEMMA WaitingKeeps ==
  ASSUME QInv, NEW t \in Threads,
         \/ SleepAgainForSpace(t) \/ SleepAgainForMessage(t)
         \/ TimeOut(t) \/ SpuriousWakeup(t)
  PROVE  QInv'
<1>1. UNCHANGED <<q, enq, deq, pc, outgoing>>
  BY DEF SleepAgainForSpace, SleepAgainForMessage, TimeOut, SpuriousWakeup
<1>2. Sending' = Sending /\ Receiving' = Receiving
  BY <1>1 DEF Sending, Receiving
<1>3. WaitersCall'
  <2>1. CASE SleepAgainForSpace(t)
    BY <1>2, <2>1 DEF SleepAgainForSpace, Sending, QInv, WaitersCall
  <2>2. CASE SleepAgainForMessage(t)
    BY <1>2, <2>2 DEF SleepAgainForMessage, Receiving, QInv, WaitersCall
  <2>3. CASE TimeOut(t)
    BY <1>2, <2>3 DEF TimeOut, QInv, WaitersCall
  <2>4. CASE SpuriousWakeup(t)
    BY <1>2, <2>4 DEF SpuriousWakeup, QInv, WaitersCall
  <2> QED
    BY <2>1, <2>2, <2>3, <2>4
<1>4. waiting' \subseteq Threads /\ timedOut' \subseteq Threads
  BY DEF SleepAgainForSpace, SleepAgainForMessage, TimeOut, SpuriousWakeup, QInv, TypeOK
<1>5. TypeOK' /\ CountersExact'
  BY <1>1, <1>2, <1>4 DEF QInv, TypeOK, CountersExact
<1> QED
  BY <1>3, <1>5 DEF QInv

LEMMA StepQueue == QInv /\ [Next]_queueVars => QInv'
<1> SUFFICES ASSUME QInv, [Next]_queueVars PROVE QInv'
  OBVIOUS
<1>1. ASSUME NEW t \in Producers, NEW m \in Messages, NEW call \in SendCalls,
             StartSend(t, m, call)
      PROVE  QInv'
  BY <1>1, StartSendKeeps
<1>2. ASSUME NEW t \in Producers, NEW m \in Messages, TrySend(t, m) PROVE QInv'
  BY <1>2, TrySendKeeps
<1>3. ASSUME NEW t \in Consumers, NEW call \in ReceiveCalls, StartReceive(t, call)
      PROVE  QInv'
  BY <1>3, StartReceiveKeeps
<1>4. ASSUME NEW t \in Consumers, TryReceive(t) PROVE QInv'
  BY <1>4, TryReceiveKeeps
<1>5. ASSUME NEW t \in Threads, Resume(t) \/ TimeOut(t) \/ SpuriousWakeup(t) \/ Flush(t)
      PROVE  QInv'
  BY <1>5, ResumeSendKeeps, ResumeReceiveKeeps, FlushKeeps, NotifyAfterFlushKeeps,
     WaitingKeeps DEF Resume
<1>6. CASE UNCHANGED queueVars
  BY <1>6 DEF queueVars, QInv, TypeOK, WaitersCall, CountersExact, Sending, Receiving
<1> QED
  BY <1>1, <1>2, <1>3, <1>4, <1>5, <1>6 DEF Next

LEMMA QueueInvariant == Spec => []QInv
  BY InitQueue, StepQueue, PTL DEF Spec

\* The queue never holds more messages than its capacity, and the counters stay
\* natural numbers.
THEOREM QueueTypeCorrect == Spec => []TypeOK
<1>1. QInv => TypeOK
  BY DEF QInv
<1> QED
  BY <1>1, QueueInvariant, PTL

\* enq and deq, on which every notification depends, count the threads inside the
\* blocking and timed calls exactly, for any number of producers and consumers.
THEOREM CountersAreExact == Spec => []CountersExact
<1>1. QInv => CountersExact
  BY DEF QInv
<1> QED
  BY <1>1, QueueInvariant, PTL

-------------------------------------------------------------------------------
(***************************************************************************)
(* One producer and one consumer.                                          *)
(***************************************************************************)

\* an exact counter is positive while a thread of its side sleeps
LEMMA SleepersAreCounted ==
  ASSUME QInv
  PROVE  /\ Sending # {} => enq > 0
         /\ Receiving # {} => deq > 0
  BY CallersAreFinite, FS_EmptySet DEF QInv, CountersExact

\* who runs is not asleep, so that a notification reaches the other side
LEMMA OtherSideIsWoken ==
  ASSUME NEW p, NEW c, Producers = {p}, Consumers = {c}, QInv
  PROVE  /\ p \notin waiting /\ NotifyConsumer => waiting' = {}
         /\ c \notin waiting /\ NotifyProducer => waiting' = {}
<1>1. Sending \subseteq {p} /\ Receiving \subseteq {c} /\ waiting \subseteq Sending \cup Receiving
  BY DEF QInv, WaitersCall
<1>2. ASSUME p \notin waiting, NotifyConsumer PROVE waiting' = {}
  <2>1. waiting \subseteq {c} /\ (waiting # {} => Receiving # {})
    BY <1>1, <1>2
  <2> QED
    BY <1>2, <2>1, SleepersAreCounted DEF NotifyConsumer, NotifyOne
<1>3. ASSUME c \notin waiting, NotifyProducer PROVE waiting' = {}
  <2>1. waiting \subseteq {p} /\ (waiting # {} => Sending # {})
    BY <1>1, <1>3
  <2> QED
    BY <1>3, <2>1, SleepersAreCounted DEF NotifyProducer, NotifyOne
<1> QED
  BY <1>2, <1>3

LEMMA StepWakeup ==
  ASSUME NEW p, NEW c, Producers = {p}, Consumers = {c},
         QInv, QInv', NoLostWakeup, [Next]_queueVars
  PROVE  NoLostWakeup'
<1>1. Threads = {p, c} /\ p # c
  BY ThreadsAssumption DEF Threads
<1>2. Sending \subseteq {p} /\ Receiving \subseteq {c} /\ waiting \subseteq Sending \cup Receiving
  BY DEF QInv, WaitersCall
<1>3. Sending' \subseteq {p} /\ Receiving' \subseteq {c}
  BY DEF QInv, WaitersCall
<1>4. waiting' = {} => NoLostWakeup'
  BY DEF NoLostWakeup
<1>5. ASSUME NEW m \in Messages, NEW call \in SendCalls, StartSend(p, m, call)
      PROVE  NoLostWakeup'
  <2>1. p \notin waiting
    BY <1>1, <1>2, <1>5, CallsAreApart DEF StartSend, Sending, Receiving
  <2>2. CASE NotifyConsumer
    BY <1>4, <2>1, <2>2, OtherSideIsWoken
  <2>3. CASE Full /\ waiting' = waiting \cup {p} /\ UNCHANGED q /\ pc' = [pc EXCEPT ![p] = call]
    <3>1. Full'
      BY <2>3 DEF Full
    <3>2. Receiving' = Receiving
      BY <1>1, <1>5, <2>3, SenderEnters DEF StartSend
    <3> QED
      BY <1>1, <1>3, <2>3, <3>1, <3>2 DEF NoLostWakeup
  <2> QED
    BY <1>5, <2>2, <2>3 DEF StartSend
<1>6. ASSUME NEW m \in Messages, TrySend(p, m) PROVE NoLostWakeup'
  <2>1. p \notin waiting
    BY <1>1, <1>2, <1>6, CallsAreApart DEF TrySend, Sending, Receiving
  <2> QED
    BY <1>4, <1>6, <2>1, OtherSideIsWoken DEF TrySend
<1>7. ASSUME NEW call \in ReceiveCalls, StartReceive(c, call) PROVE NoLostWakeup'
  <2>1. c \notin waiting
    BY <1>1, <1>2, <1>7, CallsAreApart DEF StartReceive, Sending, Receiving
  <2>2. CASE NotifyProducer
    BY <1>4, <2>1, <2>2, OtherSideIsWoken
  <2>3. CASE q = <<>> /\ waiting' = waiting \cup {c} /\ UNCHANGED q /\ pc' = [pc EXCEPT ![c] = call]
    <3>1. Sending' = Sending /\ q' = <<>> /\ (Full' <=> Full)
      BY <1>1, <1>7, <2>3, ReceiverEnters DEF StartReceive, Full
    <3>2. (\E t \in Threads : pc[t] = "flush") => \E t \in Threads : pc'[t] = "flush"
      BY <1>1, <1>7, <2>3 DEF StartReceive, QInv, TypeOK
    <3> QED
      BY <1>1, <1>3, <2>3, <3>1, <3>2 DEF NoLostWakeup
  <2> QED
    BY <1>7, <2>2, <2>3 DEF StartReceive
<1>8. ASSUME TryReceive(c) PROVE NoLostWakeup'
  <2>1. c \notin waiting
    BY <1>1, <1>2, <1>8, CallsAreApart DEF TryReceive, Sending, Receiving
  <2> QED
    BY <1>4, <1>8, <2>1, OtherSideIsWoken DEF TryReceive
<1>9. ASSUME NEW t \in Threads, ResumeSend(t) PROVE NoLostWakeup'
  <2>1. t = p /\ p \notin waiting
    BY <1>1, <1>2, <1>9, CallsAreApart DEF ResumeSend, Sending
  <2> QED
    BY <1>4, <1>9, <2>1, OtherSideIsWoken DEF ResumeSend
<1>10. ASSUME NEW t \in Threads, ResumeReceive(t) PROVE NoLostWakeup'
  <2>1. t = c /\ c \notin waiting
    BY <1>1, <1>2, <1>10, CallsAreApart DEF ResumeReceive, Receiving
  <2> QED
    BY <1>4, <1>10, <2>1, OtherSideIsWoken DEF ResumeReceive
<1>11. ASSUME NEW t \in Threads, NotifyAfterFlush(t) PROVE NoLostWakeup'
  <2>1. t \notin waiting
    BY <1>2, <1>11, CallsAreApart DEF NotifyAfterFlush, Sending, Receiving
  <2>2. CASE t = c
    BY <1>4, <1>11, <2>1, <2>2, OtherSideIsWoken DEF NotifyAfterFlush
  <2>3. CASE t = p
    <3>1. waiting' \subseteq waiting /\ waiting \cap Sending' = {}
      BY <1>1, <1>2, <1>3, <1>11, <2>1, <2>3, NotifyWakesAtMostOne
      DEF NotifyAfterFlush, NotifyProducer
    <3>2. Receiving' = Receiving /\ q' = q
      BY <1>1, <1>2, <1>11, <2>3, CallerLeaves, CallsAreApart
      DEF NotifyAfterFlush, Receiving
    <3> QED
      BY <3>1, <3>2 DEF NoLostWakeup
  <2> QED
    BY <1>1, <2>2, <2>3
<1>12. ASSUME NEW t \in Threads, Flush(t) PROVE NoLostWakeup'
  <2>1. q' = <<>> /\ pc'[t] = "flush"
    BY <1>12 DEF Flush, QInv, TypeOK
  <2> QED
    BY <2>1 DEF NoLostWakeup
<1>13. ASSUME NEW t \in Threads,
              \/ SleepAgainForSpace(t) \/ SleepAgainForMessage(t)
              \/ TimeOut(t) \/ SpuriousWakeup(t)
       PROVE  NoLostWakeup'
  <2>1. UNCHANGED <<q, pc>>
    BY <1>13 DEF SleepAgainForSpace, SleepAgainForMessage, TimeOut, SpuriousWakeup
  <2>2. Sending' = Sending /\ Receiving' = Receiving /\ (Full' <=> Full)
    BY <2>1 DEF Sending, Receiving, Full
  <2>3. CASE SleepAgainForSpace(t)
    <3>1. waiting' = waiting \cup {t} /\ t \notin Receiving /\ Full
      BY <2>3, CallsAreApart DEF SleepAgainForSpace, Receiving
    <3> QED
      BY <2>1, <2>2, <3>1 DEF NoLostWakeup
  <2>4. CASE SleepAgainForMessage(t)
    <3>1. waiting' = waiting \cup {t} /\ t \notin Sending /\ q = <<>>
      BY <2>4, CallsAreApart DEF SleepAgainForMessage, Sending
    <3> QED
      BY <2>1, <2>2, <3>1 DEF NoLostWakeup
  <2>5. CASE TimeOut(t) \/ SpuriousWakeup(t)
    <3>1. waiting' \subseteq waiting
      BY <2>5 DEF TimeOut, SpuriousWakeup
    <3> QED
      BY <2>1, <2>2, <3>1 DEF NoLostWakeup
  <2> QED
    BY <1>13, <2>3, <2>4, <2>5
<1>14. CASE UNCHANGED queueVars
  BY <1>14 DEF queueVars, NoLostWakeup, Sending, Receiving, Full
<1> QED
  BY <1>5, <1>6, <1>7, <1>8, <1>9, <1>10, <1>11, <1>12, <1>13, <1>14 DEF Next, Resume

\* With one producer and one consumer, whatever the capacity, nobody sleeps beside
\* what it waits for, although notify_one cannot tell the two sides apart.
THEOREM NobodySleepsOn ==
  ASSUME NEW p, NEW c, Producers = {p}, Consumers = {c}
  PROVE  Spec => []NoLostWakeup
<1>1. Init => NoLostWakeup
  BY DEF Init, NoLostWakeup
<1>2. QInv /\ QInv' /\ NoLostWakeup /\ [Next]_queueVars => NoLostWakeup'
  BY StepWakeup
<1> QED
  BY <1>1, <1>2, QueueInvariant, PTL DEF Spec
===============================================================================
