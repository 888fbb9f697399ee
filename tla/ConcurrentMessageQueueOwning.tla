--------------------- MODULE ConcurrentMessageQueueOwning ---------------------
(***************************************************************************)
(* ConcurrentMessageQueueOwning: a bounded queue of messages between       *)
(* threads, with one mutex and a single condition variable that producers  *)
(* and consumers share.  The counters enq and deq say how many producers   *)
(* and consumers are inside cnd.wait; notify_one wakes any one thread that *)
(* waits on cnd, whichever side it belongs to.                             *)
(*                                                                         *)
(* A critical section is one action.  cnd.wait ends it: the thread joins   *)
(* waiting, a notification or a timeout takes it out again, and it resumes *)
(* by evaluating its condition once more.  flush notifies after it has     *)
(* released the mutex, which makes it two actions.                         *)
(***************************************************************************)
EXTENDS Naturals, Sequences, FiniteSets

CONSTANTS Producers, Consumers,   \* the threads that send, that receive
          Capacity,               \* n in the code
          Messages                \* what is sent

ASSUME CapacityAssumption == Capacity \in Nat \ {0}
ASSUME ThreadsAssumption  == /\ IsFiniteSet(Producers) /\ IsFiniteSet(Consumers)
                             /\ Producers \cap Consumers = {}

VARIABLES q,          \* the queue
          enq, deq,   \* producers and consumers inside cnd.wait
          waiting,    \* the threads asleep on cnd
          timedOut,   \* threads whose timed_wait ended by its timeout
          pc,         \* where a thread is
          outgoing    \* the message of a thread that is sending

queueVars == <<q, enq, deq, waiting, timedOut, pc, outgoing>>

Threads     == Producers \cup Consumers
SendCalls   == {"send", "timed_send"}
ReceiveCalls == {"receive", "timed_receive"}
Full        == Len(q) = Capacity

TypeOK ==
  /\ q \in Seq(Messages) /\ Len(q) <= Capacity
  /\ enq \in Nat /\ deq \in Nat
  /\ waiting \subseteq Threads /\ timedOut \subseteq Threads
  /\ pc \in [Threads -> {"outside", "flush"} \cup SendCalls \cup ReceiveCalls]
  /\ outgoing \in [Producers -> Messages]

Init ==
  /\ q = <<>>
  /\ enq = 0 /\ deq = 0
  /\ waiting = {} /\ timedOut = {}
  /\ pc = [t \in Threads |-> "outside"]
  /\ outgoing \in [Producers -> Messages]

\* cnd.notify_one(), when `counted' says that somebody may be waiting
NotifyOne(counted) ==
  IF counted /\ waiting # {}
  THEN \E t \in waiting : waiting' = waiting \ {t}
  ELSE UNCHANGED waiting

NotifyConsumer == NotifyOne(deq > 0)

NotifyProducer == NotifyOne(enq > 0)

Leave(t) == pc' = [pc EXCEPT ![t] = "outside"]

-------------------------------------------------------------------------------
(***************************************************************************)
(* send and timed_send                                                     *)
(***************************************************************************)

StartSend(t, m, call) ==
  /\ pc[t] = "outside"
  /\ outgoing' = [outgoing EXCEPT ![t] = m]
  /\ \/ /\ Full
        /\ enq' = enq + 1
        /\ waiting' = waiting \cup {t}
        /\ pc' = [pc EXCEPT ![t] = call]
        /\ UNCHANGED q
     \/ /\ ~Full
        /\ NotifyConsumer
        /\ q' = Append(q, m)
        /\ UNCHANGED <<enq, pc>>
  /\ UNCHANGED <<deq, timedOut>>

\* the queue is still full and there is time left
SleepAgainForSpace(t) ==
  /\ pc[t] \in SendCalls /\ t \notin waiting \cup timedOut
  /\ Full
  /\ waiting' = waiting \cup {t}
  /\ UNCHANGED <<q, enq, deq, timedOut, pc, outgoing>>

ResumeSend(t) ==
  /\ pc[t] \in SendCalls /\ t \notin waiting
  /\ t \in timedOut \/ ~Full
  /\ enq' = enq - 1
  /\ NotifyConsumer
  /\ q' = IF t \in timedOut THEN q ELSE Append(q, outgoing[t])
  /\ timedOut' = timedOut \ {t}
  /\ Leave(t)
  /\ UNCHANGED <<deq, outgoing>>

\* a full queue makes try_send return false
TrySend(t, m) ==
  /\ pc[t] = "outside" /\ ~Full
  /\ q' = Append(q, m)
  /\ NotifyConsumer
  /\ UNCHANGED <<enq, deq, timedOut, pc, outgoing>>

-------------------------------------------------------------------------------
(***************************************************************************)
(* receive and timed_receive; the message goes to whoever calls them       *)
(***************************************************************************)

\* Fault: the receiver that finds a message tells nobody that there is space.
StartReceiveSilently(t, call) ==
  /\ pc[t] = "outside"
  /\ \/ /\ q = <<>>
        /\ deq' = deq + 1
        /\ waiting' = waiting \cup {t}
        /\ pc' = [pc EXCEPT ![t] = call]
        /\ UNCHANGED q
     \/ /\ q # <<>>
        /\ q' = Tail(q)
        /\ UNCHANGED <<deq, pc, waiting>>
  /\ UNCHANGED <<enq, timedOut, outgoing>>

StartReceive(t, call) ==
  /\ pc[t] = "outside"
  /\ \/ /\ q = <<>>
        /\ deq' = deq + 1
        /\ waiting' = waiting \cup {t}
        /\ pc' = [pc EXCEPT ![t] = call]
        /\ UNCHANGED q
     \/ /\ q # <<>>
        /\ NotifyProducer
        /\ q' = Tail(q)
        /\ UNCHANGED <<deq, pc>>
  /\ UNCHANGED <<enq, timedOut, outgoing>>

SleepAgainForMessage(t) ==
  /\ pc[t] \in ReceiveCalls /\ t \notin waiting \cup timedOut
  /\ q = <<>>
  /\ waiting' = waiting \cup {t}
  /\ UNCHANGED <<q, enq, deq, timedOut, pc, outgoing>>

\* Fault: the counter is only decremented when a message was found.
ResumeReceiveMiscounting(t) ==
  /\ pc[t] \in ReceiveCalls /\ t \notin waiting
  /\ t \in timedOut \/ q # <<>>
  /\ deq' = IF t \in timedOut THEN deq ELSE deq - 1
  /\ NotifyProducer
  /\ q' = IF t \in timedOut THEN q ELSE Tail(q)
  /\ timedOut' = timedOut \ {t}
  /\ Leave(t)
  /\ UNCHANGED <<enq, outgoing>>

ResumeReceive(t) ==
  /\ pc[t] \in ReceiveCalls /\ t \notin waiting
  /\ t \in timedOut \/ q # <<>>
  /\ deq' = deq - 1
  /\ NotifyProducer
  /\ q' = IF t \in timedOut THEN q ELSE Tail(q)
  /\ timedOut' = timedOut \ {t}
  /\ Leave(t)
  /\ UNCHANGED <<enq, outgoing>>

TryReceive(t) ==
  /\ pc[t] = "outside" /\ q # <<>>
  /\ q' = Tail(q)
  /\ NotifyProducer
  /\ UNCHANGED <<enq, deq, timedOut, pc, outgoing>>

\* timed_wait gives up; the thread still has to get the mutex back
TimeOut(t) ==
  /\ pc[t] \in {"timed_send", "timed_receive"} /\ t \in waiting
  /\ waiting' = waiting \ {t}
  /\ timedOut' = timedOut \cup {t}
  /\ UNCHANGED <<q, enq, deq, pc, outgoing>>

SpuriousWakeup(t) ==
  /\ t \in waiting
  /\ waiting' = waiting \ {t}
  /\ UNCHANGED <<q, enq, deq, timedOut, pc, outgoing>>

-------------------------------------------------------------------------------
(***************************************************************************)
(* flush                                                                   *)
(***************************************************************************)

Flush(t) ==
  /\ pc[t] = "outside"
  /\ q' = <<>>
  /\ pc' = [pc EXCEPT ![t] = "flush"]
  /\ UNCHANGED <<enq, deq, waiting, timedOut, outgoing>>

\* the mutex is free here: enq is whatever the other threads have made of it
NotifyAfterFlush(t) ==
  /\ pc[t] = "flush"
  /\ NotifyProducer
  /\ Leave(t)
  /\ UNCHANGED <<q, enq, deq, timedOut, outgoing>>

Resume(t) ==
  \/ SleepAgainForSpace(t) \/ ResumeSend(t)
  \/ SleepAgainForMessage(t) \/ ResumeReceive(t)
  \/ NotifyAfterFlush(t)

Next ==
  \/ \E t \in Producers, m \in Messages :
       \/ \E call \in SendCalls : StartSend(t, m, call)
       \/ TrySend(t, m)
  \/ \E t \in Consumers :
       \/ \E call \in ReceiveCalls : StartReceive(t, call)
       \/ TryReceive(t)
  \/ \E t \in Threads : Resume(t) \/ TimeOut(t) \/ SpuriousWakeup(t) \/ Flush(t)

Spec == Init /\ [][Next]_queueVars

-------------------------------------------------------------------------------
Sending   == {t \in Threads : pc[t] \in SendCalls}
Receiving == {t \in Threads : pc[t] \in ReceiveCalls}

\* The counters that decide whether anybody is notified are exact: enq and
\* deq count the threads that are between their ++ and their --, also after
\* timeouts, spurious wakeups and repeated waits.
CountersExact == enq = Cardinality(Sending) /\ deq = Cardinality(Receiving)

\* With one producer and one consumer the shared condition variable loses no
\* wakeup: a consumer never sleeps in front of a message, and a producer
\* sleeps beside free space only until a flush has sent its notification.
NoLostWakeup ==
  /\ (waiting \cap Receiving # {}) => q = <<>>
  /\ (waiting \cap Sending # {}) => (Full \/ \E t \in Threads : pc[t] = "flush")

\* notifyProducer notifies "one producing thread" when some producer is
\* waiting: whoever takes a message wakes a producer if one is asleep.  The
\* condition variable is shared, so with two consumers the notification may
\* go to the other consumer, and the producer sleeps on.
WakesAProducer ==
  [][\A t \in Consumers :
       /\ \/ \E call \in ReceiveCalls : StartReceive(t, call)
          \/ ResumeReceive(t) \/ TryReceive(t)
       /\ q' # q /\ waiting \cap Sending # {}
       => (waiting \cap Sending) \ waiting' # {}]_queueVars
===============================================================================
