---------------------- MODULE AsynchronousModelGenerator ----------------------
(***************************************************************************)
(* AsynchronousModelGenerator: a thread of its own runs the wrapped model  *)
(* generator and caches at most maxModels of its models in a queue, from   *)
(* which the caller's generateNextModel takes them.  One mutex guards the  *)
(* queue and both flags, so each critical section is one action; a wait on *)
(* a condition variable ends the critical section and puts the thread to   *)
(* sleep, and a thread that wakes up evaluates its condition again.        *)
(*                                                                         *)
(* The wrapped generator is external: it returns models 1, 2, ...,         *)
(* numModels and then the null model (0).                                  *)
(***************************************************************************)
EXTENDS Naturals, Sequences

CONSTANTS MaxModels,     \* capacity of the cache, maxModels in the code
          MaxGenerated   \* bound on the models of the wrapped generator

ASSUME MaxModelsAssumption    == MaxModels \in Nat \ {0}
ASSUME MaxGeneratedAssumption == MaxGenerated \in Nat

VARIABLES numModels,            \* how many models the wrapped generator has
          generated,            \* how many it has returned
          models,               \* the queue
          eom,                  \* end of models, set by the thread
          terminationRequest,   \* set by the destructor
          producer,             \* where the thread is
          consumer,             \* where the caller is
          asleep,               \* the threads waiting on their condition
          m,                    \* result of the running generateNextModel
          received,             \* history: the models returned to the caller
          sawEnd                \* history: the null model was returned

vars == <<numModels, generated, models, eom, terminationRequest,
          producer, consumer, asleep, m, received, sawEnd>>

Null    == 0
Threads == {"producer", "consumer"}

ProducerPlaces == {"generate", "deliver", "waitSpace", "finish", "ended"}
ConsumerPlaces == {"idle", "getModel", "notifySpace",
                   "destroy", "waitEom", "join", "destroyed"}

TypeOK ==
  /\ numModels \in 0..MaxGenerated
  /\ generated \in 0..numModels
  /\ models \in Seq(1..numModels)
  /\ eom \in BOOLEAN /\ terminationRequest \in BOOLEAN
  /\ producer \in ProducerPlaces /\ consumer \in ConsumerPlaces
  /\ asleep \subseteq Threads
  /\ m \in 0..numModels
  /\ received \in Seq(1..numModels)
  /\ sawEnd \in BOOLEAN

\* the constructor starts the thread
Init ==
  /\ numModels \in 0..MaxGenerated
  /\ generated = 0
  /\ models = <<>>
  /\ eom = FALSE /\ terminationRequest = FALSE
  /\ producer = "generate" /\ consumer = "idle"
  /\ asleep = {}
  /\ m = Null
  /\ received = <<>> /\ sawEnd = FALSE

NotifyWaitForModel      == asleep' = asleep \ {"consumer"}
NotifyWaitForQueueSpace == asleep' = asleep \ {"producer"}

-------------------------------------------------------------------------------
(***************************************************************************)
(* The thread: generateModels().                                           *)
(***************************************************************************)

\* the wrapped generator runs without the lock
GenerateNext ==
  /\ producer = "generate"
  /\ IF generated < numModels
     THEN generated' = generated + 1 /\ producer' = "deliver"
     ELSE producer' = "finish" /\ UNCHANGED generated
  /\ UNCHANGED <<numModels, models, eom, terminationRequest, consumer, asleep,
                 m, received, sawEnd>>

PushOrWait ==
  IF Len(models) >= MaxModels
  THEN /\ producer' = "waitSpace"
       /\ asleep' = asleep \cup {"producer"}
       /\ UNCHANGED models
  ELSE /\ models' = Append(models, generated)
       /\ NotifyWaitForModel
       /\ producer' = "generate"

\* entry of the critical section: the only look at terminationRequest
Deliver ==
  /\ producer = "deliver"
  /\ IF terminationRequest
     THEN producer' = "finish" /\ UNCHANGED <<models, asleep>>
     ELSE PushOrWait
  /\ UNCHANGED <<numModels, generated, eom, terminationRequest, consumer, m,
                 received, sawEnd>>

\* back from the wait for queue space
RetryDeliver ==
  /\ producer = "waitSpace" /\ "producer" \notin asleep
  /\ PushOrWait
  /\ UNCHANGED <<numModels, generated, eom, terminationRequest, consumer, m,
                 received, sawEnd>>

\* Fault: the end of models is not announced.
FinishThreadSilently ==
  /\ producer = "finish"
  /\ eom' = TRUE
  /\ producer' = "ended"
  /\ UNCHANGED <<numModels, generated, models, terminationRequest, consumer, m,
                 asleep, received, sawEnd>>

FinishThread ==
  /\ producer = "finish"
  /\ eom' = TRUE
  /\ NotifyWaitForModel
  /\ producer' = "ended"
  /\ UNCHANGED <<numModels, generated, models, terminationRequest, consumer, m,
                 received, sawEnd>>

-------------------------------------------------------------------------------
(***************************************************************************)
(* The caller: generateNextModel() and the destructor.                     *)
(***************************************************************************)

CallGenerateNextModel ==
  /\ consumer = "idle"
  /\ consumer' = "getModel"
  /\ UNCHANGED <<numModels, generated, models, eom, terminationRequest,
                 producer, asleep, m, received, sawEnd>>

WaitForModel ==
  /\ consumer = "getModel" /\ "consumer" \notin asleep
  /\ ~eom /\ models = <<>>
  /\ asleep' = asleep \cup {"consumer"}
  /\ UNCHANGED <<numModels, generated, models, eom, terminationRequest,
                 producer, consumer, m, received, sawEnd>>

\* Fault: front() without pop().
TakeModelWithoutPop ==
  /\ consumer = "getModel" /\ "consumer" \notin asleep
  /\ eom \/ models # <<>>
  /\ m' = IF models = <<>> THEN Null ELSE Head(models)
  /\ consumer' = "notifySpace"
  /\ UNCHANGED <<numModels, generated, models, eom, terminationRequest,
                 producer, asleep, received, sawEnd>>

\* Fault: eom is believed although the queue still has models.
TakeModelAtEom ==
  /\ consumer = "getModel" /\ "consumer" \notin asleep
  /\ eom \/ models # <<>>
  /\ IF eom
     THEN m' = Null /\ UNCHANGED models
     ELSE m' = Head(models) /\ models' = Tail(models)
  /\ consumer' = "notifySpace"
  /\ UNCHANGED <<numModels, generated, eom, terminationRequest, producer,
                 asleep, received, sawEnd>>

TakeModel ==
  /\ consumer = "getModel" /\ "consumer" \notin asleep
  /\ eom \/ models # <<>>
  /\ IF models = <<>>
     THEN m' = Null /\ UNCHANGED models
     ELSE m' = Head(models) /\ models' = Tail(models)
  /\ consumer' = "notifySpace"
  /\ UNCHANGED <<numModels, generated, eom, terminationRequest, producer,
                 asleep, received, sawEnd>>

\* Fault: the thread is not told that there is space again.
ReturnModelSilently ==
  /\ consumer = "notifySpace"
  /\ consumer' = "idle"
  /\ m' = Null
  /\ received' = IF m = Null THEN received ELSE Append(received, m)
  /\ sawEnd' = (sawEnd \/ m = Null)
  /\ UNCHANGED <<numModels, generated, models, eom, terminationRequest,
                 producer, asleep>>

\* the notification happens after the mutex was released
ReturnModel ==
  /\ consumer = "notifySpace"
  /\ NotifyWaitForQueueSpace
  /\ consumer' = "idle"
  /\ m' = Null
  /\ received' = IF m = Null THEN received ELSE Append(received, m)
  /\ sawEnd' = (sawEnd \/ m = Null)
  /\ UNCHANGED <<numModels, generated, models, eom, terminationRequest,
                 producer>>

CallDestructor ==
  /\ consumer = "idle"
  /\ consumer' = "destroy"
  /\ UNCHANGED <<numModels, generated, models, eom, terminationRequest,
                 producer, asleep, m, received, sawEnd>>

AwaitEom ==
  IF eom
  THEN consumer' = "join" /\ UNCHANGED asleep
  ELSE consumer' = "waitEom" /\ asleep' = asleep \cup {"consumer"}

RequestTermination ==
  /\ consumer = "destroy"
  /\ terminationRequest' = TRUE
  /\ AwaitEom
  /\ UNCHANGED <<numModels, generated, models, eom, producer, m, received,
                 sawEnd>>

RetryAwaitEom ==
  /\ consumer = "waitEom" /\ "consumer" \notin asleep
  /\ AwaitEom
  /\ UNCHANGED <<numModels, generated, models, eom, terminationRequest,
                 producer, m, received, sawEnd>>

Join ==
  /\ consumer = "join" /\ producer = "ended"
  /\ consumer' = "destroyed"
  /\ UNCHANGED <<numModels, generated, models, eom, terminationRequest,
                 producer, asleep, m, received, sawEnd>>

-------------------------------------------------------------------------------
\* boost::condition may wake a waiter that nobody notified
SpuriousWakeup ==
  /\ \E t \in asleep : asleep' = asleep \ {t}
  /\ UNCHANGED <<numModels, generated, models, eom, terminationRequest,
                 producer, consumer, m, received, sawEnd>>

ProducerStep   == GenerateNext \/ Deliver \/ RetryDeliver \/ FinishThread
ConsumerStep   == \/ WaitForModel \/ TakeModel \/ ReturnModel
                  \/ RequestTermination \/ RetryAwaitEom \/ Join
CallerDecision == CallGenerateNextModel \/ CallDestructor

Next == ProducerStep \/ ConsumerStep \/ CallerDecision \/ SpuriousWakeup

SafetySpec == Init /\ [][Next]_vars

\* both threads are scheduled; nobody is obliged to call or to be woken
Spec == SafetySpec /\ WF_vars(ProducerStep) /\ WF_vars(ConsumerStep)

-------------------------------------------------------------------------------
(***************************************************************************)
(* Properties.                                                             *)
(***************************************************************************)

\* the model the caller or the thread is holding outside of the queue
InFlight == IF consumer = "notifySpace" /\ m # Null THEN <<m>> ELSE <<>>

\* what left the queue, then what is in it
Delivered == received \o InFlight \o models

(***************************************************************************)
(* The cache loses no model, repeats none and keeps their order, however   *)
(* the two threads interleave: what the caller got, followed by what is in *)
(* the queue, is 1, 2, ..., and the thread holds at most the one model     *)
(* that comes next, which only a termination request makes it drop.        *)
(* (generateModels, generateNextModel)                                     *)
(***************************************************************************)
InOrderExactlyOnce ==
  /\ \A i \in 1..Len(Delivered) : Delivered[i] = i
  /\ Len(Delivered) \in {generated, generated - 1}
  /\ producer = "generate" => Len(Delivered) = generated
  /\ producer \in {"deliver", "waitSpace"} => Len(Delivered) = generated - 1
  /\ Len(Delivered) # generated /\ producer \in {"finish", "ended"}
       => terminationRequest

(***************************************************************************)
(* The null model tells the caller that the enumeration is complete: it is *)
(* never returned while the thread or the queue still has a model, in      *)
(* particular not between the last push and eom.                           *)
(***************************************************************************)
NullMeansAllReturned ==
  sawEnd \/ (consumer = "notifySpace" /\ m = Null) => Len(received) = numModels

(***************************************************************************)
(* The cache never holds more than maxModels models although the check and *)
(* the push are separated by a wait.                                       *)
(***************************************************************************)
CacheBounded == Len(models) <= MaxModels

(***************************************************************************)
(* No wakeup is lost: the two threads never sleep together, except in the  *)
(* destructor when the queue is full.                                      *)
(***************************************************************************)
BothAsleepOnlyInDestructor ==
  asleep = Threads => consumer = "waitEom" /\ Len(models) = MaxModels

(***************************************************************************)
(* A caller of generateNextModel gets its answer.                          *)
(***************************************************************************)
CallReturns == consumer = "getModel" ~> consumer = "idle"

(***************************************************************************)
(* The wrapper is a model generator: every request is answered with a new  *)
(* model or with null, and with null for ever after the last one.          *)
(***************************************************************************)
Enumeration ==
  INSTANCE ModelEnumeration
    WITH given <- received,
         asked <- consumer \in {"getModel", "notifySpace"},
         exhausted <- sawEnd

ImplementsEnumeration == Enumeration!Spec

(***************************************************************************)
(* The destructor's comment: "terminate the model generator thread".       *)
(***************************************************************************)
DestructorTerminatesThread == consumer = "destroy" ~> consumer = "destroyed"
===============================================================================
