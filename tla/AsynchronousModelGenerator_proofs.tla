------------------ MODULE AsynchronousModelGenerator_proofs ------------------
(***************************************************************************)
(* The safety properties of AsynchronousModelGenerator for every capacity  *)
(* of the cache and every number of models.                                *)
(***************************************************************************)
EXTENDS AsynchronousModelGenerator, TLAPS

USE MaxModelsAssumption, MaxGeneratedAssumption

\* a thread sleeps where it waits, and for a reason
SleepersWait ==
  /\ "producer" \in asleep =>
       /\ producer = "waitSpace"
       /\ Len(models) = MaxModels \/ consumer = "notifySpace"
  /\ "consumer" \in asleep =>
       /\ consumer \in {"getModel", "waitEom"}
       /\ consumer = "getModel" => models = <<>>

\* how far the flags are behind what the threads did
FlagsFollow ==
  /\ eom <=> producer = "ended"
  /\ producer \in {"finish", "ended"} =>
       generated = numModels \/ terminationRequest
  /\ terminationRequest <=> consumer \in {"waitEom", "join", "destroyed"}
  /\ m # Null => consumer = "notifySpace"

InFlightCount == IF m = Null THEN 0 ELSE 1

\* Delivered = 1, 2, ..., said of its three parts
PartsInOrder ==
  /\ \A i \in 1..Len(received) : received[i] = i
  /\ m # Null => m = Len(received) + 1
  /\ \A i \in 1..Len(models) : models[i] = Len(received) + InFlightCount + i

DeliveredCount == Len(received) + InFlightCount + Len(models)

PartsCounted ==
  /\ DeliveredCount \in {generated, generated - 1}
  /\ producer = "generate" => DeliveredCount = generated
  /\ producer \in {"deliver", "waitSpace"} => DeliveredCount = generated - 1
  /\ DeliveredCount # generated /\ producer \in {"finish", "ended"}
       => terminationRequest

\* after the null model there is nothing left
EndIsEnd ==
  sawEnd \/ (consumer = "notifySpace" /\ m = Null) =>
    eom /\ models = <<>> /\ m = Null /\ Len(received) = numModels

IInv ==
  /\ TypeOK /\ CacheBounded /\ SleepersWait /\ FlagsFollow
  /\ PartsInOrder /\ PartsCounted /\ EndIsEnd

-------------------------------------------------------------------------------
(***************************************************************************)
(* The inductive invariant holds initially.                                *)
(***************************************************************************)
LEMMA Initially == Init => IInv
<1> SUFFICES ASSUME Init PROVE IInv
  OBVIOUS
<1>1. TypeOK
  <2>1. numModels \in 0..MaxGenerated /\ generated \in 0..numModels /\ m \in 0..numModels
    BY DEF Init, Null
  <2>2. models \in Seq(1..numModels) /\ received \in Seq(1..numModels)
    BY DEF Init
  <2>3. /\ producer \in ProducerPlaces /\ consumer \in ConsumerPlaces
        /\ asleep \subseteq Threads
    BY DEF Init, ProducerPlaces, ConsumerPlaces, Threads
  <2>4. eom \in BOOLEAN /\ terminationRequest \in BOOLEAN /\ sawEnd \in BOOLEAN
    BY DEF Init
  <2> QED BY <2>1, <2>2, <2>3, <2>4 DEF TypeOK
<1>2. CacheBounded /\ SleepersWait /\ FlagsFollow
  BY DEF Init, CacheBounded, SleepersWait, FlagsFollow, Null
<1>3. PartsInOrder /\ PartsCounted /\ EndIsEnd
  BY DEF Init, PartsInOrder, PartsCounted, DeliveredCount, InFlightCount,
         EndIsEnd, Null
<1> QED BY <1>1, <1>2, <1>3 DEF IInv

(***************************************************************************)
(* The critical section that both producer steps end with.                 *)
(***************************************************************************)
LEMMA PushOrWaitPreserves ==
  ASSUME IInv, producer \in {"deliver", "waitSpace"}, "producer" \notin asleep,
         PushOrWait,
         UNCHANGED <<numModels, generated, eom, terminationRequest, consumer, m,
                     received, sawEnd>>
  PROVE  IInv'
<1> USE DEF Null
<1>0. /\ numModels \in Nat /\ generated \in 1..numModels /\ MaxModels \in Nat \ {0}
      /\ models \in Seq(1..numModels) /\ received \in Seq(1..numModels)
      /\ m \in Nat /\ Len(models) \in Nat /\ Len(received) \in Nat
      /\ ~eom
  BY DEF IInv, TypeOK, FlagsFollow, PartsCounted, DeliveredCount, InFlightCount
<1>1. CASE Len(models) >= MaxModels
  <2>1. /\ producer' = "waitSpace" /\ asleep' = asleep \cup {"producer"}
        /\ models' = models
    BY <1>1 DEF PushOrWait
  <2>2. TypeOK'
    BY <2>1 DEF IInv, TypeOK, ProducerPlaces, Threads
  <2>3. CacheBounded' /\ SleepersWait' /\ FlagsFollow'
    BY <1>0, <1>1, <2>1 DEF IInv, CacheBounded, SleepersWait, FlagsFollow
  <2>4. PartsInOrder' /\ PartsCounted' /\ EndIsEnd'
    BY <1>0, <2>1 DEF IInv, PartsInOrder, PartsCounted, DeliveredCount,
                      InFlightCount, EndIsEnd
  <2> QED BY <2>2, <2>3, <2>4 DEF IInv
<1>2. CASE ~(Len(models) >= MaxModels)
  <2>1. /\ producer' = "generate" /\ asleep' = asleep \ {"consumer"}
        /\ models' = Append(models, generated)
    BY <1>2 DEF PushOrWait, NotifyWaitForModel
  <2>2. /\ models' \in Seq(1..numModels) /\ Len(models') = Len(models) + 1
        /\ \A i \in 1..Len(models) : models'[i] = models[i]
        /\ models'[Len(models) + 1] = generated
    BY <1>0, <2>1
  <2>3. TypeOK'
    BY <2>1, <2>2 DEF IInv, TypeOK, ProducerPlaces, Threads
  <2>4. CacheBounded' /\ SleepersWait' /\ FlagsFollow'
    BY <1>0, <1>2, <2>1, <2>2
       DEF IInv, CacheBounded, SleepersWait, FlagsFollow
  <2>5. /\ InFlightCount \in Nat /\ InFlightCount' = InFlightCount
        /\ generated = Len(received) + InFlightCount + Len(models) + 1
    BY <1>0 DEF IInv, PartsCounted, DeliveredCount, InFlightCount
  <2>6. PartsInOrder'
    <3>1. \A i \in 1..Len(models') : models'[i] = Len(received) + InFlightCount + i
      <4> SUFFICES ASSUME NEW i \in 1..Len(models')
                   PROVE  models'[i] = Len(received) + InFlightCount + i
        OBVIOUS
      <4>1. CASE i \in 1..Len(models)
        BY <4>1, <2>2 DEF IInv, PartsInOrder
      <4>2. CASE i = Len(models) + 1
        BY <4>2, <1>0, <2>2, <2>5
      <4> QED BY <4>1, <4>2, <1>0, <2>2
    <3> QED BY <3>1 DEF IInv, PartsInOrder, InFlightCount
  <2>7. PartsCounted'
    <3>1. DeliveredCount' = generated
      BY <1>0, <2>2, <2>5 DEF DeliveredCount
    <3> QED BY <1>0, <2>1, <3>1 DEF PartsCounted
  <2>8. EndIsEnd'
    BY <1>0 DEF IInv, EndIsEnd
  <2> QED BY <2>3, <2>4, <2>6, <2>7, <2>8 DEF IInv
<1> QED BY <1>1, <1>2

(***************************************************************************)
(* Every step preserves the inductive invariant.                           *)
(***************************************************************************)
LEMMA Preserved == IInv /\ [Next]_vars => IInv'
<1> SUFFICES ASSUME IInv, [Next]_vars PROVE IInv'
  OBVIOUS
<1> USE DEF Null
<1>0. /\ numModels \in Nat /\ generated \in 0..numModels /\ MaxModels \in Nat \ {0}
      /\ models \in Seq(1..numModels) /\ received \in Seq(1..numModels)
      /\ m \in 0..numModels /\ Len(models) \in Nat /\ Len(received) \in Nat
      /\ eom \in BOOLEAN /\ sawEnd \in BOOLEAN /\ terminationRequest \in BOOLEAN
  BY DEF IInv, TypeOK
<1>1. CASE GenerateNext
  <2>1. TypeOK'
    BY <1>1 DEF GenerateNext, IInv, TypeOK, ProducerPlaces
  <2>2. CacheBounded' /\ SleepersWait' /\ FlagsFollow'
    BY <1>1, <1>0 DEF GenerateNext, IInv, CacheBounded, SleepersWait, FlagsFollow
  <2>3. PartsInOrder' /\ EndIsEnd'
    BY <1>1, <1>0 DEF GenerateNext, IInv, PartsInOrder, InFlightCount, EndIsEnd
  <2>4. DeliveredCount' = DeliveredCount /\ DeliveredCount = generated
    BY <1>1 DEF GenerateNext, IInv, PartsCounted, DeliveredCount, InFlightCount
  <2>5. PartsCounted'
    BY <1>1, <2>4, <1>0 DEF GenerateNext, PartsCounted
  <2> QED BY <2>1, <2>2, <2>3, <2>5 DEF IInv
<1>2. CASE Deliver
  <2>1. CASE terminationRequest
    <3>1. TypeOK'
      BY <1>2, <2>1 DEF Deliver, IInv, TypeOK, ProducerPlaces
    <3>2. CacheBounded' /\ SleepersWait' /\ FlagsFollow'
      BY <1>2, <2>1, <1>0
         DEF Deliver, IInv, CacheBounded, SleepersWait, FlagsFollow
    <3>3. PartsInOrder' /\ PartsCounted' /\ EndIsEnd'
      BY <1>2, <2>1, <1>0 DEF Deliver, IInv, PartsInOrder, PartsCounted,
                  DeliveredCount, InFlightCount, EndIsEnd
    <3> QED BY <3>1, <3>2, <3>3 DEF IInv
  <2>2. CASE ~terminationRequest
    BY <1>2, <2>2, PushOrWaitPreserves DEF Deliver, IInv, SleepersWait
  <2> QED BY <2>1, <2>2
<1>3. CASE RetryDeliver
  BY <1>3, PushOrWaitPreserves DEF RetryDeliver
<1>4. CASE FinishThread
  <2>1. TypeOK'
    BY <1>4 DEF FinishThread, IInv, TypeOK, ProducerPlaces, NotifyWaitForModel
  <2>2. CacheBounded' /\ SleepersWait' /\ FlagsFollow'
    BY <1>4, <1>0 DEF FinishThread, IInv, CacheBounded, SleepersWait, FlagsFollow,
                      NotifyWaitForModel
  <2>3. PartsInOrder' /\ PartsCounted' /\ EndIsEnd'
    BY <1>4, <1>0 DEF FinishThread, IInv, PartsInOrder, PartsCounted,
                DeliveredCount, InFlightCount, EndIsEnd
  <2> QED BY <2>1, <2>2, <2>3 DEF IInv
<1>5. CASE CallGenerateNextModel \/ CallDestructor
  <2> USE <1>5 DEF CallGenerateNextModel, CallDestructor
  <2>1. TypeOK'
    BY DEF IInv, TypeOK, ConsumerPlaces
  <2>2. CacheBounded' /\ SleepersWait' /\ FlagsFollow'
    BY <1>0 DEF IInv, CacheBounded, SleepersWait, FlagsFollow
  <2>3. PartsInOrder' /\ PartsCounted'
    <3>1. /\ received' = received /\ models' = models /\ m' = m
          /\ producer' = producer /\ generated' = generated
          /\ terminationRequest' = terminationRequest
      OBVIOUS
    <3>2. PartsInOrder'
      BY <3>1 DEF IInv, PartsInOrder, InFlightCount
    <3>3. PartsCounted'
      BY <3>1 DEF IInv, PartsCounted, DeliveredCount, InFlightCount
    <3> QED BY <3>2, <3>3
  <2>4. EndIsEnd'
    BY <1>0 DEF IInv, EndIsEnd
  <2> QED BY <2>1, <2>2, <2>3, <2>4 DEF IInv
<1>6. CASE WaitForModel
  <2>1. TypeOK'
    BY <1>6 DEF WaitForModel, IInv, TypeOK, Threads
  <2>2. CacheBounded' /\ SleepersWait' /\ FlagsFollow'
    BY <1>6, <1>0 DEF WaitForModel, IInv, CacheBounded, SleepersWait, FlagsFollow
  <2>3. PartsInOrder' /\ PartsCounted' /\ EndIsEnd'
    BY <1>6, <1>0 DEF WaitForModel, IInv, PartsInOrder, PartsCounted,
                DeliveredCount, InFlightCount, EndIsEnd
  <2> QED BY <2>1, <2>2, <2>3 DEF IInv
<1>7. CASE TakeModel
  <2>0. m = Null /\ consumer = "getModel" /\ consumer' = "notifySpace"
    BY <1>7 DEF TakeModel, IInv, FlagsFollow
  <2>1. CASE models = <<>>
    <3>1. m' = m /\ models' = models /\ eom /\ ~terminationRequest
      BY <1>7, <2>0, <2>1 DEF TakeModel, IInv, FlagsFollow
    <3>2. TypeOK'
      BY <1>7, <2>0, <3>1 DEF TakeModel, IInv, TypeOK, ConsumerPlaces
    <3>3. CacheBounded' /\ SleepersWait' /\ FlagsFollow'
      BY <1>7, <2>0, <3>1, <1>0
         DEF TakeModel, IInv, CacheBounded, SleepersWait, FlagsFollow
    <3>4. PartsInOrder' /\ PartsCounted'
      BY <1>7, <3>1, <1>0 DEF TakeModel, IInv, PartsInOrder, PartsCounted,
                DeliveredCount, InFlightCount
    <3>5. generated = numModels /\ producer = "ended" /\ Len(received) = numModels
      BY <2>0, <2>1, <3>1, <1>0
         DEF IInv, PartsCounted, DeliveredCount, InFlightCount, FlagsFollow
    <3>6. EndIsEnd'
      BY <1>7, <2>0, <2>1, <3>1, <3>5 DEF TakeModel, EndIsEnd
    <3> QED BY <3>2, <3>3, <3>4, <3>6 DEF IInv
  <2>2. CASE models # <<>>
    <3>1. m' = models[1] /\ models' = Tail(models)
      BY <1>7, <2>2, <1>0 DEF TakeModel
    <3>2. /\ Len(models) >= 1 /\ models' \in Seq(1..numModels)
          /\ Len(models') = Len(models) - 1
          /\ \A i \in 1..Len(models') : models'[i] = models[i + 1]
      BY <2>2, <3>1, <1>0
    <3>3. m' = Len(received) + 1 /\ m' \in 1..numModels
      BY <2>0, <3>1, <3>2, <1>0 DEF IInv, PartsInOrder, InFlightCount
    <3>4. TypeOK'
      BY <1>7, <2>0, <3>2, <3>3, <1>0 DEF TakeModel, IInv, TypeOK, ConsumerPlaces
    <3>5. CacheBounded' /\ SleepersWait' /\ FlagsFollow'
      BY <1>7, <2>0, <3>2, <1>0
         DEF TakeModel, IInv, CacheBounded, SleepersWait, FlagsFollow
    <3>6. PartsInOrder'
      <4>1. /\ \A i \in 1..Len(received) : received[i] = i
            /\ \A i \in 1..Len(models) : models[i] = Len(received) + i
        BY <2>0, <1>0 DEF IInv, PartsInOrder, InFlightCount
      <4>2. received' = received /\ m' # Null
        BY <1>7, <3>3, <1>0 DEF TakeModel
      <4>3. \A i \in 1..Len(models') : models'[i] = Len(received') + 1 + i
        <5> SUFFICES ASSUME NEW i \in 1..Len(models')
                     PROVE  models'[i] = Len(received') + 1 + i
          OBVIOUS
        <5>1. i \in Nat /\ i + 1 \in 1..Len(models)
          BY <3>2, <1>0
        <5>2. models'[i] = Len(received) + (i + 1)
          BY <3>2, <4>1, <5>1
        <5> QED BY <4>2, <5>1, <5>2, <1>0
      <4> QED BY <3>3, <4>1, <4>2, <4>3 DEF PartsInOrder, InFlightCount
    <3>7. PartsCounted'
      <4>1. DeliveredCount' = DeliveredCount
        BY <1>7, <2>0, <3>2, <3>3, <1>0
           DEF TakeModel, DeliveredCount, InFlightCount
      <4> QED BY <1>7, <4>1 DEF TakeModel, IInv, PartsCounted
    <3>8. EndIsEnd'
      BY <1>7, <2>0, <2>2, <3>3, <1>0 DEF TakeModel, IInv, EndIsEnd
    <3> QED BY <3>4, <3>5, <3>6, <3>7, <3>8 DEF IInv
  <2> QED BY <2>1, <2>2
<1>8. CASE ReturnModel
  <2>0. consumer = "notifySpace" /\ consumer' = "idle" /\ m' = Null
    BY <1>8 DEF ReturnModel
  <2>1. CASE m = Null
    <3>1. received' = received /\ sawEnd' = TRUE
      BY <1>8, <2>1, <1>0 DEF ReturnModel
    <3>2. TypeOK'
      BY <1>8, <2>0, <3>1, <1>0
         DEF ReturnModel, NotifyWaitForQueueSpace, IInv, TypeOK, ConsumerPlaces
    <3>3. CacheBounded' /\ SleepersWait' /\ FlagsFollow'
      BY <1>8, <2>0, <2>1, <1>0 DEF ReturnModel, NotifyWaitForQueueSpace, IInv,
           CacheBounded, SleepersWait, FlagsFollow
    <3>4. PartsInOrder' /\ PartsCounted' /\ EndIsEnd'
      BY <1>8, <2>0, <2>1, <3>1, <1>0 DEF ReturnModel, IInv, PartsInOrder,
           PartsCounted, DeliveredCount, InFlightCount, EndIsEnd
    <3> QED BY <3>2, <3>3, <3>4 DEF IInv
  <2>2. CASE m # Null
    <3>1. received' = Append(received, m) /\ sawEnd' = sawEnd /\ ~sawEnd
      BY <1>8, <2>2, <1>0 DEF ReturnModel, IInv, EndIsEnd
    <3>2. /\ received' \in Seq(1..numModels) /\ Len(received') = Len(received) + 1
          /\ \A i \in 1..Len(received) : received'[i] = received[i]
          /\ received'[Len(received) + 1] = m /\ m = Len(received) + 1
      BY <2>2, <3>1, <1>0 DEF IInv, PartsInOrder
    <3>3. TypeOK'
      BY <1>8, <2>0, <3>1, <3>2, <1>0
         DEF ReturnModel, NotifyWaitForQueueSpace, IInv, TypeOK, ConsumerPlaces
    <3>4. CacheBounded' /\ SleepersWait' /\ FlagsFollow'
      BY <1>8, <2>0, <1>0 DEF ReturnModel, NotifyWaitForQueueSpace, IInv,
           CacheBounded, SleepersWait, FlagsFollow
    <3>5. PartsInOrder'
      BY <1>8, <2>0, <2>2, <3>2, <1>0
         DEF ReturnModel, IInv, PartsInOrder, InFlightCount
    <3>6. PartsCounted' /\ EndIsEnd'
      BY <1>8, <2>0, <2>2, <3>1, <3>2, <1>0
         DEF ReturnModel, IInv, PartsCounted, DeliveredCount, InFlightCount, EndIsEnd
    <3> QED BY <3>3, <3>4, <3>5, <3>6 DEF IInv
  <2> QED BY <2>1, <2>2
<1>9. CASE RequestTermination \/ RetryAwaitEom
  <2>0. /\ consumer \in {"destroy", "waitEom"} /\ "consumer" \notin asleep
        /\ consumer' \in {"join", "waitEom"} /\ terminationRequest' = TRUE
        /\ asleep' \in {asleep, asleep \cup {"consumer"}}
        /\ consumer' = "join" => asleep' = asleep
        /\ UNCHANGED <<numModels, generated, models, eom, producer, m, received,
                       sawEnd>>
    <3>1. CASE RequestTermination
      BY <3>1 DEF RequestTermination, AwaitEom, IInv, SleepersWait
    <3>2. CASE RetryAwaitEom /\ eom
      BY <3>2 DEF RetryAwaitEom, AwaitEom, IInv, FlagsFollow
    <3>3. CASE RetryAwaitEom /\ ~eom
      BY <3>3 DEF RetryAwaitEom, AwaitEom, IInv, FlagsFollow
    <3> QED BY <1>9, <3>1, <3>2, <3>3
  <2>1. TypeOK'
    BY <2>0, <1>0 DEF IInv, TypeOK, ConsumerPlaces, Threads
  <2>2. CacheBounded' /\ SleepersWait' /\ FlagsFollow'
    BY <2>0, <1>0 DEF IInv, CacheBounded, SleepersWait, FlagsFollow
  <2>3. PartsInOrder' /\ PartsCounted' /\ EndIsEnd'
    BY <2>0, <1>0 DEF IInv, PartsInOrder, PartsCounted, DeliveredCount,
                      InFlightCount, EndIsEnd
  <2> QED BY <2>1, <2>2, <2>3 DEF IInv
<1>10. CASE Join
  <2>1. TypeOK'
    BY <1>10 DEF Join, IInv, TypeOK, ConsumerPlaces
  <2>2. CacheBounded' /\ SleepersWait' /\ FlagsFollow'
    BY <1>10, <1>0 DEF Join, IInv, CacheBounded, SleepersWait, FlagsFollow
  <2>3. PartsInOrder' /\ PartsCounted' /\ EndIsEnd'
    BY <1>10, <1>0 DEF Join, IInv, PartsInOrder, PartsCounted, DeliveredCount,
                InFlightCount, EndIsEnd
  <2> QED BY <2>1, <2>2, <2>3 DEF IInv
<1>11. CASE SpuriousWakeup
  <2>1. TypeOK'
    BY <1>11 DEF SpuriousWakeup, IInv, TypeOK
  <2>2. CacheBounded' /\ SleepersWait' /\ FlagsFollow'
    BY <1>11, <1>0
       DEF SpuriousWakeup, IInv, CacheBounded, SleepersWait, FlagsFollow
  <2>3. PartsInOrder' /\ PartsCounted' /\ EndIsEnd'
    BY <1>11, <1>0 DEF SpuriousWakeup, IInv, PartsInOrder, PartsCounted,
                DeliveredCount, InFlightCount, EndIsEnd
  <2> QED BY <2>1, <2>2, <2>3 DEF IInv
<1>12. CASE UNCHANGED vars
  BY <1>12 DEF vars, IInv, TypeOK, CacheBounded, SleepersWait, FlagsFollow,
     PartsInOrder, PartsCounted, DeliveredCount, InFlightCount, EndIsEnd
<1> QED
  BY <1>1, <1>2, <1>3, <1>4, <1>5, <1>6, <1>7, <1>8, <1>9, <1>10, <1>11, <1>12
     DEF Next, ProducerStep, ConsumerStep, CallerDecision

LEMMA Invariance == SafetySpec => []IInv
BY Initially, Preserved, PTL DEF SafetySpec

-------------------------------------------------------------------------------
(***************************************************************************)
(* What follows from the invariant.                                        *)
(***************************************************************************)

(***************************************************************************)
(* The variables keep their types; in particular the thread asks the       *)
(* wrapped generator only for models that it has.                          *)
(***************************************************************************)
THEOREM TypeCorrect == SafetySpec => []TypeOK
BY Invariance, PTL DEF IInv

(***************************************************************************)
(* The cache never holds more than maxModels models.                       *)
(***************************************************************************)
THEOREM CacheIsBounded == SafetySpec => []CacheBounded
BY Invariance, PTL DEF IInv

(***************************************************************************)
(* No model is lost, repeated or overtaken by another one on its way from  *)
(* the wrapped generator to the caller.                                    *)
(***************************************************************************)
THEOREM DeliveryIsInOrderExactlyOnce == SafetySpec => []InOrderExactlyOnce
<1>1. IInv => InOrderExactlyOnce
  <2> SUFFICES ASSUME IInv PROVE InOrderExactlyOnce
    OBVIOUS
  <2> USE DEF Null
  <2>1. /\ models \in Seq(Nat) /\ received \in Seq(Nat) /\ m \in Nat
        /\ Len(models) \in Nat /\ Len(received) \in Nat
        /\ m # 0 => consumer = "notifySpace"
    BY DEF IInv, TypeOK, FlagsFollow
  <2>2. /\ InFlight \in Seq(Nat) /\ Len(InFlight) = InFlightCount
        /\ m # 0 => InFlight[1] = m
        /\ InFlightCount \in {0, 1}
        /\ InFlightCount = 1 => m # 0
    BY <2>1 DEF InFlight, InFlightCount
  <2>3. /\ Len(Delivered) = DeliveredCount
        /\ \A i \in 1..Len(received) : Delivered[i] = received[i]
        /\ InFlightCount = 1 => Delivered[Len(received) + 1] = InFlight[1]
        /\ \A i \in 1..Len(models) :
             Delivered[Len(received) + InFlightCount + i] = models[i]
    <3>1. /\ received \o InFlight \in Seq(Nat)
          /\ Len(received \o InFlight) = Len(received) + InFlightCount
          /\ \A i \in 1..Len(received) : (received \o InFlight)[i] = received[i]
          /\ InFlightCount = 1 =>
               (received \o InFlight)[Len(received) + 1] = InFlight[1]
      BY <2>1, <2>2
    <3>2. \A s, t \in Seq(Nat) :
            /\ Len(s \o t) = Len(s) + Len(t)
            /\ \A i \in 1..Len(s) : (s \o t)[i] = s[i]
            /\ \A i \in 1..Len(t) : (s \o t)[Len(s) + i] = t[i]
      OBVIOUS
    <3> DEFINE front == received \o InFlight
    <3>3. /\ Len(front \o models) = Len(front) + Len(models)
          /\ \A i \in 1..Len(front) : (front \o models)[i] = front[i]
          /\ \A i \in 1..Len(models) : (front \o models)[Len(front) + i] = models[i]
      BY <2>1, <3>1, <3>2
    <3>4. Delivered = front \o models
      BY DEF Delivered
    <3> HIDE DEF front
    <3>5. /\ Len(Delivered) = Len(front) + Len(models)
          /\ \A i \in 1..Len(front) : Delivered[i] = front[i]
          /\ \A i \in 1..Len(models) : Delivered[Len(front) + i] = models[i]
      BY <3>3, <3>4
    <3>6. /\ Len(front) = Len(received) + InFlightCount
          /\ \A i \in 1..Len(received) : front[i] = received[i]
          /\ InFlightCount = 1 => front[Len(received) + 1] = InFlight[1]
      BY <3>1 DEF front
    <3> QED BY <2>1, <2>2, <3>5, <3>6 DEF DeliveredCount
  <2>4. \A i \in 1..Len(Delivered) : Delivered[i] = i
    <3> SUFFICES ASSUME NEW i \in 1..Len(Delivered) PROVE Delivered[i] = i
      OBVIOUS
    <3>1. CASE i \in 1..Len(received)
      BY <3>1, <2>3 DEF IInv, PartsInOrder
    <3>2. CASE i = Len(received) + 1 /\ InFlightCount = 1
      BY <3>2, <2>2, <2>3 DEF IInv, PartsInOrder
    <3>3. CASE i > Len(received) + InFlightCount
      <4> DEFINE j == i - (Len(received) + InFlightCount)
      <4>1. j \in 1..Len(models) /\ i = Len(received) + InFlightCount + j
        BY <3>3, <2>1, <2>2, <2>3 DEF DeliveredCount
      <4> QED BY <4>1, <2>3 DEF IInv, PartsInOrder
    <3> QED BY <3>1, <3>2, <3>3, <2>1, <2>2
  <2> QED BY <2>3, <2>4 DEF InOrderExactlyOnce, IInv, PartsCounted
<1> QED BY <1>1, Invariance, PTL

(***************************************************************************)
(* The null model is only returned when every model was.                   *)
(***************************************************************************)
THEOREM NullIsTheEnd == SafetySpec => []NullMeansAllReturned
<1>1. IInv => NullMeansAllReturned
  BY DEF IInv, EndIsEnd, NullMeansAllReturned
<1> QED BY <1>1, Invariance, PTL

(***************************************************************************)
(* The threads sleep together only in the destructor: outside of it no     *)
(* wakeup is lost.                                                         *)
(***************************************************************************)
THEOREM NoLostWakeup == SafetySpec => []BothAsleepOnlyInDestructor
<1>1. IInv => BothAsleepOnlyInDestructor
  <2> SUFFICES ASSUME IInv, asleep = Threads
               PROVE  consumer = "waitEom" /\ Len(models) = MaxModels
    BY DEF BothAsleepOnlyInDestructor
  <2>1. /\ consumer \in {"getModel", "waitEom"}
        /\ consumer = "getModel" => models = <<>>
        /\ Len(models) = MaxModels
    BY DEF IInv, SleepersWait, Threads
  <2>2. models = <<>> => Len(models) = 0
    OBVIOUS
  <2> QED BY <2>1, <2>2
<1> QED BY <1>1, Invariance, PTL

(***************************************************************************)
(* The wrapper is a model generator: every step is a step of the abstract  *)
(* enumeration, or leaves it unchanged.                                    *)
(***************************************************************************)
THEOREM WrapperEnumerates == SafetySpec => Enumeration!Safety
<1> DEFINE Asked == consumer \in {"getModel", "notifySpace"}
<1>1. Init => Enumeration!Init
  BY DEF Init, Enumeration!Init
<1>2. IInv /\ [Next]_vars => [Enumeration!Next]_(Enumeration!enumVars)
  <2> SUFFICES ASSUME IInv, [Next]_vars
               PROVE  [Enumeration!Next]_(Enumeration!enumVars)
    OBVIOUS
  <2> USE DEF Enumeration!Next, Enumeration!enumVars
  <2>1. CASE CallGenerateNextModel
    BY <2>1 DEF CallGenerateNextModel, Enumeration!Ask
  <2>2. CASE ReturnModel /\ m = Null
    <3>1. /\ consumer = "notifySpace" /\ consumer' = "idle"
          /\ received' = received /\ sawEnd' = TRUE
      BY <2>2 DEF ReturnModel
    <3>2. Enumeration!NoMore
      BY <3>1 DEF Enumeration!NoMore
    <3> QED BY <3>2
  <2>3. CASE ReturnModel /\ m # Null
    <3>1. /\ received' = Append(received, m) /\ ~sawEnd /\ sawEnd' = sawEnd
          /\ consumer = "notifySpace" /\ consumer' = "idle"
      BY <2>3 DEF ReturnModel, IInv, TypeOK, EndIsEnd
    <3>2. received \in Seq(Nat) /\ m \in Nat /\ m = Len(received) + 1
      BY <2>3 DEF IInv, TypeOK, PartsInOrder
    <3>3. \A i \in 1..Len(received) : received[i] = i
      BY DEF IInv, PartsInOrder
    <3>4. /\ Len(received') = Len(received) + 1
          /\ \A i \in 1..Len(received) : received'[i] = received[i]
          /\ received'[Len(received')] = m
      BY <3>1, <3>2
    <3>5. SubSeq(received', 1, Len(received)) = received
      BY <3>1, <3>2
    <3>6. \A i \in 1..Len(received) : received'[i] # received'[Len(received')]
      BY <3>2, <3>3, <3>4
    <3>7. Enumeration!Answer
      BY <3>1, <3>4, <3>5, <3>6 DEF Enumeration!Answer
    <3> QED BY <3>7
  <2>4. CASE UNCHANGED <<received, Asked, sawEnd>>
    BY <2>4
  <2>5. CASE ProducerStep \/ SpuriousWakeup \/ UNCHANGED vars
    BY <2>4, <2>5 DEF ProducerStep, GenerateNext, Deliver, RetryDeliver,
       FinishThread, SpuriousWakeup, vars
  <2>6. CASE WaitForModel \/ TakeModel \/ CallDestructor \/ RequestTermination
             \/ RetryAwaitEom \/ Join
    BY <2>4, <2>6 DEF WaitForModel, TakeModel, CallDestructor,
       RequestTermination, RetryAwaitEom, AwaitEom, Join
  <2> QED BY <2>1, <2>2, <2>3, <2>5, <2>6 DEF Next, ConsumerStep, CallerDecision
<1> QED BY <1>1, <1>2, Invariance, PTL DEF SafetySpec, Enumeration!Safety
===============================================================================
