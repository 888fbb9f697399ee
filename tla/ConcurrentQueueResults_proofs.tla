-------------------- MODULE ConcurrentQueueResults_proofs --------------------
(***************************************************************************)
(* The answer sets of dlv or clingo, for outputs of every length: they are *)
(* received in order and without gaps, the null answer set means that      *)
(* nothing is missing of the output, a failure that the exit code or the   *)
(* output shows never looks like a regular end, and the results object is  *)
(* an enumeration of models.                                               *)
(***************************************************************************)
(* The process may be killed by a signal at any time.  The code takes that *)
(* for an exit with code 0, so that main may be told that a truncated      *)
(* output has come to its end; what is proved of the end says so.          *)
(*                                                                         *)
(* The invariant follows an answer set on its way: read by the thread and  *)
(* about to be sent, blocked in send, in the queue, received.              *)
(***************************************************************************)
EXTENDS LibclingoResults, TLAPS

SafetySpec == ResultsInit /\ [][ResultsNext]_resultVars

Model(n) == [kind |-> "model", line |-> n]

\* the thread sleeps in send, with the element outgoing["solver"]
Blocked == pc["solver"] = "send"

\* main is in the destructor and receives no more
Gone == main \in {"flush", "join", "close", "wait", "destroyed"}

\* answer sets may have been dropped, by a flush or since nobody wants them
Dropped == thread = "sendError" \/ q = <<Error>> \/ outcome = "error" \/ Gone

\* the thread has the answer set of the line it has read last, and enqueues it
Holding == thread \in {"printModel", "send"} \/ (thread = "test" /\ Blocked)

\* line n is an answer set that has been read and not been received
Pending(n) == q = <<Model(n)>> \/ (n = read /\ Holding)

\* a signal has killed the process, be it that of close
Dead == process # "running" /\ ~status.exited

\* the thread has read up to the end of the output or to an empty line, or all that
\* a process wrote until a signal killed it
EndOfOutput == \/ read = Len(script)
               \/ read > 0 /\ script[read] = "blank"
               \/ Dead /\ read = written

\* the thread has come to a failure in the output
ErrorRead == \E n \in 1..read : script[n] = "error"

\* the end marker is about to be sent, on its way or received
EndSent == \/ thread = "sendEnd" \/ q = <<End>>
           \/ thread = "ended" /\ Blocked
           \/ outcome = "end"

Shapes ==
  /\ Len(script) \in Nat /\ read \in Nat /\ written \in Nat
  /\ read <= written /\ written <= Len(script)
  /\ delivered \in Seq(Nat)
  /\ q = <<>> \/ q \in {<<End>>, <<Error>>} \/ \E n \in Nat : q = <<Model(n)>>
  /\ timedOut = {}
  /\ pc \in [{"solver", "main"} -> {"outside", "send", "receive", "flush"}]
  /\ outgoing \in [{"solver"} -> {Model(n) : n \in Nat} \cup {End, Error}]
  /\ process \in {"running", "ended", "reaped"}
  /\ outcome \in {"none", "end", "error"}

\* where the threads are when they are in a call of the queue, and what they send
Places ==
  /\ pc["solver"] \in {"outside", "send", "flush"}
  /\ pc["main"] \in {"outside", "receive", "flush"}
  /\ main = "receive" <=> pc["main"] = "receive"
  /\ pc["solver"] = "flush" => thread = "sendError"
  /\ Blocked => \/ thread = "test" /\ outgoing["solver"] = Model(read)
                \/ thread = "ended" /\ outgoing["solver"] = End
  /\ thread = "sendError" => q = <<>>
  /\ q \in {<<End>>, <<Error>>} => thread = "ended" /\ ~Blocked
  /\ outcome # "none" => thread = "ended" /\ ~Blocked /\ q = <<>>
  /\ outcome # "none" => main \notin {"call", "receive"}
  /\ main \in {"close", "wait", "destroyed"} => thread = "ended"
  /\ shouldTerminate => Gone

\* what is on its way follows what was received, and without Dropped nothing is lost
Order ==
  /\ InOrderWithoutGaps
  /\ \A n \in Nat : Pending(n) => n \in ModelLines /\ \A d \in Range(delivered) : d < n
  /\ q = <<Model(read)>> => ~Holding
  /\ ~Dropped => \A n \in ModelLines : n \in Range(delivered) \/ Pending(n)
  /\ outcome = "end" => ModelLines \subseteq Range(delivered)

\* what the thread knows when it sends the end marker
EndFacts ==
  /\ process # "running" /\ ~Dead => written = Len(script)
  /\ thread \in {"close", "check"} => EndOfOutput
  /\ thread = "afterLoop" /\ ~shouldTerminate => EndOfOutput
  /\ EndSent => EndOfOutput /\ process = "reaped" /\ WEXITSTATUS(status) = 0
  /\ ErrorRead => /\ thread \in {"closeOnError", "checkOnError", "flushOnError", "sendError", "ended"}
                  /\ ~EndSent

RInv == Shapes /\ Places /\ Order /\ EndFacts

\* clingo has no process that could fail
ResultsInv == /\ RInv
              /\ solver = "clingo" => process = "reaped" /\ WEXITSTATUS(status) = 0

-------------------------------------------------------------------------------
(***************************************************************************)
(* The queue of capacity one, as the two threads use it.                   *)
(***************************************************************************)

LEMMA ElementsDiffer ==
  /\ End # Error /\ <<End>> # <<Error>>
  /\ \A n \in Nat : <<Model(n)>> # <<End>> /\ <<Model(n)>> # <<Error>>
  /\ \A n, k \in Nat : <<Model(n)>> = <<Model(k)>> => n = k
<1>1. End # Error /\ \A n \in Nat : Model(n) # End /\ Model(n) # Error
  BY DEF End, Error, Model
<1>2. \A n, k \in Nat : Model(n) = Model(k) => n = k
  <2> SUFFICES ASSUME NEW n \in Nat, NEW k \in Nat, Model(n) = Model(k) PROVE n = k
    OBVIOUS
  <2>1. Model(n).line = n /\ Model(k).line = k
    BY DEF Model
  <2> QED
    BY <2>1
<1>3. \A a, b : <<a>> = <<b>> => a = b
  OBVIOUS
<1> QED
  BY <1>1, <1>2, <1>3

LEMMA QueueIsShort ==
  ASSUME Shapes
  PROVE  /\ q = <<>> <=> Len(q) # 1
         /\ q # <<>> => Head(q) \in {Model(n) : n \in Nat} \cup {End, Error} /\ q = <<Head(q)>> /\ Tail(q) = <<>>
<1>1. CASE q = <<>>
  BY <1>1
<1>2. ASSUME NEW e \in {Model(n) : n \in Nat} \cup {End, Error}, q = <<e>>
      PROVE  Len(q) = 1 /\ q # <<>> /\ Head(q) = e /\ Tail(q) = <<>>
  BY <1>2
<1> QED
  BY <1>1, <1>2 DEF Shapes

\* send stores the element, or begins to wait with it
LEMMA SendStores ==
  ASSUME Shapes, NEW e, Queue!StartSend("solver", e, "send")
  PROVE  /\ pc["solver"] = "outside" /\ timedOut' = timedOut
         /\ outgoing' = [outgoing EXCEPT !["solver"] = e]
         /\ \/ q # <<>> /\ q' = q /\ pc' = [pc EXCEPT !["solver"] = "send"]
            \/ q = <<>> /\ q' = <<e>> /\ pc' = pc
<1>1. q = <<>> => Append(q, e) = <<e>>
  OBVIOUS
<1> QED
  BY <1>1, QueueIsShort DEF Queue!StartSend, Queue!Full

\* the sender stores the element when main has made space
LEMMA ResumeSendStores ==
  ASSUME Shapes, Queue!ResumeSend("solver")
  PROVE  /\ q = <<>> /\ q' = <<outgoing["solver"]>>
         /\ pc' = [pc EXCEPT !["solver"] = "outside"]
         /\ UNCHANGED <<timedOut, outgoing>>
<1>1. \A e : Append(<<>>, e) = <<e>>
  OBVIOUS
<1>2. timedOut = {}
  BY DEF Shapes
<1> QED
  BY <1>1, <1>2, QueueIsShort DEF Queue!ResumeSend, Queue!Full, Queue!Leave

\* receive takes the element, or begins to wait for one
LEMMA ReceiveTakes ==
  ASSUME Shapes, Queue!StartReceive("main", "receive") \/ Queue!ResumeReceive("main")
  PROVE  /\ UNCHANGED <<timedOut, outgoing>>
         /\ \/ /\ Queue!StartReceive("main", "receive") /\ q = <<>> /\ q' = q
               /\ pc' = [pc EXCEPT !["main"] = "receive"]
            \/ /\ q # <<>> /\ q' = <<>>
               /\ pc' = pc \/ pc' = [pc EXCEPT !["main"] = "outside"]
<1>1. CASE Queue!StartReceive("main", "receive")
  BY <1>1, QueueIsShort DEF Queue!StartReceive
<1>2. CASE Queue!ResumeReceive("main")
  BY <1>2, QueueIsShort DEF Queue!ResumeReceive, Queue!Leave, Shapes
<1> QED
  BY <1>1, <1>2

-------------------------------------------------------------------------------
(***************************************************************************)
(* The invariant is inductive, action by action.                           *)
(***************************************************************************)

LEMMA InitResults == ResultsInit => ResultsInv
<1> SUFFICES ASSUME ResultsInit PROVE ResultsInv
  OBVIOUS
<1>1. /\ ThreadsInit /\ status = Exited(0)
      /\ solver = "clingo" => process = "reaped"
      /\ process # "running" => written = Len(script)
      /\ Len(script) \in Nat /\ written \in 0..Len(script) /\ process \in {"running", "reaped"}
  BY MaxLinesAssumption DEF ResultsInit, Init, ClingoInit, BoundedSeq
<1>2. Shapes
  BY <1>1 DEF ThreadsInit, Shapes
<1>3. Places
  BY <1>1 DEF ThreadsInit, Places, Blocked
<1>4. Order
  <2>1. Range(delivered) = {} /\ DOMAIN delivered = {} /\ ModelLines = {}
    BY <1>1 DEF ThreadsInit, Range, ModelLines
  <2>2. \A n \in Nat : ~Pending(n)
    BY <1>1 DEF ThreadsInit, Pending, Holding
  <2> QED
    BY <1>1, <2>1, <2>2 DEF Order, InOrderWithoutGaps, ThreadsInit
<1>5. EndFacts
  BY <1>1 DEF ThreadsInit, EndFacts, EndSent, Blocked, ErrorRead, Dead, Exited
<1> QED
  BY <1>1, <1>2, <1>3, <1>4, <1>5 DEF RInv, ResultsInv, Exited, WEXITSTATUS

\* What is received, what is on its way and what a flush drops decide the order.
LEMMA OrderKept ==
  ASSUME Order,
         ModelLines' = ModelLines, UNCHANGED <<delivered, outcome>>,
         \A n \in Nat : Pending(n)' => Pending(n),
         Dropped' \/ (~Dropped /\ \A n \in Nat : Pending(n) => Pending(n)'),
         ModelLines \subseteq Nat,
         (q = <<Model(read)>>)' => ~Holding'
  PROVE  Order'
<1>1. InOrderWithoutGaps'
  BY DEF Order, InOrderWithoutGaps
<1>2. (\A n \in Nat : Pending(n) => n \in ModelLines /\ \A d \in Range(delivered) : d < n)'
  BY DEF Order
<1>3. (~Dropped => \A n \in ModelLines : n \in Range(delivered) \/ Pending(n))'
  BY DEF Order
<1>4. (outcome = "end" => ModelLines \subseteq Range(delivered))'
  BY DEF Order
<1> QED
  BY <1>1, <1>2, <1>3, <1>4 DEF Order

\* The places do not matter to the order as long as the thread holds what it held.
LEMMA OrderUntouched ==
  ASSUME Order, UNCHANGED <<script, read, delivered, outcome, q>>,
         read \in Nat, Holding' <=> Holding, Dropped => Dropped'
  PROVE  Order'
<1>1. ModelLines' = ModelLines /\ ModelLines \subseteq Nat
  BY DEF ModelLines
<1>2. \A n \in Nat : Pending(n)' <=> Pending(n)
  BY DEF Pending
<1> QED
  BY <1>1, <1>2, OrderKept DEF Order

LEMMA ProcessKeeps == ASSUME RInv, ProcessStep PROVE RInv'
<1>1. /\ UNCHANGED <<queueVars, threadVars, mainVars, script, exitCode, signalled>>
      /\ process = "running" /\ process' \in {"running", "ended"}
      /\ written' = written \/ (written < Len(script) /\ written' = written + 1)
      /\ process' = "ended" => (status'.exited => written = Len(script)) /\ written' = written
  BY DEF ProcessStep, WriteLine, Exit, Die, Killed
<1>2. Shapes'
  BY <1>1 DEF RInv, Shapes, queueVars, threadVars, mainVars
<1>3. Places'
  BY <1>1 DEF RInv, Places, Gone, Blocked, queueVars, threadVars, mainVars
<1>4. Order'
  BY <1>1, OrderUntouched DEF RInv, Shapes, Holding, Blocked, Dropped, Gone, queueVars, threadVars, mainVars
<1>5. EndFacts'
  <2>1. ~EndSent /\ ~EndSent'
    BY <1>1 DEF RInv, EndFacts, Dead, EndSent, Blocked, queueVars, threadVars, mainVars
  <2>2. (EndOfOutput => EndOfOutput') /\ (ErrorRead' <=> ErrorRead)
    BY <1>1 DEF EndOfOutput, ErrorRead, Dead, threadVars
  <2>3. process' # "running" /\ ~Dead' => written' = Len(script)
    BY <1>1 DEF Dead
  <2> QED
    BY <1>1, <2>1, <2>2, <2>3 DEF RInv, EndFacts, Dead, threadVars, mainVars
<1> QED
  BY <1>2, <1>3, <1>4, <1>5 DEF RInv

\* The thread reads an answer set: it holds the last line now.
LEMMA ReadModelKeeps == ASSUME RInv, ReadModel \/ FindModel PROVE RInv'
<1>1. /\ thread = "getline" /\ thread' \in {"send", "printModel"} /\ read < written /\ read' = read + 1
      /\ script[read + 1] = "model"
      /\ UNCHANGED <<queueVars, processVars, mainVars>>
  BY DEF ReadModel, FindModel, NextLineIs, InThread
<1>2. ~Blocked /\ ~Blocked' /\ ~Holding /\ Holding'
  BY <1>1 DEF RInv, Places, Holding, Blocked, queueVars
<1>3. Shapes'
  BY <1>1 DEF RInv, Shapes, queueVars, processVars, mainVars
<1>4. Places'
  BY <1>1, <1>2 DEF RInv, Places, Gone, Blocked, queueVars, mainVars
<1>5. Order'
  <2>1. read \in Nat /\ ModelLines' = ModelLines \cup {read + 1}
    BY <1>1 DEF RInv, Shapes, ModelLines, processVars
  <2>2. \A n \in ModelLines : n \in Nat /\ n < read'
    BY <2>1, <1>1 DEF ModelLines
  <2>3. \A d \in Range(delivered) : d \in ModelLines
    BY DEF RInv, Order, InOrderWithoutGaps
  <2>4. \A n \in Nat : Pending(n) => n \in ModelLines /\ \A d \in Range(delivered) : d < n
    BY DEF RInv, Order
  <2>5. \A n \in Nat : Pending(n)' <=> Pending(n) \/ n = read'
    BY <1>1, <1>2 DEF Pending, queueVars
  <2>6. UNCHANGED <<delivered, q, outcome>> /\ (Dropped' <=> Dropped) /\ outcome # "end"
    BY <1>1 DEF RInv, Places, Dropped, Gone, queueVars, mainVars
  <2>7. InOrderWithoutGaps'
    <3>1. \A d \in Range(delivered) : {n \in ModelLines' : n < d} \subseteq {n \in ModelLines : n < d}
      BY <1>1, <2>1, <2>2, <2>3
    <3> QED
      BY <2>1, <2>6, <3>1 DEF RInv, Order, InOrderWithoutGaps
  <2>8. (\A n \in Nat : Pending(n) => n \in ModelLines /\ \A d \in Range(delivered) : d < n)'
    BY <1>1, <2>1, <2>2, <2>3, <2>4, <2>5, <2>6
  <2>9. q' # <<Model(read')>>
    BY <1>1, <2>1, <2>2, <2>4, <2>6 DEF Pending
  <2>10. (~Dropped => \A n \in ModelLines : n \in Range(delivered) \/ Pending(n))'
    BY <1>1, <2>1, <2>2, <2>5, <2>6 DEF RInv, Order
  <2> QED
    BY <2>6, <2>7, <2>8, <2>9, <2>10 DEF Order
<1>6. EndFacts'
  <2>1. ~ErrorRead'
    BY <1>1 DEF RInv, Shapes, EndFacts, Dead, ErrorRead, processVars
  <2> QED
    BY <1>1, <1>2, <2>1 DEF RInv, EndFacts, Dead, Places, EndSent, Blocked, queueVars, processVars, mainVars
<1> QED
  BY <1>3, <1>4, <1>5, <1>6 DEF RInv

\* The thread reads another line, or finds the stream at its end.
LEMMA ReadOtherKeeps ==
  ASSUME RInv,
         \/ ReadCost \/ ReadUnparsable \/ ReadNothing \/ ClaspFails
         \/ SearchEnds /\ process # "running"
  PROVE  RInv'
<1>1. /\ thread = "getline" /\ thread' \in {"test", "closeOnError", "flushOnError", "afterLoop"}
      /\ \/ read < written /\ read' = read + 1 /\ script[read + 1] # "model"
         \/ read' = read
      /\ thread' = "afterLoop" =>
           \/ read' = read + 1 /\ script[read + 1] = "blank"
           \/ read' = read /\ read = written /\ process # "running"
      /\ thread' \in {"test", "afterLoop"} => read' = read \/ script[read + 1] # "error"
      /\ UNCHANGED <<queueVars, processVars, mainVars>>
  BY DEF ReadCost, ReadUnparsable, ReadNothing, ClaspFails, SearchEnds, NextLineIs, InThread
<1>2. ~Blocked /\ ~Blocked' /\ ~Holding /\ ~Holding'
  BY <1>1 DEF RInv, Places, Holding, Blocked, queueVars
<1>3. Shapes'
  BY <1>1 DEF RInv, Shapes, queueVars, processVars, mainVars
<1>4. Places'
  BY <1>1, <1>2 DEF RInv, Places, Gone, Blocked, queueVars, mainVars
<1>5. Order'
  <2>1. ModelLines' = ModelLines /\ ModelLines \subseteq Nat
    BY <1>1 DEF RInv, Shapes, ModelLines, processVars
  <2>2. \A n \in Nat : Pending(n)' <=> Pending(n)
    BY <1>1, <1>2 DEF Pending, queueVars
  <2>3. UNCHANGED <<delivered, outcome>> /\ (Dropped' <=> Dropped)
    BY <1>1 DEF Dropped, Gone, queueVars, mainVars
  <2> QED
    BY <1>2, <2>1, <2>2, <2>3, OrderKept DEF RInv
<1>6. EndFacts'
  <2>1. ~EndSent'
    BY <1>1, <1>2 DEF RInv, Places, EndSent, Blocked, queueVars, mainVars
  <2>2. thread' = "afterLoop" => EndOfOutput'
    BY <1>1 DEF RInv, Shapes, EndFacts, Dead, EndOfOutput, processVars
  <2>3. thread' \in {"test", "afterLoop"} => ~ErrorRead'
    BY <1>1 DEF RInv, Shapes, EndFacts, Dead, ErrorRead, processVars
  <2> QED
    BY <1>1, <2>1, <2>2, <2>3 DEF RInv, EndFacts, Dead, processVars, mainVars
<1> QED
  BY <1>3, <1>4, <1>5, <1>6 DEF RInv

\* The thread enqueues the answer set it holds, or begins to wait with it.
LEMMA SendModelKeeps == ASSUME RInv, SendModel PROVE RInv'
<1>1. /\ thread = "send" /\ thread' = "test" /\ Queue!StartSend("solver", Model(read), "send")
      /\ UNCHANGED <<read, processVars, mainVars>>
  BY DEF SendModel, InThread, Model
<1>2. /\ pc["solver"] = "outside" /\ timedOut' = timedOut
      /\ outgoing' = [outgoing EXCEPT !["solver"] = Model(read)]
      /\ \/ q # <<>> /\ q' = q /\ pc' = [pc EXCEPT !["solver"] = "send"]
         \/ q = <<>> /\ q' = <<Model(read)>> /\ pc' = pc
  BY <1>1, SendStores DEF RInv
<1>3. read \in Nat /\ q \notin {<<End>>, <<Error>>} /\ q' \notin {<<End>>, <<Error>>} /\ outcome = "none"
  BY <1>1, <1>2, ElementsDiffer DEF RInv, Places, Shapes
<1>4. Shapes'
  BY <1>1, <1>2, <1>3 DEF RInv, Shapes, processVars, mainVars
<1>5. Places'
  BY <1>1, <1>2, <1>3 DEF RInv, Places, Gone, Shapes, Blocked, mainVars
<1>6. Order'
  <2>1. ModelLines' = ModelLines /\ ModelLines \subseteq Nat
    BY <1>1, <1>3 DEF ModelLines, processVars
  <2>2. Holding /\ (Holding' <=> q # <<>>)
    BY <1>1, <1>2 DEF RInv, Shapes, Holding, Blocked
  <2>3. \A n \in Nat : Pending(n)' <=> Pending(n)
    BY <1>1, <1>2, <1>3, <2>2, ElementsDiffer DEF Pending
  <2>4. UNCHANGED <<delivered, outcome>> /\ (Dropped' <=> Dropped)
    BY <1>1, <1>3 DEF Dropped, Gone, mainVars
  <2>5. (q = <<Model(read)>>)' => ~Holding'
    BY <1>1, <1>2, <2>2 DEF RInv, Order
  <2> QED
    BY <2>1, <2>3, <2>4, <2>5, OrderKept DEF RInv
<1>7. EndFacts'
  BY <1>1, <1>3 DEF RInv, EndFacts, Dead, ErrorRead, EndSent, Blocked, processVars, mainVars
<1> QED
  BY <1>4, <1>5, <1>6, <1>7 DEF RInv

\* Between two calls of the queue the thread tests the flag and closes the process.
LEMMA ThreadAloneKeeps ==
  ASSUME RInv,
         \/ TestTerminate \/ AfterLoop \/ CloseAndCheck
         \/ CheckExitStatus \/ CloseOnError \/ ReapOnError
  PROVE  RInv'
<1>1. /\ UNCHANGED <<queueVars, read, script, exitCode, written, status, mainVars>>
      /\ thread \in {"test", "afterLoop", "close", "check", "closeOnError", "checkOnError"}
      /\ thread' \in {"getline", "afterLoop", "ended", "close", "check", "sendEnd",
                      "closeOnError", "checkOnError", "flushOnError"}
      /\ process' \in {process, "reaped"} /\ (process' # process => process # "running")
      /\ thread = "test" => ~Blocked
  BY DEF TestTerminate, AfterLoop, CloseAndCheck, CheckExitStatus, CloseOnError, ReapOnError,
         InThread, Probe, Reap, processVars, Blocked
<1>2. ~Blocked /\ ~Blocked' /\ ~Holding /\ ~Holding'
  BY <1>1 DEF RInv, Places, Holding, Blocked, queueVars
<1>3. Shapes'
  BY <1>1 DEF RInv, Shapes, queueVars, mainVars
<1>4. Places'
  BY <1>1, <1>2 DEF RInv, Places, Gone, Blocked, queueVars, mainVars
<1>5. Order'
  BY <1>1, <1>2, OrderUntouched DEF RInv, Shapes, Dropped, Gone, queueVars, mainVars
<1>6. EndFacts'
  <2>1. q # <<End>> /\ q' # <<End>> /\ outcome # "end" /\ outcome' # "end"
    BY <1>1 DEF RInv, Places, queueVars, mainVars
  <2>2. EndSent' <=> thread' = "sendEnd"
    BY <1>2, <2>1 DEF EndSent
  <2>3. (EndOfOutput' <=> EndOfOutput) /\ (ErrorRead' <=> ErrorRead)
    BY <1>1 DEF EndOfOutput, Dead, ErrorRead
  <2>4. CASE TestTerminate \/ AfterLoop
    BY <1>1, <2>2, <2>3, <2>4 DEF TestTerminate, AfterLoop, RInv, EndFacts, Dead, processVars, mainVars
  <2>5. CASE CloseAndCheck
    BY <1>1, <2>2, <2>3, <2>5 DEF CloseAndCheck, Probe, RInv, EndFacts, Dead, mainVars
  <2>6. CASE CheckExitStatus
    BY <1>1, <2>2, <2>3, <2>6 DEF CheckExitStatus, Reap, RInv, EndFacts, Dead, mainVars
  <2>7. CASE CloseOnError \/ ReapOnError
    BY <1>1, <2>2, <2>3, <2>7 DEF CloseOnError, ReapOnError, Probe, Reap, RInv, EndFacts, Dead,
       processVars, mainVars
  <2> QED
    BY <2>4, <2>5, <2>6, <2>7
<1> QED
  BY <1>3, <1>4, <1>5, <1>6 DEF RInv

\* The end marker is enqueued, or the thread begins to wait with it.
LEMMA EnqueueEndKeeps == ASSUME RInv, EnqueueEnd PROVE RInv'
<1>1. /\ thread = "sendEnd" /\ thread' = "ended" /\ Queue!StartSend("solver", End, "send")
      /\ UNCHANGED <<read, processVars, mainVars>>
  BY DEF EnqueueEnd, InThread
<1>2. /\ pc["solver"] = "outside" /\ timedOut' = timedOut
      /\ outgoing' = [outgoing EXCEPT !["solver"] = End]
      /\ \/ q # <<>> /\ q' = q /\ pc' = [pc EXCEPT !["solver"] = "send"]
         \/ q = <<>> /\ q' = <<End>> /\ pc' = pc
  BY <1>1, SendStores DEF RInv
<1>3. /\ read \in Nat /\ q \notin {<<End>>, <<Error>>} /\ q' # <<Error>> /\ outcome = "none"
  BY <1>1, <1>2, ElementsDiffer DEF RInv, Places, Shapes
<1>4. Shapes'
  BY <1>1, <1>2, <1>3 DEF RInv, Shapes, processVars, mainVars
<1>5. Places'
  BY <1>1, <1>2, <1>3 DEF RInv, Places, Gone, Shapes, Blocked, mainVars
<1>6. Order'
  <2>1. ModelLines' = ModelLines /\ ModelLines \subseteq Nat
    BY <1>1, <1>3 DEF ModelLines, processVars
  <2>2. ~Holding /\ ~Holding'
    BY <1>1 DEF Holding
  <2>3. \A n \in Nat : Pending(n)' <=> Pending(n)
    BY <1>2, <2>2, ElementsDiffer DEF Pending
  <2>4. UNCHANGED <<delivered, outcome>> /\ (Dropped' <=> Dropped)
    BY <1>1, <1>3 DEF Dropped, Gone, mainVars
  <2> QED
    BY <2>1, <2>2, <2>3, <2>4, OrderKept DEF RInv
<1>7. EndFacts'
  <2>1. EndSent /\ (EndOfOutput' <=> EndOfOutput) /\ (ErrorRead' <=> ErrorRead)
    BY <1>1 DEF EndSent, EndOfOutput, Dead, ErrorRead, processVars
  <2> QED
    BY <1>1, <2>1 DEF RInv, EndFacts, Dead, processVars, mainVars
<1> QED
  BY <1>4, <1>5, <1>6, <1>7 DEF RInv

\* After an exception the queue is flushed, and only the message of the exception is sent.
LEMMA ExceptionKeeps == ASSUME RInv, FlushOnError \/ EnqueueException PROVE RInv'
<1>1. read \in Nat /\ ~Blocked /\ q \notin {<<End>>, <<Error>>} /\ outcome = "none"
  BY DEF RInv, Shapes, Places, FlushOnError, EnqueueException, Queue!Flush
<1>2. /\ UNCHANGED <<read, processVars, mainVars>> /\ timedOut' = timedOut
      /\ \/ /\ thread = "flushOnError" /\ thread' = "sendError"
            /\ q' = <<>> /\ pc["solver"] = "outside"
            /\ pc' = [pc EXCEPT !["solver"] = "flush"] /\ outgoing' = outgoing
         \/ /\ thread = "sendError" /\ thread' = "ended"
            /\ q = <<>> /\ q' = <<Error>> /\ pc["solver"] = "outside"
            /\ pc' = pc /\ outgoing' = [outgoing EXCEPT !["solver"] = Error]
  <2>1. CASE FlushOnError
    BY <2>1 DEF FlushOnError, InThread, Queue!Flush
  <2>2. CASE EnqueueException
    <3>1. q = <<>>
      BY <2>2 DEF RInv, Places, EnqueueException
    <3> QED
      BY <2>2, <3>1, SendStores DEF RInv, EnqueueException, InThread
  <2> QED
    BY <2>1, <2>2
<1>3. Shapes'
  BY <1>1, <1>2 DEF RInv, Shapes, processVars, mainVars
<1>4. ~Blocked' /\ ~Holding /\ ~Holding' /\ q' # <<End>>
  BY <1>1, <1>2, ElementsDiffer DEF RInv, Shapes, Blocked, Holding
<1>5. Places'
  BY <1>1, <1>2, <1>4 DEF RInv, Places, Gone, Shapes, Blocked, mainVars
<1>6. Order'
  <2>1. ModelLines' = ModelLines /\ ModelLines \subseteq Nat
    BY <1>1, <1>2 DEF ModelLines, processVars
  <2>2. \A n \in Nat : ~Pending(n)'
    BY <1>2, <1>4, ElementsDiffer DEF Pending
  <2>3. UNCHANGED <<delivered, outcome>> /\ Dropped'
    BY <1>2 DEF Dropped, mainVars
  <2> QED
    BY <1>4, <2>1, <2>2, <2>3, OrderKept DEF RInv
<1>7. EndFacts'
  <2>1. ~EndSent'
    BY <1>1, <1>2, <1>4 DEF EndSent, mainVars
  <2> QED
    BY <1>2, <2>1 DEF RInv, EndFacts, Dead, processVars, mainVars
<1> QED
  BY <1>3, <1>5, <1>6, <1>7 DEF RInv

\* The thread goes on in send or after its flush.
LEMMA ResumeThreadKeeps == ASSUME RInv, ResumeThread PROVE RInv'
<1>1. /\ UNCHANGED <<processVars, threadVars, mainVars>>
      /\ read \in Nat /\ ModelLines' = ModelLines /\ ModelLines \subseteq Nat
  BY DEF RInv, Shapes, ResumeThread, ModelLines, processVars, threadVars
<1>2. CASE Queue!ResumeSend("solver")
  <2>1. /\ Blocked /\ q = <<>> /\ q' = <<outgoing["solver"]>>
        /\ pc' = [pc EXCEPT !["solver"] = "outside"]
        /\ UNCHANGED <<timedOut, outgoing>>
    BY <1>2, ResumeSendStores DEF RInv, Queue!ResumeSend, Queue!SendCalls, Places, Blocked
  <2>2. /\ ~Blocked' /\ pc'["solver"] = "outside" /\ pc'["main"] = pc["main"] /\ outcome = "none"
        /\ \/ thread = "test" /\ q' = <<Model(read)>>
           \/ thread = "ended" /\ q' = <<End>>
    BY <2>1 DEF RInv, Shapes, Places, Blocked
  <2>3. Shapes'
    BY <1>1, <2>1, <2>2 DEF RInv, Shapes, processVars, threadVars, mainVars
  <2>4. Places'
    BY <1>1, <2>2, ElementsDiffer DEF RInv, Places, Gone, Blocked, threadVars, mainVars
  <2>5. Order'
    <3>1. (Holding <=> thread = "test") /\ ~Holding'
      BY <1>1, <2>1, <2>2 DEF Holding, threadVars
    <3>2. \A n \in Nat : Pending(n)' <=> Pending(n)
      BY <1>1, <2>1, <2>2, <3>1, ElementsDiffer DEF Pending, threadVars
    <3>3. UNCHANGED <<delivered, outcome>> /\ (Dropped' <=> Dropped)
      BY <1>1, <2>1, <2>2, ElementsDiffer DEF Dropped, Gone, threadVars, mainVars
    <3> QED
      BY <1>1, <3>1, <3>2, <3>3, OrderKept DEF RInv
  <2>6. EndFacts'
    <3>1. (EndSent' => EndSent) /\ (EndOfOutput' <=> EndOfOutput) /\ (ErrorRead' <=> ErrorRead)
      BY <1>1, <2>1, <2>2, ElementsDiffer DEF EndSent, EndOfOutput, Dead, ErrorRead, processVars, threadVars, mainVars
    <3> QED
      BY <1>1, <3>1 DEF RInv, EndFacts, Dead, processVars, threadVars, mainVars
  <2> QED
    BY <2>3, <2>4, <2>5, <2>6 DEF RInv
<1>3. CASE Queue!SleepAgainForSpace("solver") \/ Queue!NotifyAfterFlush("solver")
  <2>1. /\ UNCHANGED <<q, timedOut, outgoing>>
        /\ pc' = pc \/ (pc["solver"] = "flush" /\ pc' = [pc EXCEPT !["solver"] = "outside"])
    BY <1>3 DEF Queue!SleepAgainForSpace, Queue!NotifyAfterFlush, Queue!Leave
  <2>2. (Blocked' <=> Blocked) /\ (Holding' <=> Holding) /\ pc'["main"] = pc["main"]
    BY <1>1, <2>1 DEF RInv, Shapes, Blocked, Holding, threadVars
  <2>3. Shapes'
    BY <1>1, <2>1 DEF RInv, Shapes, processVars, threadVars, mainVars
  <2>4. pc'["solver"] \in {pc["solver"], "outside"}
    BY <2>1 DEF RInv, Shapes
  <2>5. Places'
    BY <1>1, <2>1, <2>2, <2>4 DEF RInv, Places, Gone, threadVars, mainVars
  <2>6. Order'
    BY <1>1, <2>1, <2>2, OrderUntouched DEF RInv, Dropped, Gone, processVars, threadVars, mainVars
  <2>7. EndFacts'
    BY <1>1, <2>1, <2>2 DEF RInv, EndFacts, Dead, ErrorRead, EndSent, EndOfOutput, processVars, threadVars, mainVars
  <2> QED
    BY <2>3, <2>5, <2>6, <2>7 DEF RInv
<1> QED
  BY <1>2, <1>3 DEF ResumeThread

\* main receives what is in the queue.
LEMMA ReturnKeeps ==
  ASSUME RInv, main \in {"call", "receive"}, q # <<>>, q' = <<>>, Return(Head(q)),
         pc' = pc \/ pc' = [pc EXCEPT !["main"] = "outside"], pc'["main"] = "outside",
         UNCHANGED <<timedOut, outgoing, processVars, threadVars>>
  PROVE  RInv'
<1>1. /\ read \in Nat /\ delivered \in Seq(Nat) /\ outcome = "none"
      /\ ModelLines' = ModelLines /\ ModelLines \subseteq Nat
      /\ main' = "use" /\ shouldTerminate' = shouldTerminate
  BY DEF RInv, Shapes, Places, ModelLines, Return, processVars, threadVars
<1>2. (Blocked' <=> Blocked) /\ (Holding' <=> Holding) /\ pc'["solver"] = pc["solver"]
  BY DEF RInv, Shapes, Blocked, Holding, threadVars
<1>3. ~Gone' /\ thread # "sendError"
  BY <1>1 DEF RInv, Places, Gone
<1>4. CASE q \in {<<End>>, <<Error>>}
  <2>1. /\ thread = "ended" /\ ~Blocked
        /\ delivered' = delivered /\ outcome' \in {"end", "error"}
        /\ outcome' = "end" => q = <<End>>
    BY <1>4, ElementsDiffer DEF RInv, Places, Return, End, Error
  <2>2. Shapes'
    BY <1>1, <2>1 DEF RInv, Shapes, processVars, threadVars
  <2>3. Places'
    BY <1>1, <1>2, <2>1 DEF RInv, Places, Gone, threadVars
  <2>4. Order'
    <3>1. \A n \in Nat : ~Pending(n) /\ ~Pending(n)'
      BY <1>4, <2>1, ElementsDiffer DEF Pending, Holding, Blocked, threadVars
    <3>2. outcome' = "end" => ModelLines \subseteq Range(delivered)
      <4>1. SUFFICES ASSUME q = <<End>> PROVE ModelLines \subseteq Range(delivered)
        BY <2>1
      <4>2. ~Gone
        BY DEF Gone
      <4> QED
        BY <1>1, <1>3, <3>1, <4>1, <4>2, ElementsDiffer DEF RInv, Order, Dropped
    <3>3. InOrderWithoutGaps'
      BY <1>1, <2>1 DEF RInv, Order, InOrderWithoutGaps
    <3>4. (~Dropped => \A n \in ModelLines : n \in Range(delivered) \/ Pending(n))'
      BY <1>1, <2>1, <3>2 DEF Dropped
    <3> QED
      BY <1>1, <2>1, <3>1, <3>2, <3>3, <3>4 DEF Order
  <2>5. EndFacts'
    <3>1. (EndSent' => EndSent) /\ (EndOfOutput' <=> EndOfOutput) /\ (ErrorRead' <=> ErrorRead)
      BY <1>2, <2>1 DEF EndSent, EndOfOutput, Dead, ErrorRead, processVars, threadVars
    <3> QED
      BY <1>1, <3>1 DEF RInv, EndFacts, Dead, processVars, threadVars
  <2> QED
    BY <2>2, <2>3, <2>4, <2>5 DEF RInv
<1>5. ASSUME NEW a \in Nat, q = <<Model(a)>>
      PROVE  RInv'
  <2>1. delivered' = Append(delivered, a) /\ outcome' = outcome
    <3>1. Head(q) = Model(a) /\ Model(a).kind = "model" /\ Model(a).line = a
      BY <1>5 DEF Model
    <3> QED
      BY <3>1 DEF Return
  <2>2. /\ DOMAIN delivered = 1..Len(delivered) /\ DOMAIN delivered' = 1..(Len(delivered) + 1)
        /\ \A i \in DOMAIN delivered : delivered'[i] = delivered[i]
        /\ delivered'[Len(delivered) + 1] = a
        /\ Len(delivered) \in Nat
        /\ delivered' \in Seq(Nat)
    BY <1>1, <2>1
  <2>3. Range(delivered') = Range(delivered) \cup {a}
    BY <2>2 DEF Range
  <2>4. /\ \A d \in Range(delivered) : d \in ModelLines /\ d < a
        /\ a \in ModelLines
    BY <1>5 DEF RInv, Order, InOrderWithoutGaps, Pending
  <2>5. ~Dropped /\ ~Dropped'
    BY <1>1, <1>3, <1>5, <2>1, ElementsDiffer DEF Dropped, Gone, threadVars
  <2>6. \A n \in Nat : Pending(n) <=> n = a \/ (n = read /\ Holding)
    BY <1>1, <1>5, ElementsDiffer DEF Pending
  <2>7. \A n \in Nat : Pending(n)' <=> n = read /\ Holding
    BY <1>2, ElementsDiffer DEF Pending, threadVars
  <2>8. Holding => read # a /\ read \in ModelLines /\ a < read
    BY <1>1, <1>5, <2>4 DEF RInv, Order, Pending, ModelLines
  <2>9. Shapes'
    BY <1>1, <2>1, <2>2 DEF RInv, Shapes, processVars, threadVars
  <2>10. Places'
    BY <1>1, <1>2, <2>1 DEF RInv, Places, Gone, threadVars
  <2>11. InOrderWithoutGaps'
    <3>1. \A n \in ModelLines : n < a => n \in Range(delivered)
      BY <1>1, <2>5, <2>6, <2>8 DEF RInv, Order
    <3>2. \A i, j \in DOMAIN delivered' : i < j => delivered'[i] < delivered'[j]
      <4> SUFFICES ASSUME NEW i \in DOMAIN delivered', NEW j \in DOMAIN delivered', i < j
                   PROVE  delivered'[i] < delivered'[j]
        OBVIOUS
      <4>1. i \in DOMAIN delivered /\ delivered'[i] = delivered[i]
        BY <2>2
      <4>2. CASE j \in DOMAIN delivered
        BY <2>2, <4>1, <4>2 DEF RInv, Order, InOrderWithoutGaps
      <4>3. CASE j = Len(delivered) + 1
        <5>1. delivered[i] \in Range(delivered)
          BY <4>1 DEF Range
        <5> QED
          BY <2>2, <2>4, <4>1, <4>3, <5>1
      <4> QED
        BY <2>2, <4>2, <4>3
    <3>3. \A d \in Range(delivered) : {n \in ModelLines : n < d} \subseteq Range(delivered)
      BY DEF RInv, Order, InOrderWithoutGaps
    <3>4. \A d \in Range(delivered') : {n \in ModelLines : n < d} \subseteq Range(delivered')
      BY <2>3, <3>1, <3>3
    <3>5. Range(delivered') \subseteq ModelLines
      BY <2>3, <2>4
    <3> QED
      BY <1>1, <3>2, <3>4, <3>5 DEF InOrderWithoutGaps
  <2>12. Order'
    <3>1. (\A n \in Nat : Pending(n) => n \in ModelLines /\ \A d \in Range(delivered) : d < n)'
      BY <1>1, <2>3, <2>4, <2>6, <2>7, <2>8 DEF RInv, Order
    <3>2. (~Dropped => \A n \in ModelLines : n \in Range(delivered) \/ Pending(n))'
      BY <1>1, <2>3, <2>5, <2>6, <2>7 DEF RInv, Order
    <3>3. (q = <<Model(read)>> => ~Holding)'
      BY <1>2, <2>7 DEF Pending, threadVars
    <3> QED
      BY <1>1, <2>1, <2>11, <3>1, <3>2, <3>3 DEF Order
  <2>13. EndFacts'
    <3>1. (EndSent' => EndSent) /\ (EndOfOutput' <=> EndOfOutput) /\ (ErrorRead' <=> ErrorRead)
      BY <1>2, <2>1 DEF EndSent, EndOfOutput, Dead, ErrorRead, processVars, threadVars
    <3> QED
      BY <1>1, <3>1 DEF RInv, EndFacts, Dead, processVars, threadVars
  <2> QED
    BY <2>9, <2>10, <2>12, <2>13 DEF RInv
<1> QED
  BY <1>4, <1>5 DEF RInv, Shapes

LEMMA ReceiveKeeps == ASSUME RInv, Receive \/ ResumeReceive PROVE RInv'
<1>1. UNCHANGED <<processVars, threadVars>> /\ main \in {"call", "receive"}
  BY DEF Receive, ResumeReceive, InMain
<1>2. /\ UNCHANGED <<timedOut, outgoing>>
      /\ \/ /\ Receive /\ q = <<>> /\ q' = q
            /\ pc' = [pc EXCEPT !["main"] = "receive"]
         \/ /\ q # <<>> /\ q' = <<>>
            /\ pc' = pc \/ pc' = [pc EXCEPT !["main"] = "outside"]
  BY ReceiveTakes DEF RInv, Shapes, Receive, ResumeReceive, Queue!ResumeReceive
<1>3. CASE q = <<>>
  <2>1. /\ main' = "receive" /\ UNCHANGED <<q, shouldTerminate, delivered, outcome>>
        /\ pc' = [pc EXCEPT !["main"] = "receive"]
    BY <1>2, <1>3 DEF Receive
  <2>2. /\ (Blocked' <=> Blocked) /\ (Holding' <=> Holding)
        /\ pc'["solver"] = pc["solver"] /\ pc'["main"] = "receive" /\ outcome = "none"
    BY <1>1, <2>1 DEF RInv, Shapes, Places, Blocked, Holding, threadVars
  <2>3. Shapes'
    BY <1>1, <1>2, <2>1 DEF RInv, Shapes, processVars, threadVars
  <2>4. Places'
    BY <1>1, <1>2, <2>1, <2>2 DEF RInv, Places, Gone, threadVars
  <2>5. Order'
    BY <1>1, <2>1, <2>2, OrderUntouched DEF RInv, Shapes, Dropped, Gone, processVars, threadVars
  <2>6. EndFacts'
    BY <1>1, <2>1, <2>2 DEF RInv, EndFacts, Dead, ErrorRead, EndSent, EndOfOutput, processVars, threadVars
  <2> QED
    BY <2>3, <2>4, <2>5, <2>6 DEF RInv
<1>4. CASE q # <<>>
  <2>1. Return(Head(q))
    BY <1>4 DEF Receive, ResumeReceive
  <2>2. pc'["main"] = "outside"
    BY <1>2, <1>4 DEF RInv, Shapes, Receive, ResumeReceive, Queue!StartReceive, Queue!ResumeReceive, Queue!Leave
  <2> QED
    BY <1>1, <1>2, <1>4, <2>1, <2>2, ReturnKeeps
<1> QED
  BY <1>3, <1>4

\* main asks, begins to destroy the results object and flushes the queue, joins the thread.
LEMMA MainAloneKeeps ==
  ASSUME RInv, GetNextAnswerSet \/ Destroy \/ FlushQueue \/ Join \/ JoinOnly \/ ResumeMain
  PROVE  RInv'
<1>1. /\ UNCHANGED <<processVars, threadVars, delivered, outcome, timedOut, outgoing>>
      /\ shouldTerminate' \in {shouldTerminate, TRUE}
  BY DEF GetNextAnswerSet, Destroy, FlushQueue, Join, JoinOnly, ResumeMain, InMain, queueVars, mainVars,
         Queue!Flush, Queue!SleepAgainForMessage, Queue!NotifyAfterFlush
<1>2. pc["main"] \in {"outside", "receive", "flush"} /\ (main = "receive" <=> pc["main"] = "receive")
  BY DEF RInv, Places
<1>3. /\ pc' \in [{"solver", "main"} -> {"outside", "send", "receive", "flush"}]
      /\ pc'["solver"] = pc["solver"] /\ pc'["main"] \in {"outside", "receive", "flush"}
      /\ main' = "receive" <=> pc'["main"] = "receive"
      /\ \/ q' = q
         \/ q' = <<>> /\ main' = "join"
  BY <1>2 DEF RInv, Shapes, GetNextAnswerSet, Destroy, FlushQueue, Join, JoinOnly, ResumeMain, queueVars, mainVars,
         Queue!Flush, Queue!SleepAgainForMessage, Queue!NotifyAfterFlush, Queue!Leave
<1>4. /\ main' \in {"close", "wait", "destroyed"} => main = main' \/ thread = "ended"
      /\ main' \in {"call", "receive"} => outcome = "none" \/ main = main'
      /\ (Gone => Gone') /\ (shouldTerminate' => shouldTerminate \/ Gone')
  BY DEF GetNextAnswerSet, Destroy, FlushQueue, Join, JoinOnly, ResumeMain, ThreadEnded, mainVars, Gone
<1>5. (Blocked' <=> Blocked) /\ (Holding' <=> Holding)
  BY <1>1, <1>3 DEF Blocked, Holding, threadVars
<1>6. Shapes'
  BY <1>1, <1>3 DEF RInv, Shapes, processVars, threadVars
<1>7. Places'
  BY <1>1, <1>3, <1>4, <1>5 DEF RInv, Places, threadVars
<1>8. Order'
  <2>1. CASE q' = q
    BY <1>1, <1>4, <1>5, <2>1, OrderUntouched DEF RInv, Shapes, Dropped, processVars, threadVars
  <2>2. CASE q' = <<>> /\ main' = "join"
    <3>1. Dropped'
      BY <2>2 DEF Dropped, Gone
    <3>2. \A n \in Nat : Pending(n)' => Pending(n)
      BY <1>1, <1>5, <2>2 DEF Pending, threadVars
    <3>3. ModelLines' = ModelLines /\ ModelLines \subseteq Nat
      BY <1>1 DEF RInv, Shapes, ModelLines, processVars, threadVars
    <3>4. q' # <<Model(read)>>'
      BY <2>2
    <3> QED
      BY <1>1, <3>1, <3>2, <3>3, <3>4, OrderKept DEF RInv
  <2> QED
    BY <1>3, <2>1, <2>2
<1>9. EndFacts'
  <2>1. (EndSent' => EndSent) /\ (EndOfOutput' <=> EndOfOutput) /\ (ErrorRead' <=> ErrorRead)
    BY <1>1, <1>3, <1>5 DEF EndSent, EndOfOutput, Dead, ErrorRead, processVars, threadVars
  <2> QED
    BY <1>1, <2>1 DEF RInv, EndFacts, Dead, processVars, threadVars
<1> QED
  BY <1>6, <1>7, <1>8, <1>9 DEF RInv

\* The destructor closes the process; the thread has ended.
LEMMA MainClosesKeeps == ASSUME RInv, CloseProcess \/ ReapProcess PROVE RInv'
<1>1. /\ UNCHANGED <<queueVars, threadVars, shouldTerminate, delivered, outcome,
                     script, exitCode, written, status>>
      /\ main \in {"close", "wait"} /\ main' \in {"wait", "destroyed"}
      /\ process' \in {process, "reaped"} /\ (process' # process => process # "running")
  BY DEF CloseProcess, ReapProcess, Probe, Reap, processVars
<1>2. thread = "ended" /\ thread' = "ended" /\ read' = read
  BY <1>1 DEF RInv, Places, threadVars
<1>3. (Blocked' <=> Blocked) /\ (Holding' <=> Holding)
  BY <1>1 DEF Blocked, Holding, queueVars, threadVars
<1>4. Shapes'
  BY <1>1, <1>2 DEF RInv, Shapes, queueVars
<1>5. Places'
  BY <1>1, <1>2, <1>3 DEF RInv, Places, Gone, queueVars
<1>6. Order'
  BY <1>1, <1>2, <1>3, OrderUntouched DEF RInv, Shapes, Dropped, Gone, queueVars
<1>7. EndFacts'
  <2>1. (EndSent' <=> EndSent) /\ (EndOfOutput' <=> EndOfOutput) /\ (ErrorRead' <=> ErrorRead)
    BY <1>1, <1>2, <1>3 DEF EndSent, EndOfOutput, Dead, ErrorRead, queueVars
  <2>2. ~signalled' /\ process' # "running" => ~signalled /\ process # "running"
    BY DEF CloseProcess, ReapProcess, Probe, Reap, processVars
  <2>3. process = "reaped" => process' = "reaped"
    BY <1>1
  <2> QED
    BY <1>1, <1>2, <2>1, <2>2, <2>3 DEF RInv, EndFacts, Dead
<1> QED
  BY <1>4, <1>5, <1>6, <1>7 DEF RInv

\* waiting is not part of the invariant.
LEMMA SleepersKeep ==
  ASSUME RInv, UNCHANGED <<q, timedOut, pc, outgoing, processVars, threadVars, mainVars>>
  PROVE  RInv'
<1>1. UNCHANGED <<Blocked, Holding, Dropped, EndSent, EndOfOutput, ErrorRead>>
  BY DEF Blocked, Holding, Dropped, Gone, EndSent, EndOfOutput, Dead, ErrorRead, processVars, threadVars, mainVars
<1>2. Shapes' /\ Places'
  BY DEF RInv, Shapes, Places, Gone, Blocked, processVars, threadVars, mainVars
<1>3. Order'
  BY <1>1, OrderUntouched DEF RInv, Shapes, processVars, threadVars, mainVars
<1>4. EndFacts'
  BY <1>1 DEF RInv, EndFacts, Dead, ErrorRead, processVars, threadVars, mainVars
<1> QED
  BY <1>2, <1>3, <1>4 DEF RInv

\* clingo's thread tests the flag before it enqueues and after clasp.solve.
LEMMA ClingoAloneKeeps ==
  ASSUME RInv, process = "reaped", WEXITSTATUS(status) = 0, TestBeforeEnqueue \/ AfterSolve
  PROVE  RInv'
<1>1. /\ UNCHANGED <<queueVars, processVars, mainVars, read>>
      /\ \/ thread = "printModel" /\ ~shouldTerminate /\ thread' = "send"
         \/ thread = "printModel" /\ shouldTerminate /\ thread' = "afterLoop"
         \/ thread = "afterLoop" /\ shouldTerminate /\ thread' = "ended"
         \/ thread = "afterLoop" /\ ~shouldTerminate /\ thread' = "sendEnd"
  BY DEF TestBeforeEnqueue, AfterSolve, InThread
<1>2. /\ ~Blocked /\ ~Blocked' /\ read \in Nat
      /\ (Holding' => Holding) /\ (Holding => Holding' \/ shouldTerminate)
  BY <1>1 DEF RInv, Shapes, Places, Blocked, Holding, queueVars
<1>3. Shapes'
  BY <1>1 DEF RInv, Shapes, queueVars, processVars, mainVars
<1>4. Places'
  BY <1>1, <1>2 DEF RInv, Places, Gone, queueVars, mainVars
<1>5. Order'
  <2>1. ModelLines' = ModelLines /\ ModelLines \subseteq Nat
    BY <1>1, <1>2 DEF ModelLines, processVars
  <2>2. \A n \in Nat : Pending(n)' => Pending(n)
    BY <1>1, <1>2 DEF Pending, queueVars
  <2>3. UNCHANGED <<delivered, outcome, q>> /\ (Dropped' <=> Dropped) /\ (shouldTerminate => Dropped)
    BY <1>1 DEF RInv, Places, Dropped, Gone, queueVars, mainVars
  <2>4. ~shouldTerminate => \A n \in Nat : Pending(n) => Pending(n)'
    BY <1>1, <1>2 DEF Pending, queueVars
  <2>5. (q = <<Model(read)>>)' => ~Holding'
    BY <1>1, <1>2, <2>3 DEF RInv, Order
  <2> QED
    BY <1>1, <2>1, <2>2, <2>3, <2>4, <2>5, OrderKept DEF RInv
<1>6. EndFacts'
  <2>1. (EndOfOutput' <=> EndOfOutput) /\ (ErrorRead' <=> ErrorRead)
    BY <1>1 DEF EndOfOutput, Dead, ErrorRead, processVars
  <2>2. ~EndSent /\ (EndSent' <=> thread' = "sendEnd")
    BY <1>1, <1>2 DEF RInv, Places, EndSent, queueVars, mainVars
  <2> QED
    BY <1>1, <2>1, <2>2 DEF RInv, EndFacts, Dead, processVars, mainVars
<1> QED
  BY <1>3, <1>4, <1>5, <1>6 DEF RInv

LEMMA DlvKeeps == ASSUME RInv, Next PROVE RInv'
<1>1. CASE ThreadStep
  BY <1>1, ReadModelKeeps, SendModelKeeps, ThreadAloneKeeps, EnqueueEndKeeps, ExceptionKeeps,
     ResumeThreadKeeps, ReadOtherKeeps DEF ThreadStep
<1>2. CASE MainStep \/ GetNextAnswerSet \/ Destroy
  BY <1>2, ReceiveKeeps, MainAloneKeeps, MainClosesKeeps DEF MainStep
<1>3. CASE SpuriousWakeup
  BY <1>3, SleepersKeep DEF SpuriousWakeup, Queue!SpuriousWakeup
<1> QED
  BY <1>1, <1>2, <1>3, ProcessKeeps DEF Next

LEMMA ClingoKeeps ==
  ASSUME RInv, process = "reaped", WEXITSTATUS(status) = 0, ClingoNext
  PROVE  RInv' /\ UNCHANGED processVars
<1>1. UNCHANGED processVars
  BY DEF ClingoNext, ClingoThreadStep, FindModel, TestBeforeEnqueue, ClaspFails, SearchEnds, SendModel,
     TestTerminate, AfterSolve, EnqueueEnd, FlushOnError, EnqueueException, ResumeThread, ClingoMainStep,
     Receive, ResumeReceive, ResumeMain, FlushQueue, JoinOnly, GetNextAnswerSet, Destroy, SpuriousWakeup,
     InMain
<1> SUFFICES RInv'
  BY <1>1
<1>2. CASE ClaspFails \/ SearchEnds
  BY <1>2, ReadOtherKeeps
<1>3. CASE SpuriousWakeup
  BY <1>3, SleepersKeep DEF SpuriousWakeup, Queue!SpuriousWakeup
<1>4. CASE ClingoThreadStep
  <2>1. CASE FindModel \/ SendModel \/ TestTerminate \/ ResumeThread
    BY <2>1, ReadModelKeeps, SendModelKeeps, ThreadAloneKeeps, ResumeThreadKeeps
  <2>2. CASE TestBeforeEnqueue \/ AfterSolve
    BY <2>2, ClingoAloneKeeps
  <2>3. CASE EnqueueEnd \/ FlushOnError \/ EnqueueException
    BY <2>3, EnqueueEndKeeps, ExceptionKeeps
  <2> QED
    BY <1>2, <1>4, <2>1, <2>2, <2>3 DEF ClingoThreadStep
<1>5. CASE ClingoMainStep \/ GetNextAnswerSet \/ Destroy
  BY <1>5, ReceiveKeeps, MainAloneKeeps DEF ClingoMainStep
<1> QED
  BY <1>3, <1>4, <1>5 DEF ClingoNext

LEMMA Invariance == SafetySpec => []ResultsInv
<1>1. ASSUME ResultsInv, [ResultsNext]_resultVars PROVE ResultsInv'
  <2>1. CASE solver = "dlv" /\ Next /\ UNCHANGED solver
    BY <1>1, <2>1, DlvKeeps DEF ResultsInv
  <2>2. CASE solver = "clingo" /\ ClingoNext /\ UNCHANGED solver
    BY <1>1, <2>2, ClingoKeeps DEF ResultsInv, processVars
  <2>3. CASE UNCHANGED resultVars
    BY <1>1, <2>3, SleepersKeep DEF ResultsInv, resultVars, vars, queueVars, processVars
  <2> QED
    BY <1>1, <2>1, <2>2, <2>3 DEF ResultsNext
<1> QED
  BY InitResults, <1>1, PTL DEF SafetySpec

-------------------------------------------------------------------------------
(***************************************************************************)
(* The answer sets are received in order, without gaps or repetitions.     *)
(***************************************************************************)
THEOREM ReceivedInOrder == SafetySpec => []InOrderWithoutGaps
<1>1. ResultsInv => InOrderWithoutGaps
  BY DEF ResultsInv, RInv, Order
<1> QED
  BY <1>1, Invariance, PTL

(***************************************************************************)
(* The null answer set means that nothing is missing of the output, or of  *)
(* what a process had written when a signal killed it.                     *)
(***************************************************************************)
THEOREM NullIsComplete == SafetySpec => []EndIsComplete
<1>1. ResultsInv => EndIsComplete
  BY DEF ResultsInv, RInv, Order, EndFacts, Dead, EndSent, EndOfOutput, EndIsComplete
<1> QED
  BY <1>1, Invariance, PTL

(***************************************************************************)
(* A process that exits with a failure, or a failure in its output, never  *)
(* looks like the end.                                                     *)
(***************************************************************************)
THEOREM FailureNeverLooksRegular == SafetySpec => []FailureIsReported
<1>1. ResultsInv => FailureIsReported
  <2> SUFFICES ASSUME RInv, WEXITSTATUS(status) # 0 \/ ErrorRead
               PROVE  outcome # "end" /\ End \notin Range(q)
    BY DEF FailureIsReported, ErrorRead, ResultsInv, WEXITSTATUS
  <2>1. outcome # "end" /\ q # <<End>>
    BY DEF RInv, EndFacts, EndSent
  <2>2. \A e : q = <<e>> => Range(q) = {e}
    BY DEF Range
  <2>3. q = <<>> => Range(q) = {}
    BY DEF Range
  <2>4. q = <<>> \/ q = <<Error>> \/ \E n \in Nat : q = <<Model(n)>>
    BY <2>1 DEF RInv, Shapes
  <2>5. End # Error /\ \A n \in Nat : End # Model(n)
    BY ElementsDiffer
  <2> QED
    BY <2>1, <2>2, <2>3, <2>4, <2>5
<1> QED
  BY <1>1, Invariance, PTL

(***************************************************************************)
(* The results object is an enumeration of models: every step is one of    *)
(* the abstract enumeration, or leaves it unchanged.                       *)
(***************************************************************************)
THEOREM ResultsEnumerate == SafetySpec => ImplementsEnumeration
<1> DEFINE Asked == main \in {"call", "receive"}
           Exhausted == outcome # "none"
<1>1. ResultsInit => Enumeration!Init
  BY DEF ResultsInit, Init, ClingoInit, ThreadsInit, Enumeration!Init
<1>2. ResultsInv /\ ResultsInv' /\ [ResultsNext]_resultVars => [Enumeration!Next]_(Enumeration!enumVars)
  <2> SUFFICES ASSUME RInv, RInv', [ResultsNext]_resultVars
               PROVE  [Enumeration!Next]_(Enumeration!enumVars)
    BY DEF ResultsInv
  <2> USE DEF Enumeration!Next, Enumeration!enumVars
  <2>1. CASE UNCHANGED <<delivered, Asked, Exhausted>>
    BY <2>1
  <2>2. CASE GetNextAnswerSet
    BY <2>2 DEF GetNextAnswerSet, Enumeration!Ask
  <2>3. ASSUME main \in {"call", "receive"}, q # <<>>, Return(Head(q))
        PROVE  Enumeration!Next
    <3>1. delivered \in Seq(Nat) /\ outcome = "none"
      BY <2>3 DEF RInv, Shapes, Places
    <3>2. CASE Head(q).kind = "model"
      <4> DEFINE a == Head(q).line
      <4>1. /\ delivered' = Append(delivered, a) /\ outcome' = outcome /\ main' = "use"
        BY <2>3, <3>2 DEF Return
      <4>2. \A i, j \in DOMAIN delivered' : i < j => delivered'[i] < delivered'[j]
        BY DEF RInv, Order, InOrderWithoutGaps
      <4>3. delivered' \in Seq(Nat)
        BY DEF RInv, Shapes
      <4> HIDE DEF a
      <4>4. /\ Len(delivered') = Len(delivered) + 1
            /\ SubSeq(delivered', 1, Len(delivered)) = delivered
        BY <3>1, <4>1, <4>3
      <4>5. \A i \in 1..Len(delivered) : delivered'[i] # delivered'[Len(delivered')]
        <5> SUFFICES ASSUME NEW i \in 1..Len(delivered)
                     PROVE  delivered'[i] # delivered'[Len(delivered')]
          OBVIOUS
        <5>1. /\ i \in DOMAIN delivered' /\ Len(delivered') \in DOMAIN delivered'
              /\ i < Len(delivered')
          BY <3>1, <4>3, <4>4
        <5>2. delivered'[i] \in Nat /\ delivered'[Len(delivered')] \in Nat
          BY <4>3, <5>1
        <5>3. delivered'[i] < delivered'[Len(delivered')]
          BY <4>2, <5>1
        <5> QED
          BY <5>2, <5>3
      <4>6. Enumeration!Answer
        BY <2>3, <3>1, <4>1, <4>4, <4>5 DEF Enumeration!Answer
      <4> QED
        BY <4>6
    <3>3. CASE Head(q).kind # "model"
      <4>1. Head(q).kind \in {"end", "error"}
        BY <2>3, <3>3, QueueIsShort DEF RInv, Model, End, Error
      <4>2. Enumeration!NoMore
        BY <2>3, <3>3, <4>1 DEF Return, Enumeration!NoMore
      <4> QED
        BY <4>2
    <3> QED
      BY <3>2, <3>3
  <2>4. CASE Receive \/ ResumeReceive
    <3>1. CASE ResumeReceive \/ q # <<>>
      <4>1. q # <<>> /\ Return(Head(q)) /\ main \in {"call", "receive"}
        BY <2>4, <3>1 DEF Receive, ResumeReceive, Queue!ResumeReceive, RInv, Shapes
      <4> QED
        BY <2>3, <4>1
    <3>2. CASE Receive /\ q = <<>>
      BY <2>1, <3>2 DEF Receive
    <3> QED
      BY <2>4, <3>1, <3>2
  <2>5. CASE ProcessStep \/ ThreadStep \/ ClingoThreadStep \/ SpuriousWakeup \/ UNCHANGED resultVars
    <3>1. UNCHANGED mainVars
      BY <2>5 DEF ProcessStep, WriteLine, Exit, Die, ThreadStep, ReadModel, ReadCost, ReadUnparsable,
         ReadNothing, SendModel, TestTerminate, AfterLoop, CloseAndCheck, CheckExitStatus, EnqueueEnd,
         CloseOnError, ReapOnError, FlushOnError, EnqueueException, ResumeThread, InThread,
         ClingoThreadStep, FindModel, TestBeforeEnqueue, ClaspFails, SearchEnds, AfterSolve,
         SpuriousWakeup, resultVars, vars
    <3> QED
      BY <2>1, <3>1 DEF mainVars
  <2>6. CASE Destroy \/ FlushQueue \/ Join \/ JoinOnly \/ CloseProcess \/ ReapProcess \/ ResumeMain
    BY <2>1, <2>6 DEF Destroy, FlushQueue, Join, JoinOnly, CloseProcess, ReapProcess, ResumeMain, mainVars
  <2> QED
    BY <2>2, <2>4, <2>5, <2>6 DEF ResultsNext, Next, MainStep, ClingoNext, ClingoMainStep
<1> QED
  BY <1>1, <1>2, Invariance, PTL DEF SafetySpec, ImplementsEnumeration, Enumeration!Safety
===============================================================================
