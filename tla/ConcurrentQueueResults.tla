------------------------ MODULE ConcurrentQueueResults ------------------------
(***************************************************************************)
(* The answer sets of an external solver, as the model generators see      *)
(* them: dlv runs as a child process and prints one answer set per line; a *)
(* thread ("solver") parses the lines and sends the answer sets through a  *)
(* ConcurrentMessageQueueOwning of capacity one; the evaluation ("main")   *)
(* calls getNextAnswerSet until it returns null or throws, and destroys    *)
(* the results object at any time between two calls.                       *)
(*                                                                         *)
(* shouldTerminate is a plain bool that both threads access.  Its writer   *)
(* locks the queue's mutex right after the write and its reader calls      *)
(* library code between any two reads, so every read yields a value the    *)
(* flag has at that moment, and one step per access loses nothing.         *)
(*                                                                         *)
(* The dlv process is external: it writes the lines of a script and exits  *)
(* with a code, or dies from a signal at any time: the SIGTERM of close,   *)
(* or one that has nothing to do with its parent (a segmentation fault,    *)
(* the kernel out of memory).                                              *)
(***************************************************************************)
EXTENDS Naturals, Sequences, SequencesExt

CONSTANT MaxLines      \* bound on the lines that the process prints

ASSUME MaxLinesAssumption == MaxLines \in Nat

VARIABLES q, enq, deq, waiting, timedOut, pc, outgoing,   \* the queue
          script, exitCode,       \* what the process is going to do
          written,                \* how many lines it has written
          process,                \* running, ended, reaped by waitpid
          signalled,              \* close has sent SIGTERM
          status,                 \* its wait status as waitpid reports it
          read,                   \* lines that the thread has read
          thread, main,           \* where the two threads are
          shouldTerminate,
          delivered,              \* history: answer sets given to main
          outcome                 \* history: null ("end") or exception ("error")

queueVars   == <<q, enq, deq, waiting, timedOut, pc, outgoing>>
processVars == <<script, exitCode, written, process, signalled, status>>
threadVars  == <<read, thread>>
mainVars    == <<main, shouldTerminate, delivered, outcome>>
vars == <<queueVars, processVars, threadVars, mainVars>>

LineKinds == {"model",    \* an answer set
              "cost",     \* the cost line of a weak answer set
              "blank",    \* an empty line
              "error"}    \* a line that the parser does not understand
ExitCodes == {0, 1}

\* the two kinds of wait status; WEXITSTATUS reads its bits in either of them
Exited(code) == [exited |-> TRUE, code |-> code]
Killed == [exited |-> FALSE, code |-> 0]
WEXITSTATUS(s) == s.code

\* an element of the queue: an answer set (its line), or a marker
AnswerSetElements == [kind : {"model"}, line : 1..MaxLines]
End   == [kind |-> "end"]
Error == [kind |-> "error"]

Queue == INSTANCE ConcurrentMessageQueueOwning
           WITH Producers <- {"solver"}, Consumers <- {"main"}, Capacity <- 1,
                Messages <- AnswerSetElements \cup {End, Error}

ThreadPlaces == {"getline", "printModel", "send", "test", "afterLoop", "close", "check",
                 "sendEnd", "closeOnError", "checkOnError", "flushOnError",
                 "sendError", "ended"}
MainPlaces   == {"use", "call", "receive", "flush", "join", "close", "wait",
                 "destroyed"}

TypeOK ==
  /\ Queue!TypeOK
  /\ script \in BoundedSeq(LineKinds, MaxLines) /\ exitCode \in ExitCodes
  /\ written \in 0..Len(script) /\ read \in 0..written
  /\ process \in {"running", "ended", "reaped"} /\ signalled \in BOOLEAN
  /\ status \in {Exited(code) : code \in ExitCodes} \cup {Killed}
  /\ thread \in ThreadPlaces /\ main \in MainPlaces
  /\ shouldTerminate \in BOOLEAN
  /\ delivered \in Seq(1..MaxLines) /\ outcome \in {"none", "end", "error"}

\* the queue is empty, and neither thread has begun
ThreadsInit ==
  /\ q = <<>> /\ enq = 0 /\ deq = 0 /\ waiting = {} /\ timedOut = {}
  /\ pc = [t \in {"solver", "main"} |-> "outside"]
  /\ outgoing = [t \in {"solver"} |-> End]
  /\ read = 0 /\ thread = "getline"
  /\ main = "use" /\ shouldTerminate = FALSE
  /\ delivered = <<>> /\ outcome = "none"

\* useASTInput has started the process, sent the program and started the thread
Init ==
  /\ ThreadsInit
  /\ script \in BoundedSeq(LineKinds, MaxLines) /\ exitCode \in ExitCodes
  /\ written = 0 /\ process = "running" /\ signalled = FALSE /\ status = Exited(0)

-------------------------------------------------------------------------------
(***************************************************************************)
(* The process                                                             *)
(***************************************************************************)
WriteLine ==
  /\ process = "running" /\ written < Len(script)
  /\ written' = written + 1
  /\ UNCHANGED <<queueVars, script, exitCode, process, signalled, status,
                 threadVars, mainVars>>

Exit ==
  /\ process = "running" /\ written = Len(script)
  /\ process' = "ended" /\ status' = Exited(exitCode)
  /\ UNCHANGED <<queueVars, script, exitCode, written, signalled,
                 threadVars, mainVars>>

\* A line that death cuts off cannot be parsed: it is an "error" line of the script.
Die ==
  /\ process = "running"
  /\ process' = "ended" /\ status' = Killed
  /\ UNCHANGED <<queueVars, script, exitCode, written, signalled,
                 threadVars, mainVars>>

(***************************************************************************)
(* ProcessBuf::close: waitpid(WNOHANG), SIGTERM if the process still runs, *)
(* then waitpid.  It returns at once when the process was closed before.   *)
(***************************************************************************)
AlreadyClosed == process = "reaped"

Probe == /\ ~AlreadyClosed
         /\ signalled' = (signalled \/ process = "running")
         /\ UNCHANGED <<script, exitCode, written, process, status>>

Reap == /\ process = "ended"
        /\ process' = "reaped"
        /\ UNCHANGED <<script, exitCode, written, signalled, status>>

-------------------------------------------------------------------------------
(***************************************************************************)
(* The thread: answerSetProcessingThreadFunc                               *)
(***************************************************************************)
InThread == UNCHANGED mainVars

NextLineIs(kind) ==
  /\ thread = "getline"
  /\ read < written /\ script[read + 1] = kind

ReadModel ==
  /\ NextLineIs("model")
  /\ read' = read + 1 /\ thread' = "send"
  /\ UNCHANGED <<queueVars, processVars>> /\ InThread

\* Fault: a cost line is taken for an answer set.
ReadCostAsModel ==
  /\ NextLineIs("cost")
  /\ read' = read + 1 /\ thread' = "send"
  /\ UNCHANGED <<queueVars, processVars>> /\ InThread

ReadCost ==
  /\ NextLineIs("cost")
  /\ read' = read + 1 /\ thread' = "test"
  /\ UNCHANGED <<queueVars, processVars>> /\ InThread

ReadUnparsable ==
  /\ NextLineIs("error")
  /\ read' = read + 1 /\ thread' = "closeOnError"
  /\ UNCHANGED <<queueVars, processVars>> /\ InThread

\* an empty line and the end of the stream look the same
ReadNothing ==
  /\ \/ NextLineIs("blank") /\ read' = read + 1
     \/ /\ thread = "getline" /\ read = written /\ process # "running"
        /\ UNCHANGED read
  /\ thread' = "afterLoop"
  /\ UNCHANGED <<queueVars, processVars>> /\ InThread

\* enqueueAnswerset; the call has returned when the thread is outside again
SendModel ==
  /\ thread = "send"
  /\ Queue!StartSend("solver", [kind |-> "model", line |-> read], "send")
  /\ thread' = "test"
  /\ UNCHANGED <<read, processVars>> /\ InThread

TestTerminate ==
  /\ thread = "test" /\ pc["solver"] = "outside"
  /\ thread' = IF shouldTerminate THEN "afterLoop" ELSE "getline"
  /\ UNCHANGED <<queueVars, processVars, read>> /\ InThread

AfterLoop ==
  /\ thread = "afterLoop"
  /\ thread' = IF shouldTerminate THEN "ended" ELSE "close"
  /\ UNCHANGED <<queueVars, processVars, read>> /\ InThread

CloseAndCheck ==
  /\ thread = "close"
  /\ Probe
  /\ thread' = "check"
  /\ UNCHANGED <<queueVars, read>> /\ InThread

\* Fault: the exit status is not looked at.
CheckNothing ==
  /\ thread = "check"
  /\ Reap
  /\ thread' = "sendEnd"
  /\ UNCHANGED <<queueVars, read>> /\ InThread

\* closeAndCheck throws when close returns an exit code other than 0; close does
\* not ask (WIFEXITED) whether the process has exited
CheckExitStatus ==
  /\ thread = "check"
  /\ Reap
  /\ thread' = IF WEXITSTATUS(status) = 0 THEN "sendEnd" ELSE "closeOnError"
  /\ UNCHANGED <<queueVars, read>> /\ InThread

\* Fault: the end marker is sent the way an exception is, after a flush.
EnqueueEndAfterFlush ==
  /\ thread = "sendEnd"
  /\ q' = <<End>>
  /\ Queue!NotifyConsumer
  /\ thread' = "ended"
  /\ UNCHANGED <<enq, deq, timedOut, pc, outgoing, read, processVars>> /\ InThread

EnqueueEnd ==
  /\ thread = "sendEnd"
  /\ Queue!StartSend("solver", End, "send")
  /\ thread' = "ended"
  /\ UNCHANGED <<read, processVars>> /\ InThread

\* the exception handler closes the process, for the exit code in its message
CloseOnError ==
  /\ thread = "closeOnError"
  /\ \/ /\ AlreadyClosed
        /\ thread' = "flushOnError" /\ UNCHANGED processVars
     \/ Probe /\ thread' = "checkOnError"
  /\ UNCHANGED <<queueVars, read>> /\ InThread

ReapOnError ==
  /\ thread = "checkOnError"
  /\ Reap
  /\ thread' = "flushOnError"
  /\ UNCHANGED <<queueVars, read>> /\ InThread

\* enqueueException drops what main has not received yet ...
FlushOnError ==
  /\ thread = "flushOnError"
  /\ Queue!Flush("solver")
  /\ thread' = "sendError"
  /\ UNCHANGED <<read, processVars>> /\ InThread

\* ... and sends the message
EnqueueException ==
  /\ thread = "sendError"
  /\ Queue!StartSend("solver", Error, "send")
  /\ thread' = "ended"
  /\ UNCHANGED <<read, processVars>> /\ InThread

ThreadEnded == thread = "ended" /\ pc["solver"] = "outside"

ResumeThread ==
  /\ \/ Queue!SleepAgainForSpace("solver")
     \/ Queue!ResumeSend("solver")
     \/ Queue!NotifyAfterFlush("solver")
  /\ UNCHANGED <<processVars, threadVars, mainVars>>

-------------------------------------------------------------------------------
(***************************************************************************)
(* The evaluation: getNextAnswerSet and the destructor                     *)
(***************************************************************************)
InMain == UNCHANGED <<processVars, threadVars>>

\* Fault: main asks again after the null answer set.
GetNextAnswerSetAgain ==
  /\ main = "use" /\ outcome # "error"
  /\ main' = "call"
  /\ UNCHANGED <<queueVars, shouldTerminate, delivered, outcome>> /\ InMain

\* the generators drop the results object once it has returned null
GetNextAnswerSet ==
  /\ main = "use" /\ outcome = "none"
  /\ main' = "call"
  /\ UNCHANGED <<queueVars, shouldTerminate, delivered, outcome>> /\ InMain

\* Fault: an exception is swallowed and main goes on.
ReturnSwallowing(element) ==
  /\ main' = "use"
  /\ delivered' = IF element.kind = "model" THEN Append(delivered, element.line)
                                             ELSE delivered
  /\ outcome' = IF element.kind = "end" THEN "end" ELSE outcome
  /\ UNCHANGED shouldTerminate

\* getNextAnswerSet returns an answer set or null, or throws
Return(element) ==
  /\ main' = "use"
  /\ IF element.kind = "model"
     THEN delivered' = Append(delivered, element.line) /\ UNCHANGED outcome
     ELSE outcome' = element.kind /\ UNCHANGED delivered
  /\ UNCHANGED shouldTerminate

Receive ==
  /\ main = "call"
  /\ Queue!StartReceive("main", "receive")
  /\ IF q = <<>>
     THEN main' = "receive" /\ UNCHANGED <<shouldTerminate, delivered, outcome>>
     ELSE Return(Head(q))
  /\ InMain

ResumeReceive ==
  /\ main = "receive"
  /\ Queue!ResumeReceive("main")
  /\ Return(Head(q))
  /\ InMain

ResumeMain ==
  /\ Queue!SleepAgainForMessage("main") \/ Queue!NotifyAfterFlush("main")
  /\ UNCHANGED <<processVars, threadVars, mainVars>>

Destroy ==
  /\ main = "use"
  /\ shouldTerminate' = TRUE
  /\ main' = "flush"
  /\ UNCHANGED <<queueVars, delivered, outcome>> /\ InMain

\* Fault: the destructor joins without making space in the queue.
JoinWithoutFlush ==
  /\ main = "flush"
  /\ main' = "join"
  /\ UNCHANGED <<queueVars, shouldTerminate, delivered, outcome>> /\ InMain

FlushQueue ==
  /\ main = "flush"
  /\ Queue!Flush("main")
  /\ main' = "join"
  /\ UNCHANGED <<shouldTerminate, delivered, outcome>> /\ InMain

Join ==
  /\ main = "join" /\ pc["main"] = "outside" /\ ThreadEnded
  /\ main' = "close"
  /\ UNCHANGED <<queueVars, shouldTerminate, delivered, outcome>> /\ InMain

\* proc.close(true)
CloseProcess ==
  /\ main = "close"
  /\ \/ /\ AlreadyClosed
        /\ main' = "destroyed" /\ UNCHANGED processVars
     \/ Probe /\ main' = "wait"
  /\ UNCHANGED <<queueVars, threadVars, shouldTerminate, delivered, outcome>>

ReapProcess ==
  /\ main = "wait"
  /\ Reap
  /\ main' = "destroyed"
  /\ UNCHANGED <<queueVars, threadVars, shouldTerminate, delivered, outcome>>

SpuriousWakeup ==
  /\ \E t \in {"solver", "main"} : Queue!SpuriousWakeup(t)
  /\ UNCHANGED <<processVars, threadVars, mainVars>>

ProcessStep == WriteLine \/ Exit \/ Die
ThreadStep ==
  \/ ReadModel \/ ReadCost \/ ReadUnparsable \/ ReadNothing
  \/ SendModel \/ TestTerminate \/ AfterLoop
  \/ CloseAndCheck \/ CheckExitStatus \/ EnqueueEnd
  \/ CloseOnError \/ ReapOnError \/ FlushOnError \/ EnqueueException
  \/ ResumeThread
MainStep ==
  \/ Receive \/ ResumeReceive \/ ResumeMain
  \/ FlushQueue \/ Join \/ CloseProcess \/ ReapProcess

Next ==
  \/ ProcessStep \/ ThreadStep \/ MainStep
  \/ GetNextAnswerSet \/ Destroy \/ SpuriousWakeup

\* A runnable thread is scheduled eventually, and dlv goes on computing.
\* Nothing obliges main to ask or to destroy.
Fairness == WF_vars(ProcessStep) /\ WF_vars(ThreadStep) /\ WF_vars(MainStep)

Spec == Init /\ [][Next]_vars /\ Fairness

-------------------------------------------------------------------------------
\* the lines with an answer set, of those that the thread has read
ModelLines == {n \in 1..read : script[n] = "model"}

\* main receives the answer sets in the order of the process's output, without
\* gaps or repetitions, however the queue, exceptions and wakeups interleave;
\* cost lines never show up as answer sets.
InOrderWithoutGaps ==
  /\ Range(delivered) \subseteq ModelLines
  /\ \A i, j \in DOMAIN delivered : i < j => delivered[i] < delivered[j]
  /\ \A d \in Range(delivered) : {n \in ModelLines : n < d} \subseteq Range(delivered)

\* A null answer set means that main has every answer set in front of the end
\* of the output, or of the empty line that ended the reading.  Of a process that
\* a signal killed it means no more than that main has all that it had written.
EndIsComplete ==
  outcome = "end" =>
    /\ ModelLines \subseteq Range(delivered)
    /\ \/ read = Len(script)
       \/ read > 0 /\ script[read] = "blank"
       \/ ~status.exited /\ read = written

\* A failure that the exit code or the output shows is never reported as a regular
\* end: neither that of a process that exited with a code other than 0, whether the
\* thread saw it before or after the last line, nor that of a line that was not
\* understood.  A process that a signal killed has no exit code: see DeathIsReported.
FailureIsReported ==
  \/ process # "running" /\ status.exited /\ status.code # 0
  \/ \E n \in 1..read : script[n] = "error"
  => outcome # "end" /\ End \notin Range(q)

\* "closes process and throws on errors": the end of a process that died in the
\* middle of its output, from a signal that close did not send, is not reported as a
\* regular end.
DeathIsReported ==
  ~status.exited /\ ~signalled /\ written < Len(script) => outcome # "end"

\* Every getNextAnswerSet returns or throws.
RequestAnswered == main \in {"call", "receive"} ~> main = "use"

\* The destructor returns, wherever the thread is when it begins: blocked in
\* send, waiting for a line, between the test of shouldTerminate and the end
\* marker, or in an exception handler.
DestructorReturns == shouldTerminate ~> main = "destroyed"

\* The results object implements the abstract enumeration; an exception ends
\* it like the null answer set does.
Enumeration == INSTANCE ModelEnumeration
                 WITH given <- delivered,
                      asked <- main \in {"call", "receive"},
                      exhausted <- outcome # "none"
ImplementsEnumeration == Enumeration!Safety

\* "if kill is true, kill if not already ended": the thread calls close
\* without kill, which must not send a signal.
KillsOnlyIfAsked == [][thread = "close" => signalled' = signalled]_vars
===============================================================================
