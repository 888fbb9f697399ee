--------------------------- MODULE LibclingoResults ---------------------------
(***************************************************************************)
(* The same results object with clingo as a library in place of the dlv    *)
(* process.  The thread runs clasp.solve, which calls back with each model *)
(* and is stopped by an exception; there is no process to close.           *)
(*                                                                         *)
(* Which of the two solvers is used is chosen once.  With clingo the       *)
(* script is what clasp finds: models and perhaps a failure, after which   *)
(* it finds nothing any more.                                              *)
(***************************************************************************)
EXTENDS ConcurrentQueueResults

VARIABLE solver

resultVars == <<vars, solver>>

ClingoInit ==
  /\ ThreadsInit
  /\ script \in BoundedSeq({"model", "error"}, MaxLines) /\ exitCode = 0
  /\ written = Len(script) /\ process = "reaped" /\ signalled = FALSE
  /\ status = Exited(0)

ResultsInit == \/ solver = "dlv" /\ Init
               \/ solver = "clingo" /\ ClingoInit

\* clasp calls printModel
FindModel ==
  /\ NextLineIs("model")
  /\ read' = read + 1 /\ thread' = "printModel"
  /\ UNCHANGED <<queueVars, processVars>> /\ InThread

\* "terminating (1)": ClaspTermination ends clasp.solve and is caught
TestBeforeEnqueue ==
  /\ thread = "printModel"
  /\ thread' = IF shouldTerminate THEN "afterLoop" ELSE "send"
  /\ UNCHANGED <<queueVars, processVars, read>> /\ InThread

\* any other exception goes to enqueueException
ClaspFails ==
  /\ NextLineIs("error")
  /\ read' = read + 1 /\ thread' = "flushOnError"
  /\ UNCHANGED <<queueVars, processVars>> /\ InThread

SearchEnds ==
  /\ thread = "getline" /\ read = written
  /\ thread' = "afterLoop"
  /\ UNCHANGED <<queueVars, processVars, read>> /\ InThread

AfterSolve ==
  /\ thread = "afterLoop"
  /\ thread' = IF shouldTerminate THEN "ended" ELSE "sendEnd"
  /\ UNCHANGED <<queueVars, processVars, read>> /\ InThread

\* the destructor is done when it has joined the thread
JoinOnly ==
  /\ main = "join" /\ pc["main"] = "outside" /\ ThreadEnded
  /\ main' = "destroyed"
  /\ UNCHANGED <<queueVars, shouldTerminate, delivered, outcome>> /\ InMain

\* TestTerminate is "terminating (2)" here
ClingoThreadStep ==
  \/ FindModel \/ TestBeforeEnqueue \/ ClaspFails \/ SearchEnds
  \/ SendModel \/ TestTerminate \/ AfterSolve \/ EnqueueEnd
  \/ FlushOnError \/ EnqueueException
  \/ ResumeThread

ClingoMainStep == Receive \/ ResumeReceive \/ ResumeMain \/ FlushQueue \/ JoinOnly

ClingoNext == \/ ClingoThreadStep \/ ClingoMainStep
              \/ GetNextAnswerSet \/ Destroy \/ SpuriousWakeup

ResultsNext ==
  /\ \/ solver = "dlv" /\ Next
     \/ solver = "clingo" /\ ClingoNext
  /\ UNCHANGED solver

\* A runnable thread is scheduled eventually, and the solver goes on computing.
ResultsFairness ==
  /\ WF_resultVars(solver = "dlv" /\ ProcessStep /\ UNCHANGED solver)
  /\ WF_resultVars(/\ \/ solver = "dlv" /\ ThreadStep
                      \/ solver = "clingo" /\ ClingoThreadStep
                   /\ UNCHANGED solver)
  /\ WF_resultVars(/\ \/ solver = "dlv" /\ MainStep
                      \/ solver = "clingo" /\ ClingoMainStep
                   /\ UNCHANGED solver)

ResultsSpec == ResultsInit /\ [][ResultsNext]_resultVars /\ ResultsFairness
===============================================================================
