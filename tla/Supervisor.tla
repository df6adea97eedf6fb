----------------------------- MODULE Supervisor -----------------------------
(***************************************************************************)
(* The console suites: a supervisor follows a gqrl console in a sidecar.   *)
(* One goroutine copies its output and looks for the first result marker,  *)
(* one waits for the container, and in interactive mode a third sends      *)
(* "exit" on stdin; they report through one buffered channel.  Anything    *)
(* can be late: the output after the container, the container after the    *)
(* output, the exit request after both, the deadlines before any of them.  *)
(***************************************************************************)
EXTENDS Naturals, Sequences, FiniteSets

CONSTANTS
  Capacity,      \* of the channel of events
  MaxLines,      \* bound: markers a console prints
  Faults         \* "read", "docker", "write": calls that fail by themselves

ASSUME SupervisorAssumption ==
  /\ Capacity \in Nat /\ MaxLines \in Nat
  /\ Faults \subseteq {"read", "docker", "write"}

VARIABLES
  interactive, \* the console reads stdin after its script and must be told to exit
  console,    \* the container: running, or its exit code
  printed,    \* the markers the console printed; other lines leave no trace
  ctx,        \* the context of the scenario has ended
  cause,      \* why the context of the process ended, "none" while it lives
  attached,   \* the streams of the process are open
  shutdown,   \* the shutdown deadline, or why its context ended
  queue,      \* the channel of events
  reader, seen, partial, watching, readErr,   \* the output goroutine and its recorder
  waiter, waitErr,                            \* the wait goroutine
  input, requestErr,                          \* the goroutine of the exit request
  sup,        \* the step of the supervisor
  recorded,   \* the results it has recorded
  asked,      \* exitRequested
  forced,     \* forcedClose
  supErr,     \* the error it aborts or finishes with
  result      \* the errors run and Close return

environment == <<interactive, console, printed, ctx>>
contexts == <<cause, attached, shutdown>>
readerVars == <<reader, seen, partial, watching, readErr>>
waiterVars == <<waiter, waitErr>>
inputVars == <<input, requestErr>>
supVars == <<sup, recorded, asked, forced, supErr, result>>
vars == <<environment, contexts, queue, readerVars, waiterVars, inputVars, supVars>>

Markers == {"pass", "fail"}
Events == {"signal", "output", "wait", "requestFailed"}

Init ==
  /\ interactive \in BOOLEAN
  /\ console = "running" /\ printed = <<>> /\ ctx = FALSE
  /\ cause = "none" /\ attached = TRUE /\ shutdown = "none"
  /\ queue = <<>>
  /\ reader = "read" /\ seen = 0 /\ partial = FALSE /\ watching = interactive /\ readErr = FALSE
  /\ waiter = "wait" /\ waitErr = "none"
  /\ input = "none" /\ requestErr = "none"
  /\ sup = "select" /\ recorded = {} /\ asked = FALSE /\ forced = FALSE
  /\ supErr = "none" /\ result = {}

-----------------------------------------------------------------------------
(***************************************************************************)
(* The console and the contexts.                                           *)
(***************************************************************************)
PrintMarker ==
  /\ console = "running" /\ Len(printed) < MaxLines
  /\ \E m \in Markers : printed' = Append(printed, m)
  /\ UNCHANGED <<interactive, console, ctx, contexts, queue, readerVars, waiterVars, inputVars, supVars>>

Exit ==
  /\ console = "running"
  /\ console' \in {"zero", "nonzero"}
  /\ UNCHANGED <<interactive, printed, ctx, contexts, queue, readerVars, waiterVars, inputVars, supVars>>

EndContext ==
  /\ ~ctx
  /\ ctx' = TRUE
  /\ cause' = IF cause = "none" THEN "ctx" ELSE cause
  /\ shutdown' = IF shutdown = "armed" THEN "ctx" ELSE shutdown
  /\ UNCHANGED <<interactive, console, printed, attached, queue, readerVars, waiterVars, inputVars, supVars>>

ExpireShutdown ==
  /\ shutdown = "armed"
  /\ shutdown' = "shutdown"
  /\ UNCHANGED <<environment, cause, attached, queue, readerVars, waiterVars, inputVars, supVars>>

ShutdownEnded == shutdown \in {"ctx", "shutdown", "canceled"}

\* Faulty: the exit waiter is not released.
CloseStreams == UNCHANGED cause /\ attached' = FALSE

\* Process.Detach: the context of the process is canceled, the streams closed.
DetachProcess ==
  /\ cause' = IF cause = "none" THEN "detached" ELSE cause
  /\ attached' = FALSE

-----------------------------------------------------------------------------
(***************************************************************************)
(* The output goroutine: Process.Output into the recorder.                 *)
(***************************************************************************)
\* The first marker ends the watch, before its event is sent.
StopWatching == watching' = FALSE

\* A line of output; the last one may lack its newline and is then looked at
\* when the output completes.
Deliver ==
  /\ reader = "read" /\ seen < Len(printed)
  /\ seen' = seen + 1
  /\ \/ /\ watching /\ StopWatching /\ reader' = "signal" /\ UNCHANGED partial
     \/ /\ ~watching /\ UNCHANGED <<watching, reader, partial>>
     \/ /\ watching /\ console # "running" /\ seen + 1 = Len(printed)
        /\ partial' = TRUE /\ UNCHANGED <<watching, reader>>
  /\ UNCHANGED <<environment, contexts, queue, readErr, waiterVars, inputVars, supVars>>

\* recorder.complete
CompleteOutput(err) ==
  /\ reader = "read"
  /\ readErr' = err
  /\ IF watching /\ partial THEN StopWatching /\ reader' = "lastSignal"
     ELSE UNCHANGED watching /\ reader' = "output"
  /\ UNCHANGED <<environment, contexts, queue, seen, partial, waiterVars, inputVars, supVars>>

EndOfOutput == console # "running" /\ seen = Len(printed) /\ CompleteOutput(FALSE)
ReadFault == "read" \in Faults /\ CompleteOutput(TRUE)
ReadDetached == ~attached /\ CompleteOutput(TRUE)

\* A send blocks while the channel is full.
Send(event) == Len(queue) < Capacity /\ queue' = Append(queue, event)

ReaderSends ==
  /\ \/ reader = "signal" /\ Send("signal") /\ reader' = "read"
     \/ reader = "lastSignal" /\ Send("signal") /\ reader' = "output"
     \/ reader = "output" /\ Send("output") /\ reader' = "done"
  /\ UNCHANGED <<environment, contexts, seen, partial, watching, readErr, waiterVars, inputVars, supVars>>

(***************************************************************************)
(* The wait goroutine: Process.Wait, whose select takes what is there.     *)
(***************************************************************************)
WaitReturns(err) ==
  /\ waiter = "wait"
  /\ waitErr' = err /\ waiter' = "send"
  /\ UNCHANGED <<environment, contexts, queue, readerVars, inputVars, supVars>>

WaitExit == console # "running" /\ WaitReturns(IF console = "zero" THEN "none" ELSE "exit")
WaitFault == "docker" \in Faults /\ cause = "none" /\ WaitReturns("docker")
WaitDetached == cause # "none" /\ WaitReturns(cause)

WaiterSends ==
  /\ waiter = "send" /\ Send("wait") /\ waiter' = "done"
  /\ UNCHANGED <<environment, contexts, readerVars, waitErr, inputVars, supVars>>

(***************************************************************************)
(* The exit request: Process.CloseInput under the shutdown deadline.       *)
(***************************************************************************)
InputWritten ==
  /\ input = "write" /\ attached
  /\ input' = "done"
  /\ UNCHANGED <<environment, contexts, queue, readerVars, waiterVars, requestErr, supVars>>

InputFails ==
  /\ input = "write" /\ (~attached \/ console # "running" \/ "write" \in Faults)
  /\ input' = "send" /\ requestErr' = "write"
  /\ UNCHANGED <<environment, contexts, queue, readerVars, waiterVars, supVars>>

InputReleased ==
  /\ input = "write" /\ ShutdownEnded
  /\ DetachProcess
  /\ input' = "send" /\ requestErr' = shutdown
  /\ UNCHANGED <<environment, shutdown, queue, readerVars, waiterVars, supVars>>

InputSends ==
  /\ input = "send" /\ Send("requestFailed") /\ input' = "done"
  /\ UNCHANGED <<environment, contexts, readerVars, waiterVars, requestErr, supVars>>

-----------------------------------------------------------------------------
(***************************************************************************)
(* The supervisor.                                                         *)
(***************************************************************************)
Complete(results) == {"output", "wait"} \subseteq results
Batch == {queue[i] : i \in DOMAIN queue}

\* recordEventBatch: what is recorded once the queue is drained.
Drained == recorded \cup (Batch \ {"signal"})

\* Faulty: the wait for the second result has no bound of its own.
NoDeadline == UNCHANGED shutdown

\* startShutdownDeadline: once, as a child of the scenario's context.
StartDeadline ==
  shutdown' = IF shutdown # "none" THEN shutdown ELSE IF ctx THEN "ctx" ELSE "armed"

ForceClose == forced' = TRUE /\ DetachProcess /\ UNCHANGED <<asked, inputVars>>

RequestFailedTooEarly(results) ==
  "requestFailed" \in results /\ ~("wait" \in results /\ waitErr = "none")

\* requestExit is a no-op on a console that exited, was asked or was detached.
RequestExit(results) ==
  /\ IF "wait" \in results \/ asked \/ forced THEN UNCHANGED <<asked, inputVars>>
     ELSE asked' = TRUE /\ input' = "write" /\ UNCHANGED requestErr
  /\ UNCHANGED <<forced, cause, attached>>

\* Faulty: an output that ended is final, whatever marker came with it.
MustCloseDespiteMarker(results, signal) ==
  \/ "output" \in results /\ readErr
  \/ RequestFailedTooEarly(results)
  \/ interactive /\ "output" \in results /\ "wait" \notin results /\ ~asked

\* The output is lost, the exit request is, or there will be no marker.
MustClose(results, signal) ==
  \/ "output" \in results /\ readErr
  \/ RequestFailedTooEarly(results)
  \/ interactive /\ ~signal /\ "output" \in results /\ "wait" \notin results /\ ~asked

\* respondToEvents
Respond(results, signal) ==
  /\ IF MustClose(results, signal) THEN ForceClose
     ELSE IF interactive /\ signal THEN RequestExit(results)
     ELSE UNCHANGED <<asked, inputVars, forced, cause, attached>>
  /\ IF asked' # asked \/ {"output", "wait"} \cap results # {}
     THEN StartDeadline ELSE UNCHANGED shutdown

\* run: an event, then everything else that is queued.
HandleEvents ==
  /\ sup = "select" /\ ~Complete(recorded) /\ queue # <<>>
  /\ queue' = <<>>
  /\ LET results == Drained IN
     /\ recorded' = results
     /\ IF Complete(results) THEN UNCHANGED <<asked, inputVars, forced, contexts>>
        ELSE Respond(results, "signal" \in Batch)
  /\ UNCHANGED <<environment, readerVars, waiterVars, sup, supErr, result>>

Finishing ==
  /\ sup = "select" /\ Complete(recorded)
  /\ sup' = "finish"
  /\ UNCHANGED <<environment, contexts, queue, readerVars, waiterVars, inputVars, recorded, asked,
                 forced, supErr, result>>

\* abort on the end of either context; select may prefer it to an event.
AbortWith ==
  /\ sup = "select" /\ ~Complete(recorded)
  /\ \/ ctx /\ supErr' = "ctx"
     \/ ShutdownEnded /\ supErr' = shutdown
  /\ forced' = TRUE /\ DetachProcess
  /\ sup' = "finish"
  /\ UNCHANGED <<environment, shutdown, queue, readerVars, waiterVars, inputVars, recorded, asked, result>>

\* Faulty: a line counts once its newline is there.
TerminatedLines == SubSeq(printed, 1, IF partial THEN seen - 1 ELSE seen)

\* parseSuiteResult: one success marker and neither a failure marker nor a
\* GoError, both of which "fail" stands for.
Lines == SubSeq(printed, 1, seen)
SuitePassed(lines) == Cardinality({i \in DOMAIN lines : lines[i] = "pass"}) = 1
                      /\ \A i \in DOMAIN lines : lines[i] # "fail"

\* The wait of a console this supervisor detached fails by that, and so does
\* one that ended with the context.
WaitFailure(results, error) ==
  IF /\ "wait" \in results /\ waitErr # "none"
     /\ ~((forced \/ error # "none") /\ waitErr \in {"detached", error})
  THEN {"wait"} ELSE {}

RequestFailure(results, error) ==
  LET graceful == "wait" \in results /\ waitErr = "none" /\ ~forced IN
  IF "requestFailed" \in results /\ ~graceful /\ (error = "none" \/ requestErr # error)
  THEN {"request"} ELSE {}

OutputFailure(results) ==
  IF "output" \in results
  THEN (IF SuitePassed(Lines) THEN {} ELSE {"parse"}) \cup (IF readErr THEN {"read"} ELSE {})
  ELSE {}

\* finish and finishProcess, and the deferred cancel of the deadline.
Finish ==
  /\ sup = "finish"
  /\ LET results == Drained
         error == IF supErr # "none" THEN supErr
                  ELSE IF ctx THEN "ctx"
                  ELSE IF ShutdownEnded THEN shutdown ELSE "none"
     IN /\ recorded' = results /\ supErr' = error
        /\ result' = OutputFailure(results) \cup WaitFailure(results, error)
                     \cup RequestFailure(results, error)
                     \cup (IF error = "none" THEN {} ELSE {error})
  /\ queue' = <<>>
  /\ shutdown' = IF shutdown = "armed" THEN "canceled" ELSE shutdown
  /\ sup' = "returned"
  /\ UNCHANGED <<environment, cause, attached, readerVars, waiterVars, inputVars, asked, forced>>

\* Process.Close detaches and removes the container.
CloseProcess ==
  /\ sup = "returned"
  /\ DetachProcess
  /\ \/ console' = (IF console = "running" THEN "nonzero" ELSE console) /\ UNCHANGED result
     \/ "docker" \in Faults /\ result' = result \cup {"close"} /\ UNCHANGED console
  /\ sup' = "closed"
  /\ UNCHANGED <<interactive, printed, ctx, shutdown, queue, readerVars, waiterVars, inputVars, recorded, asked,
                 forced, supErr>>

Sends == ReaderSends \/ WaiterSends \/ InputSends
SupNext == HandleEvents \/ Finishing \/ AbortWith \/ Finish \/ CloseProcess

Next ==
  \/ PrintMarker \/ Exit \/ EndContext \/ ExpireShutdown
  \/ Deliver \/ EndOfOutput \/ ReadFault \/ ReadDetached
  \/ WaitExit \/ WaitFault \/ WaitDetached
  \/ InputWritten \/ InputFails \/ InputReleased
  \/ Sends \/ SupNext

Spec == Init /\ [][Next]_vars

\* Goroutines run, timers fire, and a closed stream or an ended context releases
\* what is blocked on it.  The console, its output and Docker owe nothing.
Fairness ==
  /\ WF_vars(SupNext) /\ WF_vars(ExpireShutdown)
  /\ WF_vars(ReaderSends) /\ WF_vars(WaiterSends) /\ WF_vars(InputSends)
  /\ WF_vars(ReadDetached) /\ WF_vars(WaitDetached) /\ WF_vars(InputReleased)
  /\ WF_vars(~attached /\ InputFails)

FairSpec == Spec /\ Fairness

-----------------------------------------------------------------------------
Returned == sup \in {"returned", "closed"}

(***************************************************************************)
(* A suite passes only if its console ended by itself with status zero,    *)
(* its output was read to the end, and that output is one success marker   *)
(* and no failure: no detach, deadline or suppressed error ever turns into *)
(* a success.  And such a console passes, in whatever order its output,    *)
(* its exit and the answer to the exit request arrive, unless a context    *)
(* ended or a call failed.                                                 *)
(***************************************************************************)
PassIsGraceful ==
  /\ Returned /\ result = {} =>
       /\ waiter = "done" /\ waitErr = "none"
       /\ reader = "done" /\ ~readErr /\ seen = Len(printed)
       /\ SuitePassed(printed)
  /\ /\ Returned /\ ~ctx /\ shutdown # "shutdown" /\ ~readErr
     /\ waitErr # "docker" /\ requestErr = "none"
     /\ console = "zero" /\ SuitePassed(printed)
     => result \subseteq {"close"}

(***************************************************************************)
(* Once anything was heard of the console, or the scenario's context has   *)
(* ended, the run returns, whatever the console, its streams and Docker    *)
(* do.                                                                     *)
(***************************************************************************)
RunReturns == (queue # <<>> \/ ctx) ~> (sup = "closed")

(***************************************************************************)
(* After the process is closed every goroutine ends: none stays blocked on *)
(* a stream or on the channel nobody receives from any more.               *)
(***************************************************************************)
GoroutinesEnd ==
  (sup = "closed") ~> (reader = "done" /\ waiter = "done" /\ input \in {"none", "done"})
=============================================================================
