---------------------------- MODULE SuiteProofs ----------------------------
(***************************************************************************)
(* Two suites that judge what they only observe: the console suite by its  *)
(* supervisor, and the penalties suite by its audits, which follow it.     *)
(*                                                                         *)
(* The console supervisor, for a channel of any capacity, a console that   *)
(* prints any number of markers and any faults of its streams and Docker.  *)
(*                                                                         *)
(* The verdict of a run is fixed in one step from what three goroutines    *)
(* have reported.  The inductive invariant says what each report stands    *)
(* for, wherever the report is (with its goroutine, in the channel or      *)
(* recorded), and why a console was forced to end.                         *)
(***************************************************************************)
EXTENDS Supervisor, RewardAudit, FiniteSetTheorems, TLAPS

TypeOK ==
  /\ interactive \in BOOLEAN /\ ctx \in BOOLEAN
  /\ console \in {"running", "zero", "nonzero"} /\ printed \in Seq(Markers)
  /\ cause \in {"none", "ctx", "detached"} /\ attached \in BOOLEAN
  /\ shutdown \in {"none", "armed", "ctx", "shutdown", "canceled"}
  /\ queue \in Seq(Events)
  /\ reader \in {"read", "signal", "lastSignal", "output", "done"}
  /\ seen \in 0 .. Len(printed)
  /\ partial \in BOOLEAN /\ watching \in BOOLEAN /\ readErr \in BOOLEAN
  /\ waiter \in {"wait", "send", "done"} /\ waitErr \in {"none", "exit", "docker", "ctx", "detached"}
  /\ input \in {"none", "write", "send", "done"}
  /\ requestErr \in {"none", "write", "ctx", "shutdown", "canceled"}
  /\ sup \in {"select", "finish", "returned", "closed"}
  /\ recorded \in SUBSET Events
  /\ asked \in BOOLEAN /\ forced \in BOOLEAN
  /\ supErr \in {"none", "ctx", "shutdown"}

(***************************************************************************)
(* A report in the channel, or recorded, is that of a goroutine that is    *)
(* done with it.                                                           *)
(***************************************************************************)
Reported == recorded \cup Batch

ReportsInv ==
  /\ "output" \in Reported => reader = "done"
  /\ "wait" \in Reported => waiter = "done"
  /\ input = "send" \/ "requestFailed" \in Reported => requestErr # "none"

(***************************************************************************)
(* What the output goroutine has seen.  A marker is found once, and is     *)
(* with the goroutine or in the channel until the supervisor acts on it.   *)
(***************************************************************************)
ReaderInv ==
  /\ reader \in {"lastSignal", "output", "done"} /\ ~readErr =>
       console # "running" /\ seen = Len(printed)
  /\ watching /\ ~partial => seen = 0
  /\ watching /\ reader \in {"lastSignal", "output", "done"} => ~partial
  /\ sup = "select" /\ interactive /\ ~watching =>
       \/ reader \in {"signal", "lastSignal"} \/ "signal" \in Batch
       \/ asked \/ forced \/ "wait" \in recorded

(***************************************************************************)
(* Why the wait, the contexts and the supervisor ended.                    *)
(***************************************************************************)
EndsInv ==
  /\ "ctx" \in {cause, shutdown, waitErr, supErr} => ctx
  /\ "detached" \in {cause, waitErr} => forced \/ requestErr # "none" \/ sup = "closed"
  /\ waitErr = "exit" => console = "nonzero"
  /\ shutdown = "canceled" => Returned
  /\ supErr = "shutdown" => shutdown = "shutdown"
  /\ sup = "select" => supErr = "none"
  /\ sup # "select" /\ supErr = "none" => Complete(recorded)

(***************************************************************************)
(* Whatever makes the supervisor detach a console is an error of the run.  *)
(***************************************************************************)
ForcedInv ==
  forced /\ supErr = "none" =>
    \/ "output" \in recorded /\ (readErr \/ seen = 0)
    \/ "requestFailed" \in recorded

IInv == TypeOK /\ ReportsInv /\ ReaderInv /\ EndsInv /\ ForcedInv /\ PassIsGraceful

-----------------------------------------------------------------------------
(***************************************************************************)
(* The channel.                                                            *)
(***************************************************************************)
LEMMA SendAddsToBatch ==
  ASSUME TypeOK, NEW event \in Events, Send(event)
  PROVE  queue' \in Seq(Events) /\ Batch' = Batch \cup {event}
<1>1. queue \in Seq(Events) /\ queue' = Append(queue, event)
  BY DEF TypeOK, Send
<1>2. queue' \in Seq(Events)
  BY <1>1
<1>3. Batch' = Batch \cup {event}
  <2>1. DOMAIN queue' = 1 .. (Len(queue) + 1) /\ DOMAIN queue = 1 .. Len(queue) /\ Len(queue) \in Nat
    BY <1>1
  <2>2. \A i \in 1 .. Len(queue) : queue'[i] = queue[i]
    BY <1>1
  <2>3. queue'[Len(queue) + 1] = event
    BY <1>1
  <2>4. 1 .. (Len(queue) + 1) = (1 .. Len(queue)) \cup {Len(queue) + 1}
    BY <2>1
  <2> QED
    BY <2>1, <2>2, <2>3, <2>4 DEF Batch
<1> QED
  BY <1>2, <1>3

LEMMA BatchOfEvents ==
  ASSUME TypeOK
  PROVE  Batch \subseteq Events /\ Drained \subseteq Events
  BY DEF TypeOK, Batch, Drained

\* The supervisor drains the channel: nothing that was reported is forgotten.
LEMMA DrainKeepsReports ==
  ASSUME queue' = <<>>, recorded' = Drained
  PROVE  /\ Batch' = {} /\ Reported' \subseteq Reported
         /\ recorded \subseteq recorded'
         /\ \A event \in Reported \ {"signal"} : event \in recorded'
  BY DEF Batch, Drained, Reported

-----------------------------------------------------------------------------
LEMMA TypeStep ==
  ASSUME TypeOK, EndsInv, [Next]_vars
  PROVE  TypeOK'
<1> USE DEF environment, contexts, readerVars, waiterVars, inputVars, supVars
<1>1. CASE PrintMarker \/ Exit
  <2>1. printed' \in Seq(Markers) /\ Len(printed') >= Len(printed) /\ Len(printed') \in Nat
    BY <1>1 DEF TypeOK, PrintMarker, Exit
  <2> QED
    BY <1>1, <2>1 DEF TypeOK, PrintMarker, Exit
<1>2. CASE EndContext \/ ExpireShutdown
  <2>1. CASE EndContext
    BY <2>1 DEF TypeOK, EndContext
  <2>2. CASE ExpireShutdown
    BY <2>2 DEF TypeOK, ExpireShutdown
  <2> QED
    BY <1>2, <2>1, <2>2
<1>3. CASE Deliver
  <2>1. seen' \in 0 .. Len(printed)
    BY <1>3 DEF TypeOK, Deliver
  <2>2. printed' = printed
    BY <1>3 DEF Deliver
  <2>3. /\ reader' \in {"read", "signal"} /\ partial' \in BOOLEAN /\ watching' \in BOOLEAN
    BY <1>3 DEF TypeOK, Deliver, StopWatching
  <2> QED
    BY <1>3, <2>1, <2>2, <2>3 DEF TypeOK, Deliver
<1>4. CASE EndOfOutput \/ ReadFault \/ ReadDetached
  BY <1>4 DEF TypeOK, EndOfOutput, ReadFault, ReadDetached, CompleteOutput, StopWatching
<1>5. CASE WaitExit \/ WaitFault \/ WaitDetached
  BY <1>5 DEF TypeOK, WaitExit, WaitFault, WaitDetached, WaitReturns
<1>6. CASE InputWritten \/ InputFails \/ InputReleased
  BY <1>6 DEF TypeOK, InputWritten, InputFails, InputReleased, DetachProcess, ShutdownEnded
<1>7. CASE Sends
  <2>1. queue' \in Seq(Events)
    BY <1>7, SendAddsToBatch DEF Sends, ReaderSends, WaiterSends, InputSends, Events
  <2> QED
    BY <1>7, <2>1 DEF TypeOK, Sends, ReaderSends, WaiterSends, InputSends
<1>8. CASE HandleEvents
  <2>1. queue' \in Seq(Events) /\ recorded' \in SUBSET Events
    BY <1>8, BatchOfEvents DEF HandleEvents
  <2>2. /\ asked' \in BOOLEAN /\ forced' \in BOOLEAN /\ cause' \in {"none", "ctx", "detached"}
        /\ attached' \in BOOLEAN /\ shutdown' \in {"none", "armed", "ctx", "shutdown", "canceled"}
        /\ input' \in {"none", "write", "send", "done"} /\ requestErr' = requestErr
    BY <1>8 DEF TypeOK, HandleEvents, Respond, ForceClose, RequestExit, StartDeadline, DetachProcess
  <2> QED
    BY <1>8, <2>1, <2>2 DEF TypeOK, HandleEvents
<1>9. CASE Finishing \/ AbortWith
  <2>1. supErr' \in {"none", "ctx", "shutdown"} /\ cause' \in {"none", "ctx", "detached"} /\ attached' \in BOOLEAN
    BY <1>9 DEF TypeOK, EndsInv, Returned, Finishing, AbortWith, DetachProcess, ShutdownEnded
  <2> QED
    BY <1>9, <2>1 DEF TypeOK, Finishing, AbortWith
<1>10. CASE Finish
  <2>1. shutdown # "canceled"
    BY <1>10 DEF Finish, EndsInv, Returned
  <2>2. supErr' \in {"none", "ctx", "shutdown"}
    BY <1>10, <2>1 DEF Finish, TypeOK, ShutdownEnded
  <2>3. recorded' \in SUBSET Events
    BY <1>10, BatchOfEvents DEF Finish
  <2> QED
    BY <1>10, <2>2, <2>3 DEF Finish, TypeOK
<1>12. CASE CloseProcess
  <2>1. /\ console' \in {"running", "zero", "nonzero"} /\ cause' \in {"none", "ctx", "detached"}
        /\ attached' = FALSE /\ sup' = "closed"
    BY <1>12 DEF CloseProcess, TypeOK, DetachProcess
  <2>2. printed' \in Seq(Markers) /\ seen' \in 0 .. Len(printed')
    BY <1>12 DEF CloseProcess, TypeOK
  <2>3. UNCHANGED <<interactive, ctx, shutdown, queue, recorded, asked, forced, supErr>>
    BY <1>12 DEF CloseProcess
  <2>4. UNCHANGED <<readerVars, waiterVars, inputVars>>
    BY <1>12 DEF CloseProcess
  <2> QED
    <3>1. /\ interactive' \in BOOLEAN /\ ctx' \in BOOLEAN
          /\ shutdown' \in {"none", "armed", "ctx", "shutdown", "canceled"}
          /\ queue' \in Seq(Events)
      BY <2>3 DEF TypeOK
    <3>2. recorded' \in SUBSET Events /\ asked' \in BOOLEAN /\ forced' \in BOOLEAN
      BY <2>3 DEF TypeOK
    <3>3. supErr' \in {"none", "ctx", "shutdown"}
      BY <2>3 DEF TypeOK
    <3>4. /\ reader' \in {"read", "signal", "lastSignal", "output", "done"}
          /\ partial' \in BOOLEAN /\ watching' \in BOOLEAN /\ readErr' \in BOOLEAN
      BY <2>4 DEF TypeOK
    <3>5. /\ waiter' \in {"wait", "send", "done"} /\ waitErr' \in {"none", "exit", "docker", "ctx", "detached"}
          /\ input' \in {"none", "write", "send", "done"}
          /\ requestErr' \in {"none", "write", "ctx", "shutdown", "canceled"}
      BY <2>4 DEF TypeOK
    <3> QED
      BY <2>1, <2>2, <3>1, <3>2, <3>3, <3>4, <3>5 DEF TypeOK
<1>11. CASE UNCHANGED vars
  BY <1>11 DEF TypeOK, vars
<1> QED
  BY <1>1, <1>2, <1>3, <1>4, <1>5, <1>6, <1>7, <1>8, <1>9, <1>10, <1>11, <1>12 DEF Next, SupNext


(***************************************************************************)
(* A report is sent once its goroutine has its result.                     *)
(***************************************************************************)
LEMMA ReportsStep ==
  ASSUME TypeOK, ReportsInv, [Next]_vars
  PROVE  ReportsInv'
<1> USE DEF environment, contexts, readerVars, waiterVars, inputVars, supVars
<1>1. CASE \/ PrintMarker \/ Exit \/ EndContext \/ ExpireShutdown
           \/ Deliver \/ EndOfOutput \/ ReadFault \/ ReadDetached
  <2>1. UNCHANGED <<queue, recorded, waiter, input, requestErr>> /\ (reader = "done" => reader' = "done")
    BY <1>1 DEF PrintMarker, Exit, EndContext, ExpireShutdown, Deliver, EndOfOutput, ReadFault,
                ReadDetached, CompleteOutput
  <2> QED
    BY <2>1 DEF ReportsInv, Reported, Batch
<1>2. CASE \/ WaitExit \/ WaitFault \/ WaitDetached \/ InputWritten \/ InputFails \/ InputReleased
  <2>1. /\ UNCHANGED <<queue, recorded, reader>> /\ (waiter = "done" => waiter' = "done")
        /\ input' = "send" \/ requestErr # "none" => requestErr' # "none"
    BY <1>2 DEF WaitExit, WaitFault, WaitDetached, WaitReturns, InputWritten, InputFails, InputReleased,
                ShutdownEnded, ReportsInv
  <2> QED
    BY <2>1 DEF ReportsInv, Reported, Batch
<1>3. CASE ReaderSends
  <2>1. PICK event \in {"signal", "output"} : Send(event) /\ (event = "output" => reader' = "done")
    BY <1>3 DEF ReaderSends
  <2>2. Reported' = Reported \cup {event} /\ reader # "done"
    BY <1>3, <2>1, SendAddsToBatch DEF ReaderSends, Reported, Events
  <2> QED
    BY <1>3, <2>1, <2>2 DEF ReaderSends, ReportsInv
<1>4. CASE WaiterSends
  <2>1. Reported' = Reported \cup {"wait"}
    BY <1>4, SendAddsToBatch DEF WaiterSends, Reported, Events
  <2> QED
    BY <1>4, <2>1 DEF WaiterSends, ReportsInv
<1>5. CASE InputSends
  <2>1. Reported' = Reported \cup {"requestFailed"}
    BY <1>5, SendAddsToBatch DEF InputSends, Reported, Events
  <2> QED
    BY <1>5, <2>1 DEF InputSends, ReportsInv
<1>6. CASE HandleEvents \/ Finish
  <2>1. Reported' \subseteq Reported
    BY <1>6, DrainKeepsReports DEF HandleEvents, Finish
  <2>2. UNCHANGED <<reader, waiter, requestErr>> /\ (input' = "send" => input = "send")
    BY <1>6 DEF HandleEvents, Finish, Respond, ForceClose, RequestExit
  <2> QED
    BY <2>1, <2>2 DEF ReportsInv
<1>7. CASE Finishing \/ AbortWith \/ CloseProcess \/ UNCHANGED vars
  <2>1. UNCHANGED <<queue, recorded, reader, waiter, input, requestErr>>
    BY <1>7 DEF Finishing, AbortWith, CloseProcess, vars
  <2> QED
    BY <2>1 DEF ReportsInv, Reported, Batch
<1> QED
  BY <1>1, <1>2, <1>3, <1>4, <1>5, <1>6, <1>7 DEF Next, SupNext, Sends


(***************************************************************************)
(* The first marker is with its goroutine, in the channel or acted on.     *)
(***************************************************************************)
LEMMA ReaderStep ==
  ASSUME TypeOK, ReportsInv, ReaderInv, EndsInv, [Next]_vars
  PROVE  ReaderInv'
<1> USE DEF environment, contexts, readerVars, waiterVars, inputVars, supVars
<1>1. CASE \/ PrintMarker \/ Exit
  <2>1. /\ console = "running" /\ UNCHANGED <<interactive, queue, recorded, readerVars, asked, forced, sup>>
    BY <1>1 DEF PrintMarker, Exit
  <2> QED
    BY <2>1 DEF ReaderInv, Batch
<1>2. CASE \/ EndContext \/ ExpireShutdown \/ WaitExit \/ WaitFault \/ WaitDetached
           \/ InputWritten \/ InputFails \/ InputReleased \/ UNCHANGED vars
  <2>1. UNCHANGED <<interactive, console, printed, queue, recorded, readerVars, asked, forced, sup>>
    BY <1>2 DEF EndContext, ExpireShutdown, WaitExit, WaitFault, WaitDetached, WaitReturns, InputWritten,
                InputFails, InputReleased, vars
  <2> QED
    BY <2>1 DEF ReaderInv, Batch
<1>3. CASE Deliver
  <2>1. /\ reader = "read" /\ UNCHANGED <<console, printed, interactive, queue, recorded, asked, forced, sup>>
        /\ \/ ~watching' /\ reader' = "signal"
           \/ ~watching /\ UNCHANGED <<watching, reader>>
           \/ watching /\ UNCHANGED <<watching, reader>> /\ partial'
    BY <1>3 DEF Deliver, StopWatching
  <2> QED
    BY <2>1 DEF ReaderInv, Batch
<1>4. CASE EndOfOutput \/ ReadFault \/ ReadDetached
  <2>1. /\ reader = "read"
        /\ UNCHANGED <<console, printed, seen, partial, interactive, queue, recorded, asked, forced, sup>>
        /\ \/ watching /\ partial /\ ~watching' /\ reader' = "lastSignal"
           \/ ~(watching /\ partial) /\ UNCHANGED watching /\ reader' = "output"
        /\ ~readErr' => console # "running" /\ seen = Len(printed)
    <3>1. PICK err \in BOOLEAN : CompleteOutput(err) /\ (err \/ (console # "running" /\ seen = Len(printed)))
      BY <1>4 DEF EndOfOutput, ReadFault, ReadDetached
    <3>2. readErr' = err /\ reader = "read"
      BY <3>1 DEF CompleteOutput
    <3> QED
      BY <3>1, <3>2 DEF CompleteOutput, StopWatching, TypeOK
  <2> QED
    BY <2>1 DEF ReaderInv, Batch, TypeOK
<1>5. CASE ReaderSends
  <2>1. /\ UNCHANGED <<console, printed, seen, partial, watching, readErr, interactive, recorded, asked,
                       forced, sup>>
        /\ \/ reader = "signal" /\ reader' = "read" /\ Send("signal")
           \/ reader = "lastSignal" /\ reader' = "output" /\ Send("signal")
           \/ reader = "output" /\ reader' = "done" /\ Send("output")
    BY <1>5 DEF ReaderSends
  <2>2. /\ Send("signal") => Batch' = Batch \cup {"signal"}
        /\ Send("output") => Batch' = Batch \cup {"output"}
    BY SendAddsToBatch DEF Events
  <2> QED
    BY <2>1, <2>2 DEF ReaderInv
<1>6. CASE WaiterSends \/ InputSends
  <2>1. UNCHANGED <<interactive, console, printed, recorded, readerVars, asked, forced, sup>>
    BY <1>6 DEF WaiterSends, InputSends
  <2>2. Batch \subseteq Batch'
    BY <1>6, SendAddsToBatch DEF WaiterSends, InputSends, Events
  <2> QED
    BY <2>1, <2>2 DEF ReaderInv
<1>7. CASE HandleEvents
  <2>1. UNCHANGED <<interactive, console, printed, readerVars, sup>>
    BY <1>7 DEF HandleEvents
  <2>2. /\ (asked => asked') /\ (forced => forced')
        /\ recorded \subseteq recorded' /\ recorded' = Drained
    BY <1>7 DEF HandleEvents, Respond, ForceClose, RequestExit, Drained
  <2>3. interactive /\ "signal" \in Batch => asked' \/ forced' \/ "wait" \in recorded'
    BY <1>7 DEF HandleEvents, Respond, ForceClose, RequestExit, Complete, TypeOK
  <2>4. sup = "select" /\ interactive /\ ~watching =>
          reader \in {"signal", "lastSignal"} \/ asked' \/ forced' \/ "wait" \in recorded'
    <3> SUFFICES ASSUME sup = "select", interactive, ~watching
                 PROVE  reader \in {"signal", "lastSignal"} \/ asked' \/ forced' \/ "wait" \in recorded'
      OBVIOUS
    <3>1. \/ reader \in {"signal", "lastSignal"}
          \/ "signal" \in Batch
          \/ asked
          \/ forced
          \/ "wait" \in recorded
      BY DEF ReaderInv
    <3> QED
      BY <2>2, <2>3, <3>1
  <2> QED
    BY <2>1, <2>4 DEF ReaderInv
<1>8. CASE Finishing \/ AbortWith \/ Finish
  <2>1. UNCHANGED <<interactive, console, printed, readerVars>> /\ sup' # "select"
    BY <1>8 DEF Finishing, AbortWith, Finish
  <2> QED
    BY <2>1 DEF ReaderInv
<1>9. CASE CloseProcess
  <2>1. /\ UNCHANGED <<interactive, printed, readerVars>> /\ sup' # "select"
        /\ console # "running" => console' # "running"
    BY <1>9 DEF CloseProcess
  <2> QED
    BY <2>1 DEF ReaderInv
<1> QED
  BY <1>1, <1>2, <1>3, <1>4, <1>5, <1>6, <1>7, <1>8, <1>9 DEF Next, SupNext, Sends


(***************************************************************************)
(* Why a wait, a context or the supervisor ended stays true.               *)
(***************************************************************************)
LEMMA EndsStep ==
  ASSUME TypeOK, EndsInv, [Next]_vars
  PROVE  EndsInv'
<1> USE DEF environment, contexts, readerVars, waiterVars, inputVars, supVars
<1>1. CASE \/ PrintMarker \/ Exit \/ Deliver \/ EndOfOutput \/ ReadFault \/ ReadDetached
           \/ ReaderSends \/ WaiterSends \/ UNCHANGED vars
  <2>1. /\ UNCHANGED <<ctx, cause, shutdown, waitErr, requestErr, sup, recorded, forced, supErr>>
        /\ console = "nonzero" => console' = "nonzero"
    BY <1>1 DEF PrintMarker, Exit, Deliver, EndOfOutput, ReadFault, ReadDetached, CompleteOutput,
                ReaderSends, WaiterSends, vars
  <2> QED
    BY <2>1 DEF EndsInv, Returned
<1>2. CASE EndContext \/ ExpireShutdown
  <2>1. /\ UNCHANGED <<console, waitErr, requestErr, sup, recorded, forced, supErr>>
        /\ \/ ctx' /\ shutdown' \in {shutdown, "ctx"} /\ cause' \in {cause, "ctx"}
              /\ (shutdown = "shutdown" => shutdown' = "shutdown")
           \/ UNCHANGED <<ctx, cause>> /\ shutdown = "armed" /\ shutdown' = "shutdown"
    BY <1>2 DEF EndContext, ExpireShutdown
  <2> QED
    BY <2>1 DEF EndsInv, Returned
<1>3. CASE WaitExit \/ WaitFault \/ WaitDetached
  <2>1. UNCHANGED <<ctx, cause, shutdown, console, requestErr, sup, recorded, forced, supErr>>
    BY <1>3 DEF WaitExit, WaitFault, WaitDetached, WaitReturns
  <2>2. \/ waitErr' = "none"
        \/ waitErr' = "exit" /\ console = "nonzero"
        \/ waitErr' = "docker"
        \/ waitErr' = cause /\ cause \in {"ctx", "detached"}
    BY <1>3 DEF WaitExit, WaitFault, WaitDetached, WaitReturns, TypeOK
  <2> QED
    BY <2>1, <2>2 DEF EndsInv, Returned
<1>4. CASE InputWritten \/ InputFails \/ InputReleased \/ InputSends
  <2>1. /\ UNCHANGED <<ctx, shutdown, console, waitErr, sup, recorded, forced, supErr>>
        /\ \/ UNCHANGED <<cause, requestErr>>
           \/ UNCHANGED cause /\ requestErr' = "write"
           \/ cause' \in {cause, "detached"} /\ requestErr' # "none"
    BY <1>4 DEF InputWritten, InputFails, InputReleased, InputSends, DetachProcess, ShutdownEnded
  <2> QED
    BY <2>1 DEF EndsInv, Returned
<1>5. CASE HandleEvents
  <2>1. UNCHANGED <<console, ctx, waitErr, requestErr, sup, supErr>> /\ sup = "select"
    BY <1>5 DEF HandleEvents, Respond, ForceClose, RequestExit
  <2>2. \/ UNCHANGED <<cause, forced>>
        \/ cause' \in {cause, "detached"} /\ forced'
    BY <1>5 DEF HandleEvents, Respond, ForceClose, RequestExit, DetachProcess
  <2>3. \/ shutdown' = shutdown
        \/ shutdown = "none" /\ shutdown' = "ctx" /\ ctx
        \/ shutdown = "none" /\ shutdown' = "armed"
    BY <1>5 DEF HandleEvents, Respond, StartDeadline
  <2> QED
    BY <2>1, <2>2, <2>3 DEF EndsInv, Returned
<1>6. CASE Finishing
  BY <1>6 DEF Finishing, EndsInv, Returned
<1>7. CASE AbortWith
  <2>1. /\ UNCHANGED <<console, ctx, shutdown, waitErr, requestErr, recorded>>
        /\ sup = "select" /\ sup' = "finish" /\ forced' /\ cause' \in {cause, "detached"}
    BY <1>7 DEF AbortWith, DetachProcess
  <2>2. \/ supErr' = "ctx" /\ ctx
        \/ supErr' = shutdown /\ shutdown \in {"ctx", "shutdown"}
    BY <1>7, <2>1 DEF AbortWith, ShutdownEnded, EndsInv, Returned
  <2> QED
    BY <2>1, <2>2 DEF EndsInv, Returned
<1>8. CASE Finish
  <2>1. /\ UNCHANGED <<console, ctx, cause, waitErr, requestErr, forced>>
        /\ sup = "finish" /\ sup' = "returned"
        /\ shutdown' = IF shutdown = "armed" THEN "canceled" ELSE shutdown
        /\ recorded \subseteq recorded'
    BY <1>8 DEF Finish, Drained
  <2>2. \/ supErr # "none" /\ supErr' = supErr
        \/ supErr = "none" /\ supErr' = "ctx" /\ ctx
        \/ supErr = "none" /\ supErr' = shutdown /\ shutdown = "shutdown"
        \/ supErr = "none" /\ supErr' = "none"
    <3>1. ShutdownEnded => shutdown \in {"ctx", "shutdown"}
      BY <2>1 DEF ShutdownEnded, EndsInv, Returned
    <3>2. shutdown = "ctx" => ctx
      BY DEF EndsInv
    <3> QED
      BY <1>8, <3>1, <3>2 DEF Finish
  <2> QED
    BY <2>1, <2>2 DEF EndsInv, Returned, Complete
<1>9. CASE CloseProcess
  <2>1. /\ UNCHANGED <<ctx, shutdown, waitErr, requestErr, recorded, forced, supErr>>
        /\ sup' = "closed" /\ cause' \in {cause, "detached"}
        /\ (console = "nonzero" => console' = "nonzero")
    BY <1>9 DEF CloseProcess, DetachProcess
  <2>2. Returned /\ Returned'
    BY <1>9 DEF CloseProcess, Returned
  <2>3. supErr = "none" => Complete(recorded)
    BY <2>2 DEF EndsInv, Returned
  <2> QED
    BY <2>1, <2>2, <2>3 DEF EndsInv, Returned
<1> QED
  BY <1>1, <1>2, <1>3, <1>4, <1>5, <1>6, <1>7, <1>8, <1>9 DEF Next, SupNext, Sends


(***************************************************************************)
(* What the output goroutine and the wait goroutine found is final once    *)
(* they are done.                                                          *)
(***************************************************************************)
LEMMA DoneIsFinal ==
  ASSUME [Next]_vars
  PROVE  /\ reader = "done" => UNCHANGED <<reader, seen, readErr>>
         /\ waiter = "done" => UNCHANGED <<waiter, waitErr>>
         /\ console # "running" => UNCHANGED <<console, printed>>
         /\ (ctx => ctx') /\ (requestErr # "none" => requestErr' # "none")
         /\ shutdown = "shutdown" => shutdown' = "shutdown"
         /\ recorded \subseteq recorded'
<1> USE DEF environment, contexts, readerVars, waiterVars, inputVars, supVars
<1>1. CASE \/ PrintMarker \/ Exit \/ EndContext \/ ExpireShutdown
  BY <1>1 DEF PrintMarker, Exit, EndContext, ExpireShutdown
<1>2. CASE \/ Deliver \/ EndOfOutput \/ ReadFault \/ ReadDetached
  BY <1>2 DEF Deliver, EndOfOutput, ReadFault, ReadDetached, CompleteOutput
<1>3. CASE \/ WaitExit \/ WaitFault \/ WaitDetached \/ InputWritten \/ InputFails \/ InputReleased
  BY <1>3 DEF WaitExit, WaitFault, WaitDetached, WaitReturns, InputWritten, InputFails, InputReleased,
              ShutdownEnded
<1>4. CASE Sends
  BY <1>4 DEF Sends, ReaderSends, WaiterSends, InputSends
<1>5. CASE HandleEvents
  <2>1. UNCHANGED <<environment, readerVars, waiterVars>> /\ recorded \subseteq recorded'
    BY <1>5 DEF HandleEvents, Drained
  <2>2. requestErr' = requestErr /\ (shutdown = "shutdown" => shutdown' = "shutdown")
    BY <1>5 DEF HandleEvents, Respond, ForceClose, RequestExit, StartDeadline
  <2> QED
    BY <2>1, <2>2
<1>6. CASE Finishing \/ AbortWith \/ CloseProcess \/ UNCHANGED vars
  BY <1>6 DEF Finishing, AbortWith, CloseProcess, vars
<1>7. CASE Finish
  BY <1>7 DEF Finish, Drained
<1> QED
  BY <1>1, <1>2, <1>3, <1>4, <1>5, <1>6, <1>7 DEF Next, SupNext

(***************************************************************************)
(* A console is detached because its output or the request to exit is      *)
(* lost, or because its output ended with no marker at all.                *)
(***************************************************************************)
LEMMA ForcedStep ==
  ASSUME TypeOK, ReportsInv, ReaderInv, EndsInv, ForcedInv, [Next]_vars
  PROVE  ForcedInv'
<1> DEFINE Reason == \/ "output" \in recorded /\ (readErr \/ seen = 0)
                     \/ "requestFailed" \in recorded
<1>1. Reason => Reason'
  BY DoneIsFinal DEF ReportsInv, Reported
<1>2. CASE HandleEvents
  <2>1. recorded' = Drained /\ UNCHANGED <<reader, seen, readErr, supErr>> /\ sup = "select"
    BY <1>2 DEF HandleEvents, readerVars
  <2>2. CASE forced' = forced
    BY <1>1, <2>1, <2>2 DEF ForcedInv
  <2>3. CASE forced' # forced
    <3>1. MustClose(recorded', "signal" \in Batch)
      BY <1>2, <2>1, <2>3 DEF HandleEvents, Respond, RequestExit
    <3>2. CASE "output" \in recorded' /\ readErr
      BY <3>2, <2>1 DEF ForcedInv
    <3>3. CASE RequestFailedTooEarly(recorded')
      BY <3>3, <2>1 DEF ForcedInv, RequestFailedTooEarly
    <3>4. CASE /\ interactive /\ "signal" \notin Batch /\ "output" \in recorded'
               /\ "wait" \notin recorded' /\ ~asked
      <4>1. reader = "done"
        BY <3>4, <2>1 DEF Drained, ReportsInv, Reported
      <4>2. "wait" \notin recorded
        BY <3>4, <2>1 DEF Drained
      <4>3. CASE forced
        <5>1. Reason
          BY <4>3, <2>1 DEF ForcedInv, EndsInv
        <5> QED
          BY <5>1, <1>1 DEF ForcedInv
      <4>4. CASE ~forced
        <5>1. watching
          BY <3>4, <4>1, <4>2, <4>4, <2>1 DEF ReaderInv
        <5>2. seen = 0
          BY <5>1, <4>1 DEF ReaderInv
        <5> QED
          BY <5>2, <3>4, <2>1 DEF ForcedInv
      <4> QED
        BY <4>3, <4>4
    <3> QED
      BY <3>1, <3>2, <3>3, <3>4 DEF MustClose
  <2> QED
    BY <2>2, <2>3
<1>3. CASE AbortWith
  <2>1. supErr' # "none"
    BY <1>3 DEF AbortWith, ShutdownEnded
  <2> QED
    BY <2>1 DEF ForcedInv
<1>4. CASE ~HandleEvents /\ ~AbortWith
  <2>1. forced' = forced /\ (supErr' = "none" => supErr = "none")
    <3> USE DEF environment, contexts, readerVars, waiterVars, inputVars, supVars
    <3>1. CASE \/ PrintMarker \/ Exit \/ EndContext \/ ExpireShutdown
               \/ Deliver \/ EndOfOutput \/ ReadFault \/ ReadDetached
      BY <3>1 DEF PrintMarker, Exit, EndContext, ExpireShutdown, Deliver, EndOfOutput, ReadFault,
                  ReadDetached, CompleteOutput
    <3>2. CASE \/ WaitExit \/ WaitFault \/ WaitDetached \/ InputWritten \/ InputFails \/ InputReleased \/ Sends
      BY <3>2 DEF WaitExit, WaitFault, WaitDetached, WaitReturns, InputWritten, InputFails, InputReleased,
                  Sends, ReaderSends, WaiterSends, InputSends
    <3>3. CASE Finishing \/ Finish \/ CloseProcess \/ UNCHANGED vars
      BY <3>3 DEF Finishing, Finish, CloseProcess, vars
    <3> QED
      BY <1>4, <3>1, <3>2, <3>3 DEF Next, SupNext
  <2> QED
    BY <2>1, <1>1 DEF ForcedInv
<1> QED
  BY <1>2, <1>3, <1>4

-----------------------------------------------------------------------------
\* No marker is no success.
LEMMA SilenceIsNoSuccess == ~SuitePassed(<<>>)
<1>1. {i \in DOMAIN <<>> : <<>>[i] = "pass"} = {}
  OBVIOUS
<1> QED
  BY <1>1, FS_EmptySet DEF SuitePassed

\* Output that was read to the end is all there is.
LEMMA WholeOutput ==
  ASSUME TypeOK
  PROVE  /\ seen = Len(printed) => Lines = printed
         /\ seen = 0 => Lines = <<>>
<1>1. printed \in Seq(Markers) /\ seen \in Nat
  BY DEF TypeOK
<1>2. ASSUME seen = Len(printed)
      PROVE  Lines = printed
  BY <1>1, <1>2 DEF Lines
<1>3. ASSUME seen = 0
      PROVE  Lines = <<>>
  BY <1>1, <1>3 DEF Lines
<1> QED
  BY <1>2, <1>3

(***************************************************************************)
(* The verdict, in the step that gives it.                                 *)
(***************************************************************************)
LEMMA FinishIsRight ==
  ASSUME TypeOK, ReportsInv, ReaderInv, EndsInv, ForcedInv, Finish
  PROVE  PassIsGraceful'
<1> DEFINE error == IF supErr # "none" THEN supErr
                    ELSE IF ctx THEN "ctx"
                    ELSE IF ShutdownEnded THEN shutdown ELSE "none"
           failures == OutputFailure(recorded') \cup WaitFailure(recorded', error)
                       \cup RequestFailure(recorded', error)
<1>1. /\ recorded' = Drained /\ sup = "finish" /\ sup' = "returned"
      /\ result' = failures \cup (IF error = "none" THEN {} ELSE {error})
      /\ UNCHANGED <<console, printed, ctx, seen, reader, readErr, waiter, waitErr, requestErr, forced>>
      /\ shutdown = "shutdown" => shutdown' = "shutdown"
  BY DEF Finish, environment, readerVars, waiterVars, inputVars
<1>2. recorded \subseteq recorded'
  BY <1>1 DEF Drained
<1>3. /\ "output" \in recorded' => reader = "done"
      /\ "wait" \in recorded' => waiter = "done"
      /\ "requestFailed" \in recorded' => requestErr # "none"
  BY <1>1 DEF Drained, ReportsInv, Reported
<1>4. error = "none" => Complete(recorded) /\ supErr = "none"
  BY <1>1 DEF EndsInv, ShutdownEnded
<1>5. error # "none" => error \in {"ctx", "shutdown"} /\ (ctx \/ shutdown = "shutdown")
  BY <1>1 DEF EndsInv, ShutdownEnded, Returned, TypeOK
<1> HIDE DEF error
<1>6. ASSUME result' = {}
      PROVE  /\ waiter' = "done" /\ waitErr' = "none"
             /\ reader' = "done" /\ ~readErr' /\ seen' = Len(printed')
             /\ SuitePassed(printed')
  <2>1. failures = {} /\ error = "none"
    BY <1>1, <1>6
  <2>2. "output" \in recorded' /\ "wait" \in recorded' /\ supErr = "none"
    BY <2>1, <1>2, <1>4 DEF Complete
  <2>3. ~readErr /\ SuitePassed(Lines)
    <3>1. OutputFailure(recorded') = {}
      BY <2>1
    <3> QED
      BY <3>1, <2>2, <1>1 DEF OutputFailure, Lines, SuitePassed
  <2>4. seen = Len(printed)
    BY <1>3, <2>2, <2>3 DEF ReaderInv
  <2>5. ~forced
    <3>1. seen # 0
      BY <2>3, SilenceIsNoSuccess, WholeOutput
    <3>2. ASSUME forced, "requestFailed" \in recorded
          PROVE  FALSE
      <4>1. RequestFailure(recorded', error) = {"request"}
        BY <3>2, <2>1, <1>1, <1>2 DEF RequestFailure
      <4> QED
        BY <4>1, <2>1
    <3> QED
      BY <3>1, <3>2, <2>2, <2>3 DEF ForcedInv
  <2>6. waitErr = "none"
    <3>1. WaitFailure(recorded', error) = {}
      BY <2>1
    <3> QED
      BY <3>1, <2>1, <2>2, <2>5, <1>1 DEF WaitFailure
  <2> QED
    BY <1>1, <1>3, <2>2, <2>3, <2>4, <2>6, WholeOutput
<1>7. ASSUME /\ ~ctx' /\ shutdown' # "shutdown" /\ ~readErr'
             /\ waitErr' # "docker" /\ requestErr' = "none"
             /\ console' = "zero" /\ SuitePassed(printed')
      PROVE  result' = {}
  <2>1. error = "none"
    BY <1>1, <1>5, <1>7
  <2>2. reader = "done" /\ waiter = "done" /\ "requestFailed" \notin recorded'
    BY <2>1, <1>1, <1>2, <1>3, <1>4, <1>7 DEF Complete
  <2>3. Lines = printed
    BY <2>2, <1>1, <1>7, WholeOutput DEF ReaderInv
  <2>4. OutputFailure(recorded') = {}
    BY <2>3, <1>1, <1>7 DEF OutputFailure, Lines, SuitePassed
  <2>5. waitErr \in {"none", "detached"} /\ (waitErr = "detached" => forced)
    BY <1>1, <1>7 DEF EndsInv, TypeOK
  <2>6. WaitFailure(recorded', error) = {}
    BY <2>5, <1>1 DEF WaitFailure
  <2>7. RequestFailure(recorded', error) = {}
    BY <2>2 DEF RequestFailure
  <2> QED
    BY <1>1, <2>1, <2>4, <2>6, <2>7
<1> QED
  BY <1>6, <1>7 DEF PassIsGraceful


(***************************************************************************)
(* A verdict that was right stays right: what it is about is final.        *)
(***************************************************************************)
LEMMA PassStep ==
  ASSUME IInv, [Next]_vars
  PROVE  PassIsGraceful'
<1> USE DEF IInv
<1>1. CASE Finish
  BY <1>1, FinishIsRight
<1>2. CASE ~Finish
  <2>1. Returned' => Returned /\ (result' = result \/ result' = result \cup {"close"})
    <3> USE DEF environment, contexts, readerVars, waiterVars, inputVars, supVars
    <3>1. CASE \/ PrintMarker \/ Exit \/ EndContext \/ ExpireShutdown
               \/ Deliver \/ EndOfOutput \/ ReadFault \/ ReadDetached
      BY <3>1 DEF PrintMarker, Exit, EndContext, ExpireShutdown, Deliver, EndOfOutput, ReadFault,
                  ReadDetached, CompleteOutput, Returned
    <3>2. CASE \/ WaitExit \/ WaitFault \/ WaitDetached \/ InputWritten \/ InputFails \/ InputReleased \/ Sends
      BY <3>2 DEF WaitExit, WaitFault, WaitDetached, WaitReturns, InputWritten, InputFails, InputReleased,
                  Sends, ReaderSends, WaiterSends, InputSends, Returned
    <3>3. CASE HandleEvents \/ Finishing \/ AbortWith \/ CloseProcess \/ UNCHANGED vars
      BY <3>3 DEF HandleEvents, Finishing, AbortWith, CloseProcess, vars, Returned
    <3> QED
      BY <1>2, <3>1, <3>2, <3>3 DEF Next, SupNext
  <2>2. SUFFICES ASSUME Returned'
                 PROVE  PassIsGraceful'
    BY DEF PassIsGraceful
  <2>3. Returned /\ (result' = {} => result = {}) /\ (result \subseteq {"close"} => result' \subseteq {"close"})
    BY <2>1, <2>2
  <2>4. \/ ctx
        \/ shutdown = "shutdown"
        \/ reader = "done" /\ waiter = "done"
    <3>1. supErr = "none" => Complete(recorded)
      BY <2>3 DEF EndsInv, Returned
    <3> QED
      BY <3>1 DEF TypeOK, EndsInv, Complete, ReportsInv, Reported
  <2>5. result' = {} => /\ waiter' = "done" /\ waitErr' = "none"
                        /\ reader' = "done" /\ ~readErr' /\ seen' = Len(printed')
                        /\ SuitePassed(printed')
    <3> SUFFICES ASSUME result' = {}
                 PROVE  /\ waiter' = "done" /\ waitErr' = "none"
                        /\ reader' = "done" /\ ~readErr' /\ seen' = Len(printed')
                        /\ SuitePassed(printed')
      OBVIOUS
    <3>1. /\ waiter = "done" /\ waitErr = "none"
          /\ reader = "done" /\ ~readErr /\ seen = Len(printed) /\ SuitePassed(printed)
      BY <2>3 DEF PassIsGraceful
    <3>2. console # "running"
      BY <3>1 DEF ReaderInv
    <3>3. printed' = printed
      BY <3>2, DoneIsFinal
    <3>4. UNCHANGED <<reader, seen, readErr>> /\ UNCHANGED <<waiter, waitErr>>
      BY <3>1, DoneIsFinal
    <3>5. SuitePassed(printed') = SuitePassed(printed)
      BY <3>3
    <3> QED
      BY <3>1, <3>3, <3>4, <3>5
  <2>6. ASSUME /\ ~ctx' /\ shutdown' # "shutdown" /\ ~readErr'
               /\ waitErr' # "docker" /\ requestErr' = "none"
               /\ console' = "zero" /\ SuitePassed(printed')
        PROVE  result' \subseteq {"close"}
    <3>1. ~ctx /\ shutdown # "shutdown" /\ requestErr = "none"
      BY <2>6, DoneIsFinal
    <3>2. reader = "done" /\ waiter = "done"
      BY <2>4, <3>1
    <3>3. ~readErr /\ waitErr # "docker"
      BY <2>6, <3>2, DoneIsFinal
    <3>4. console # "running"
      BY <3>2, <3>3 DEF ReaderInv
    <3>5. console = "zero" /\ SuitePassed(printed)
      BY <2>6, <3>4, DoneIsFinal DEF SuitePassed
    <3> QED
      BY <2>3, <3>1, <3>3, <3>5 DEF PassIsGraceful
  <2> QED
    BY <2>5, <2>6 DEF PassIsGraceful
<1> QED
  BY <1>1, <1>2

-----------------------------------------------------------------------------
(***************************************************************************)
(* In whatever order the output, the exit and the answer to the exit       *)
(* request arrive, and whatever is late, lost or forced: a run that        *)
(* returns no error is that of a console that ended by itself and passed,  *)
(* and such a console passes.                                              *)
(***************************************************************************)
THEOREM PassesAreGraceful == Spec => []PassIsGraceful
<1>1. Init => IInv
  <2> SUFFICES ASSUME Init
               PROVE  IInv
    OBVIOUS
  <2>1. TypeOK
    <3>1. printed = <<>> /\ seen = 0 /\ queue = <<>> /\ recorded = {}
      BY DEF Init
    <3>2. printed \in Seq(Markers) /\ queue \in Seq(Events) /\ seen \in 0 .. Len(printed)
      BY <3>1
    <3> QED
      BY <3>1, <3>2 DEF Init, TypeOK
  <2>2. Reported = {} /\ Batch = {}
    BY DEF Init, Reported, Batch
  <2> QED
    BY <2>1, <2>2 DEF Init, IInv, ReportsInv, ReaderInv, EndsInv, ForcedInv, PassIsGraceful, Returned, Complete
<1>2. IInv /\ [Next]_vars => IInv'
  BY TypeStep, ReportsStep, ReaderStep, EndsStep, ForcedStep, PassStep DEF IInv
<1>3. IInv => PassIsGraceful
  BY DEF IInv
<1> QED
  BY <1>1, <1>2, <1>3, PTL DEF Spec

-----------------------------------------------------------------------------
(***************************************************************************)
(* The penalties suite, for epochs of any length, any empty slots and any  *)
(* number of audited epochs.                                               *)
(*                                                                         *)
(* A reward is final once the head is two epochs further, because a vote   *)
(* is included by then or never.  Over an epoch the balance then moves by  *)
(* the reward of the epoch before the last and by the blocks in between,   *)
(* so an audit compares equal amounts exactly if the chain applies what    *)
(* it reports.  The inductive invariant places the votes of the validator  *)
(* among the epochs the test has chosen.                                   *)
(***************************************************************************)
AuditTypeOK ==
  /\ clock \in Slots /\ blocks \in SUBSET (0 .. clock) /\ 0 \in blocks
  /\ vote \in [Epochs -> Votes]
  /\ defect \in BOOLEAN /\ running \in BOOLEAN /\ audited \in BOOLEAN
  /\ since \in 0 .. clock
  /\ pc \in Steps /\ from \in Nat /\ epoch \in Nat /\ last \in Nat /\ target \in Nat

(***************************************************************************)
(* The votes of the validator: cast in their slot, included by a later     *)
(* block, and included in time if the client kept running.                 *)
(***************************************************************************)
VotesInv ==
  \A e \in Epochs :
    /\ Voted(e) => Duty(e) <= clock
    /\ Included(e) => vote[e].included \in blocks /\ Duty(e) < vote[e].included
    /\ running /\ since <= StartOf(e) /\ StartOf(e + 2) <= clock => Included(e)

(***************************************************************************)
(* The epochs the test has chosen.  While the client is stopped no vote is *)
(* of an epoch to be audited; the votes of the epochs it scans afterwards  *)
(* are those of the client it started.                                     *)
(***************************************************************************)
Scanning == {"scan", "walk", "awaitNext", "checkNext"}

OfflineInv ==
  /\ pc = "clock" => from <= Epoch(HeadSlot)
  /\ pc \in {"awaitOffline", "checkOffline"} =>
       last \in Epochs /\ epoch <= last /\ \A e \in Epochs : Voted(e) => e < epoch
  /\ pc = "checkOffline" => RewardsAvailable(Epoch(HeadSlot), last)
  /\ pc = "down" => \A e \in Epochs : Voted(e) => e < Epoch(HeadSlot)
  /\ pc = "start" => \A e \in Epochs : Voted(e) => e < from

ScanInv ==
  /\ pc \in Scanning => \A e \in Epochs : e >= from /\ Voted(e) => since <= Duty(e)
  /\ pc \in {"scan", "walk"} => from <= epoch
  /\ pc = "walk" => target <= Epoch(HeadSlot)
  /\ pc \in {"awaitNext", "checkNext"} => epoch \in Epochs /\ since <= StartOf(epoch)
  /\ pc = "checkNext" => RewardsAvailable(Epoch(HeadSlot), epoch)

ClientInv ==
  /\ pc \in {"head", "clock", "awaitOffline", "checkOffline", "down", "start"} => ~running
  /\ pc \in Scanning => running

AuditInv == AuditTypeOK /\ VotesInv /\ OfflineInv /\ ScanInv /\ ClientInv /\ AuditIsRight

-----------------------------------------------------------------------------
(***************************************************************************)
(* Every set of numbers has a least one; one that is bounded has a last.   *)
(***************************************************************************)
LEMMA LeastNumber ==
  ASSUME NEW S \in SUBSET Nat, S # {}
  PROVE  \E least \in S : \A other \in S : least <= other
<1>1. PICK least \in S : \A other \in S : ~(<<other, least>> \in OpToRel(<, Nat))
  BY NatLessThanWellFounded, WFMin
<1>2. \A other \in S : ~(other < least)
  BY <1>1 DEF OpToRel
<1>3. \A other \in S : least <= other
  BY <1>2
<1> QED
  BY <1>3

LEMMA LastBlock ==
  ASSUME NEW n \in Nat, NEW B \in SUBSET (0 .. n), B # {}
  PROVE  Max(B) \in B /\ \A b \in B : b <= Max(B)
<1> DEFINE Ages == {n - b : b \in B}
<1>1. \A b \in B : b \in Nat /\ n - b \in Nat
  OBVIOUS
<1>2. Ages \in SUBSET Nat /\ Ages # {}
  BY <1>1
<1>4. PICK age \in Ages : \A other \in Ages : age <= other
  <2> HIDE DEF Ages
  <2> QED
    BY <1>2, LeastNumber
<1>5. PICK b \in B : age = n - b
  OBVIOUS
<1>6. \A c \in B : b >= c
  <2> SUFFICES ASSUME NEW c \in B
               PROVE  b >= c
    OBVIOUS
  <2>1. n - b <= n - c
    BY <1>4, <1>5
  <2> QED
    BY <1>1, <2>1
<1>7. Max(B) \in B /\ \A c \in B : Max(B) >= c
  BY <1>6 DEF Max
<1> QED
  BY <1>1, <1>7

-----------------------------------------------------------------------------
(***************************************************************************)
(* Epochs and slots.                                                       *)
(***************************************************************************)
LEMMA SlotsOfEpoch ==
  ASSUME NEW S \in Nat \ {0}, NEW a \in Nat, NEW k \in Nat
  PROVE  a \div S \in Nat /\ (k <= a \div S <=> k * S <= a)
OBVIOUS

LEMMA StartsOfEpochs ==
  ASSUME NEW S \in Nat \ {0}, NEW j \in Nat, NEW k \in Nat
  PROVE  /\ j * S \in Nat /\ (j + 1) * S = j * S + S
         /\ j < k => (j + 1) * S <= k * S
         /\ k * S < (k + 1) * S /\ (j < k => j * S < k * S)
OBVIOUS

LEMMA EpochOfSlot ==
  ASSUME NEW slot \in Nat
  PROVE  Epoch(slot) \in Nat /\ \A k \in Nat : k <= Epoch(slot) <=> StartOf(k) <= slot
BY SlotsOfEpoch, AuditAssumption DEF Epoch, StartOf

LEMMA StartOfEpoch ==
  ASSUME NEW j \in Nat
  PROVE  /\ StartOf(j) \in Nat /\ StartOf(j + 1) = StartOf(j) + SlotsPerEpoch
         /\ \A k \in Nat : j < k => StartOf(j) + SlotsPerEpoch <= StartOf(k)
<1>1. SlotsPerEpoch \in Nat \ {0}
  BY AuditAssumption
<1>2. /\ j * SlotsPerEpoch \in Nat /\ (j + 1) * SlotsPerEpoch = j * SlotsPerEpoch + SlotsPerEpoch
      /\ \A k \in Nat : j < k => (j + 1) * SlotsPerEpoch <= k * SlotsPerEpoch
  BY <1>1, StartsOfEpochs
<1> QED
  BY <1>2 DEF StartOf

LEMMA LastOfSlots ==
  /\ \E N \in Nat : Slots = 0 .. N
  /\ \A slot \in Slots : slot \in Nat /\ Epoch(slot) \in Epochs
  /\ MaxEpoch \in Nat /\ SlotsPerEpoch \in Nat \ {0} /\ SourceWindow \in Nat \ {0}
<1>1. MaxEpoch \in Nat /\ SlotsPerEpoch \in Nat \ {0} /\ SourceWindow \in Nat \ {0} /\ MaxEpoch + 1 \in Nat
  BY AuditAssumption
<1>2. StartOf(MaxEpoch + 1) \in Nat /\ StartOf(MaxEpoch + 1) >= 1
  <2>1. StartOf(MaxEpoch) \in Nat /\ StartOf(MaxEpoch + 1) = StartOf(MaxEpoch) + SlotsPerEpoch
    BY <1>1, StartOfEpoch
  <2> QED
    BY <1>1, <2>1
<1>3. SlotsPerEpoch * (MaxEpoch + 1) = StartOf(MaxEpoch + 1)
  BY <1>1 DEF StartOf
<1>4. Slots = 0 .. (StartOf(MaxEpoch + 1) - 1)
  BY <1>3 DEF Slots
<1>5. ASSUME NEW slot \in Slots
      PROVE  slot \in Nat /\ Epoch(slot) \in Epochs
  <2>1. slot \in Nat /\ ~(StartOf(MaxEpoch + 1) <= slot)
    BY <1>2, <1>4
  <2>2. Epoch(slot) \in Nat /\ ~(MaxEpoch + 1 <= Epoch(slot))
    BY <1>1, <2>1, EpochOfSlot
  <2> QED
    BY <1>1, <2>1, <2>2 DEF Epochs
<1>6. StartOf(MaxEpoch + 1) - 1 \in Nat
  BY <1>2
<1> QED
  BY <1>1, <1>4, <1>5, <1>6

LEMMA DutyInEpoch ==
  ASSUME NEW e \in Nat
  PROVE  /\ Duty(e) \in Nat /\ StartOf(e) <= Duty(e) /\ Duty(e) < StartOf(e + 1)
         /\ Epoch(Duty(e)) = e
<1>1. StartOf(e) \in Nat /\ StartOf(e + 1) = StartOf(e) + SlotsPerEpoch
  BY StartOfEpoch
<1>2. e % SlotsPerEpoch \in 0 .. SlotsPerEpoch - 1
  BY LastOfSlots
<1>3. Duty(e) \in Nat /\ StartOf(e) <= Duty(e) /\ Duty(e) < StartOf(e + 1)
  BY <1>1, <1>2, LastOfSlots DEF Duty
<1>4. Epoch(Duty(e)) \in Nat /\ e <= Epoch(Duty(e)) /\ ~(e + 1 <= Epoch(Duty(e)))
  <2>1. e + 1 \in Nat /\ ~(StartOf(e + 1) <= Duty(e))
    BY <1>1, <1>3, LastOfSlots
  <2> QED
    BY <1>3, <2>1, EpochOfSlot
<1> QED
  BY <1>3, <1>4

-----------------------------------------------------------------------------
(***************************************************************************)
(* Sums: the ones of the numbers of a list exist, and are numbers.         *)
(***************************************************************************)
SumsOf(list, sums, n) == sums = [k \in 0 .. n |-> IF k = 0 THEN 0 ELSE sums[k - 1] + list[k]]

LEMMA SumsExist ==
  ASSUME NEW n \in Nat, NEW list
  PROVE  \E sums : SumsOf(list, sums, n)
<1> DEFINE Wrong == {k \in 0 .. n : ~\E sums : SumsOf(list, sums, k)}
<1>1. ASSUME Wrong # {}
      PROVE  FALSE
  <2>1. PICK k \in Wrong : \A other \in Wrong : k <= other
    <3>1. Wrong \in SUBSET Nat
      OBVIOUS
    <3> HIDE DEF Wrong
    <3> QED
      BY <1>1, <3>1, LeastNumber
  <2>2. k # 0
    <3>1. SumsOf(list, [j \in 0 .. 0 |-> 0], 0)
      BY DEF SumsOf
    <3> QED
      BY <3>1
  <2>3. k - 1 \in 0 .. n /\ k \in 0 .. n /\ k - 1 \notin Wrong
    BY <2>1, <2>2
  <2>4. PICK less : SumsOf(list, less, k - 1)
    BY <2>3
  <2> DEFINE sums == [j \in 0 .. k |-> IF j = k THEN less[k - 1] + list[k] ELSE less[j]]
  <2>5. ASSUME NEW j \in 0 .. k
        PROVE  sums[j] = IF j = 0 THEN 0 ELSE sums[j - 1] + list[j]
    <3>1. CASE j = k
      BY <2>2, <2>3, <3>1
    <3>2. CASE j # k
      <4>1. j \in 0 .. k - 1 /\ sums[j] = less[j]
        BY <2>3, <3>2
      <4>2. less[j] = IF j = 0 THEN 0 ELSE less[j - 1] + list[j]
        BY <2>4, <4>1 DEF SumsOf
      <4>3. j # 0 => sums[j - 1] = less[j - 1]
        BY <2>3, <4>1
      <4> QED
        BY <4>1, <4>2, <4>3
    <3> QED
      BY <3>1, <3>2
  <2>6. SumsOf(list, sums, k)
    BY <2>5 DEF SumsOf
  <2> QED
    BY <2>6
<1>2. n \notin Wrong /\ n \in 0 .. n
  BY <1>1
<1> QED
  BY <1>2

LEMMA SumsAreNumbers ==
  ASSUME NEW n \in Nat, NEW list, \A k \in 1 .. n : list[k] \in Int, NEW sums, SumsOf(list, sums, n)
  PROVE  /\ sums[0] = 0 /\ \A k \in 0 .. n : sums[k] \in Int
         /\ \A k \in 1 .. n : sums[k] = sums[k - 1] + list[k]
<1> DEFINE Wrong == {k \in 0 .. n : sums[k] \notin Int}
<1>1. ASSUME Wrong # {}
      PROVE  FALSE
  <2>2. PICK k \in Wrong : \A other \in Wrong : k <= other
    <3>1. Wrong \in SUBSET Nat
      OBVIOUS
    <3> HIDE DEF Wrong
    <3> QED
      BY <1>1, <3>1, LeastNumber
  <2>3. k \in 0 .. n /\ sums[k] = IF k = 0 THEN 0 ELSE sums[k - 1] + list[k]
    BY DEF SumsOf
  <2>4. k # 0
    BY <2>3
  <2>5. k - 1 \in 0 .. n /\ k - 1 \notin Wrong /\ k \in 1 .. n
    BY <2>2, <2>3, <2>4
  <2>6. sums[k - 1] \in Int /\ list[k] \in Int
    BY <2>5
  <2>7. sums[k] \in Int
    BY <2>3, <2>4, <2>6
  <2> QED
    BY <2>7
<1>2. sums[0] = 0
  BY DEF SumsOf
<1>3. \A k \in 1 .. n : sums[k] = sums[k - 1] + list[k]
  BY DEF SumsOf
<1> QED
  BY <1>1, <1>2, <1>3

(***************************************************************************)
(* The balance, slot by slot.                                              *)
(***************************************************************************)
LEMMA AmountsAreNumbers ==
  /\ \A e : Total(Reward(e)) \in Int /\ AppliedReward(e) \in Int
  /\ \A slot \in Nat : BlockBalanceChange(slot) \in Int /\ SlotChange(slot) \in Int
<1>1. ASSUME NEW e
      PROVE  Reward(e).source \in Int /\ Reward(e).target \in Int /\ Reward(e).head \in Int
  BY DEF Reward, SourceReward, TargetReward, HeadReward, MissedSource, MissedTarget
<1>2. \A e : Total(Reward(e)) \in Int /\ AppliedReward(e) \in Int
  BY <1>1 DEF Total, AppliedReward
<1>3. \A slot \in Nat : BlockBalanceChange(slot) \in Int
  BY DEF BlockBalanceChange
<1> QED
  BY <1>2, <1>3 DEF SlotChange

LEMMA BalanceAdds ==
  /\ \A slot \in Slots : Balance[slot] \in Int
  /\ \A slot \in Slots \ {0} : Balance[slot] = Balance[slot - 1] + SlotChange(slot)
<1>1. PICK N \in Nat : Slots = 0 .. N
  BY LastOfSlots
<1> DEFINE list == [k \in 1 .. N |-> SlotChange(k)]
<1>2. \A k \in 1 .. N : list[k] \in Int
  BY AmountsAreNumbers
<1>3. \A sums : SumsOf(list, sums, N) <=>
                sums = [k \in Slots |-> IF k = 0 THEN 0 ELSE sums[k - 1] + SlotChange(k)]
  <2>1. \A k \in Slots : k # 0 => list[k] = SlotChange(k)
    BY <1>1
  <2> HIDE DEF list
  <2> QED
    BY <1>1, <2>1 DEF SumsOf
<1> HIDE DEF list
<1>4. SumsOf(list, Balance, N)
  <2>1. PICK sums : SumsOf(list, sums, N)
    BY SumsExist
  <2>2. sums = [k \in Slots |-> IF k = 0 THEN 0 ELSE sums[k - 1] + SlotChange(k)]
    BY <1>3, <2>1
  <2>3. Balance = [k \in Slots |-> IF k = 0 THEN 0 ELSE Balance[k - 1] + SlotChange(k)]
    BY <2>2 DEF Balance
  <2> QED
    BY <1>3, <2>3
<1>5. /\ \A k \in 0 .. N : Balance[k] \in Int
      /\ \A k \in 1 .. N : Balance[k] = Balance[k - 1] + list[k]
  BY <1>2, <1>4, SumsAreNumbers
<1> QED
  BY <1>1, <1>5 DEF list

LEMMA BlockChangesAdd ==
  ASSUME NEW e \in Nat
  PROVE  \E change :
           /\ BlockBalanceChanges(e) = change[SlotsPerEpoch] /\ change[0] = 0
           /\ \A n \in 0 .. SlotsPerEpoch : change[n] \in Int
           /\ \A n \in 1 .. SlotsPerEpoch :
                change[n] = change[n - 1] + BlockBalanceChange(StartOf(e) + n)
<1>0. SlotsPerEpoch \in Nat /\ StartOf(e) \in Nat
  BY LastOfSlots, StartOfEpoch
<1> DEFINE list == [n \in 1 .. SlotsPerEpoch |-> BlockBalanceChange(StartOf(e) + n)]
           Changes(c) == c = [n \in 0 .. SlotsPerEpoch |->
                                IF n = 0 THEN 0 ELSE c[n - 1] + BlockBalanceChange(StartOf(e) + n)]
           change == CHOOSE c : Changes(c)
<1>1. \A n \in 1 .. SlotsPerEpoch : list[n] = BlockBalanceChange(StartOf(e) + n) /\ list[n] \in Int
  BY <1>0, AmountsAreNumbers
<1>2. BlockBalanceChanges(e) = change[SlotsPerEpoch]
  BY DEF BlockBalanceChanges
<1> HIDE DEF list
<1>3. \A c : SumsOf(list, c, SlotsPerEpoch) <=> Changes(c)
  BY <1>0, <1>1 DEF SumsOf
<1>4. SumsOf(list, change, SlotsPerEpoch)
  <2>1. \E c : Changes(c)
    BY <1>0, <1>3, SumsExist
  <2> HIDE DEF Changes
  <2> QED
    BY <1>3, <2>1
<1> HIDE DEF change
<1>5. /\ change[0] = 0 /\ \A n \in 0 .. SlotsPerEpoch : change[n] \in Int
      /\ \A n \in 1 .. SlotsPerEpoch : change[n] = change[n - 1] + list[n]
  BY <1>0, <1>1, <1>4, SumsAreNumbers
<1> QED
  BY <1>1, <1>2, <1>5

(***************************************************************************)
(* Over an epoch the balance moves by the rewards applied at its end and   *)
(* by its blocks.                                                          *)
(***************************************************************************)
LEMMA BalanceMoves ==
  ASSUME NEW e \in Epochs, StartOf(e + 2) \in Slots
  PROVE  /\ BalanceChange(e) = AppliedReward(e) + BlockBalanceChanges(e + 1)
         /\ BlockBalanceChanges(e + 1) \in Int
<1> DEFINE s == StartOf(e + 1)
           Applied(n) == IF n = SlotsPerEpoch THEN AppliedReward(e) ELSE 0
<1>0. e \in Nat /\ e + 1 \in Nat /\ e + 2 \in Nat /\ SlotsPerEpoch \in Nat \ {0}
  BY LastOfSlots DEF Epochs
<1>1. s \in Nat /\ StartOf(e + 2) = s + SlotsPerEpoch
  <2>1. StartOf((e + 1) + 1) = StartOf(e + 1) + SlotsPerEpoch /\ (e + 1) + 1 = e + 2
    BY <1>0, StartOfEpoch
  <2> QED
    BY <1>0, <2>1, StartOfEpoch
<1>2. PICK change :
        /\ BlockBalanceChanges(e + 1) = change[SlotsPerEpoch] /\ change[0] = 0
        /\ \A n \in 0 .. SlotsPerEpoch : change[n] \in Int
        /\ \A n \in 1 .. SlotsPerEpoch : change[n] = change[n - 1] + BlockBalanceChange(s + n)
  BY <1>0, BlockChangesAdd
<1> HIDE DEF s
<1>3. \A n \in 0 .. SlotsPerEpoch : s + n \in Slots
  <2>1. PICK N \in Nat : Slots = 0 .. N
    BY LastOfSlots
  <2>2. s + SlotsPerEpoch <= N
    BY <1>0, <1>1, <2>1
  <2> QED
    BY <1>0, <1>1, <2>1, <2>2
<1>4. ASSUME NEW n \in 1 .. SlotsPerEpoch
      PROVE  SlotChange(s + n) = BlockBalanceChange(s + n) + Applied(n)
  <2>1. Epoch(s + n) \in Nat /\ e + 1 <= Epoch(s + n) /\ s + n \in Nat
    BY <1>0, <1>1, EpochOfSlot DEF s
  <2>2. CASE n = SlotsPerEpoch
    <3>1. s + n = StartOf(e + 2)
      BY <1>1, <2>2
    <3>2. e + 2 <= Epoch(s + n)
      BY <1>0, <2>1, <3>1, EpochOfSlot
    <3>3. ~(e + 3 <= Epoch(s + n))
      <4>1. StartOf((e + 2) + 1) = StartOf(e + 2) + SlotsPerEpoch /\ (e + 2) + 1 = e + 3
        BY <1>0, StartOfEpoch
      <4>2. ~(StartOf(e + 3) <= s + n)
        BY <1>0, <2>1, <3>1, <4>1
      <4> QED
        BY <1>0, <2>1, <4>2, EpochOfSlot
    <3>4. Epoch(s + n) = e + 2 /\ (e + 2) - 2 = e /\ e + 2 >= 2
      BY <1>0, <2>1, <3>2, <3>3
    <3> QED
      BY <2>2, <3>1, <3>4 DEF SlotChange
  <2>3. CASE n # SlotsPerEpoch
    <3>1. ~(StartOf(e + 2) <= s + n)
      BY <1>0, <1>1, <2>3
    <3>2. ~(e + 2 <= Epoch(s + n))
      BY <1>0, <2>1, <3>1, EpochOfSlot
    <3>3. Epoch(s + n) = e + 1
      BY <1>0, <2>1, <3>2
    <3>4. s + n # StartOf(Epoch(s + n))
      BY <1>1, <3>3 DEF s
    <3> QED
      BY <2>3, <3>4 DEF SlotChange
  <2> QED
    BY <2>2, <2>3
<1>5. AppliedReward(e) \in Int /\ \A n \in 0 .. SlotsPerEpoch : Applied(n) \in Int /\ BlockBalanceChange(s + n) \in Int
  BY <1>0, <1>1, AmountsAreNumbers
<1>6. Applied(0) = 0 /\ \A n \in 1 .. SlotsPerEpoch : Applied(n - 1) = 0
  BY <1>0
<1> HIDE DEF Applied
<1>7. \A n \in 0 .. SlotsPerEpoch : Balance[s + n] \in Int
  BY <1>3, BalanceAdds
<1>8. ASSUME NEW n \in 1 .. SlotsPerEpoch
      PROVE  Balance[s + n] = Balance[s + (n - 1)] + (BlockBalanceChange(s + n) + Applied(n))
  <2>1. s + n \in Slots \ {0} /\ (s + n) - 1 = s + (n - 1)
    BY <1>0, <1>1, <1>3
  <2> QED
    BY <1>4, <2>1, BalanceAdds
<1> DEFINE Wrong == {n \in 0 .. SlotsPerEpoch : Balance[s + n] # Balance[s] + change[n] + Applied(n)}
<1>9. ASSUME Wrong # {}
      PROVE  FALSE
  <2>1. PICK n \in Wrong : \A other \in Wrong : n <= other
    <3>1. Wrong \in SUBSET Nat
      OBVIOUS
    <3> HIDE DEF Wrong
    <3> QED
      BY <1>9, <3>1, LeastNumber
  <2>2. n # 0
    <3>1. s + 0 = s /\ 0 \in 0 .. SlotsPerEpoch
      BY <1>0, <1>1
    <3>2. Balance[s + 0] \in Int
      BY <1>7, <3>1
    <3> QED
      BY <1>2, <1>6, <3>1, <3>2
  <2>3. n \in 1 .. SlotsPerEpoch /\ n - 1 \in 0 .. SlotsPerEpoch /\ n - 1 \notin Wrong
    BY <1>0, <2>1, <2>2
  <2>4. Balance[s + (n - 1)] = Balance[s] + change[n - 1] + Applied(n - 1)
    BY <2>3
  <2>5. Balance[s + n] = Balance[s + (n - 1)] + (BlockBalanceChange(s + n) + Applied(n))
    BY <1>8, <2>3
  <2>6. change[n] = change[n - 1] + BlockBalanceChange(s + n) /\ Applied(n - 1) = 0
    BY <1>2, <1>6, <2>3
  <2>7. /\ change[n - 1] \in Int /\ BlockBalanceChange(s + n) \in Int /\ Applied(n) \in Int
        /\ Balance[s] \in Int
    <3>1. s + 0 = s /\ Balance[s + 0] \in Int
      BY <1>0, <1>1, <1>7
    <3> QED
      BY <1>2, <1>5, <2>3, <3>1
  <2>8. Balance[s + n] = Balance[s] + change[n] + Applied(n)
    BY ONLY <2>4, <2>5, <2>6, <2>7
  <2> QED
    BY <2>8
<1>10. Balance[s + SlotsPerEpoch] = Balance[s] + change[SlotsPerEpoch] + Applied(SlotsPerEpoch)
  <2>1. SlotsPerEpoch \in 0 .. SlotsPerEpoch /\ SlotsPerEpoch \notin Wrong
    BY <1>0, <1>9
  <2> QED
    BY <2>1
<1>11. BalanceChange(e) = Balance[s + SlotsPerEpoch] - Balance[s]
  BY <1>1 DEF BalanceChange, BalanceAt, s
<1>12. /\ Applied(SlotsPerEpoch) = AppliedReward(e)
       /\ Balance[s] \in Int /\ change[SlotsPerEpoch] \in Int
  <2>1. s + 0 = s /\ Balance[s + 0] \in Int /\ SlotsPerEpoch \in 0 .. SlotsPerEpoch
    BY <1>0, <1>1, <1>7
  <2> QED
    BY <1>2, <2>1 DEF Applied
<1> QED
  BY <1>2, <1>5, <1>10, <1>11, <1>12

-----------------------------------------------------------------------------
(***************************************************************************)
(* The head, and the votes of an epoch.                                    *)
(***************************************************************************)
LEMMA HeadFacts ==
  ASSUME AuditTypeOK
  PROVE  /\ HeadSlot \in blocks /\ HeadSlot \in Slots /\ HeadSlot <= clock
         /\ \A b \in blocks : b <= HeadSlot
         /\ Epoch(HeadSlot) \in Nat /\ Epoch(clock) \in Nat /\ Epoch(HeadSlot) <= Epoch(clock)
<1>1. PICK N \in Nat : Slots = 0 .. N
  BY LastOfSlots
<1>2. clock \in Nat /\ clock <= N /\ blocks \in SUBSET (0 .. clock) /\ blocks # {}
  BY <1>1 DEF AuditTypeOK
<1>3. HeadSlot \in blocks /\ \A b \in blocks : b <= HeadSlot
  BY <1>2, LastBlock DEF HeadSlot
<1>4. HeadSlot \in Nat /\ HeadSlot \in Slots /\ HeadSlot <= clock
  BY <1>1, <1>2, <1>3
<1>5. Epoch(HeadSlot) \in Nat /\ Epoch(clock) \in Nat
  BY <1>2, <1>4, EpochOfSlot
<1>6. StartOf(Epoch(HeadSlot)) <= HeadSlot
  BY <1>4, <1>5, EpochOfSlot
<1>7. StartOf(Epoch(HeadSlot)) <= clock
  BY <1>2, <1>4, <1>5, <1>6, StartOfEpoch
<1>8. Epoch(HeadSlot) <= Epoch(clock)
  BY <1>2, <1>5, <1>7, EpochOfSlot
<1> QED
  BY <1>3, <1>4, <1>5, <1>8

LEMMA HeadIsLast ==
  AuditTypeOK => HeadSlot \in Slots /\ (\A b \in blocks : b <= HeadSlot) /\ Epoch(HeadSlot) \in Nat
BY HeadFacts

LEMMA HeadGrows ==
  ASSUME AuditTypeOK, AuditTypeOK', blocks \subseteq blocks'
  PROVE  Epoch(HeadSlot) \in Nat /\ Epoch(HeadSlot)' \in Nat /\ Epoch(HeadSlot) <= Epoch(HeadSlot)'
<1>1. HeadSlot \in blocks /\ HeadSlot \in Nat /\ Epoch(HeadSlot) \in Nat
  BY HeadFacts, LastOfSlots
<1>2. /\ HeadSlot' \in Slots /\ \A b \in blocks' : b <= HeadSlot'
      /\ Epoch(HeadSlot)' \in Nat
  <2>1. (AuditTypeOK => HeadSlot \in Slots /\ (\A b \in blocks : b <= HeadSlot) /\ Epoch(HeadSlot) \in Nat)'
    BY HeadIsLast, PTL
  <2> QED
    BY <2>1
<1>3. HeadSlot' \in Nat /\ HeadSlot <= HeadSlot'
  BY <1>1, <1>2, LastOfSlots
<1>4. StartOf(Epoch(HeadSlot)) <= HeadSlot /\ StartOf(Epoch(HeadSlot)) \in Nat
  BY <1>1, EpochOfSlot, StartOfEpoch
<1>5. StartOf(Epoch(HeadSlot)) <= HeadSlot'
  <2>1. \A a, b, c \in Nat : a <= b /\ b <= c => a <= c
    OBVIOUS
  <2> QED
    BY <1>1, <1>3, <1>4, <2>1
<1>6. Epoch(HeadSlot)' = Epoch(HeadSlot')
  BY DEF Epoch
<1>7. Epoch(HeadSlot) <= Epoch(HeadSlot')
  BY <1>1, <1>3, <1>5, EpochOfSlot
<1> QED
  BY <1>1, <1>2, <1>6, <1>7

LEMMA ChainStays ==
  ASSUME UNCHANGED chain
  PROVE  /\ HeadSlot' = HeadSlot /\ Epoch(HeadSlot)' = Epoch(HeadSlot) /\ Epoch(clock)' = Epoch(clock)
         /\ \A e : Voted(e)' = Voted(e) /\ Included(e)' = Included(e)
BY DEF chain, HeadSlot, Epoch, Voted, Included

\* What can be read of an epoch lies behind the clock.
LEMMA AvailableIsPast ==
  ASSUME AuditTypeOK, NEW e \in Nat, RewardsAvailable(Epoch(HeadSlot), e)
  PROVE  /\ StartOf(e + 2) \in Slots /\ StartOf(e + 2) <= clock
         /\ Duty(e) < clock /\ ~(Epoch(clock) <= e + 1)
<1>1. /\ HeadSlot \in Nat /\ clock \in Nat /\ HeadSlot <= clock
      /\ Epoch(HeadSlot) \in Nat /\ Epoch(clock) \in Nat /\ Epoch(HeadSlot) <= Epoch(clock)
  BY HeadFacts, LastOfSlots DEF AuditTypeOK
<1>2. e + 2 <= Epoch(HeadSlot) /\ e + 1 \in Nat /\ e + 2 \in Nat
  BY DEF RewardsAvailable
<1>3. StartOf(e + 2) <= HeadSlot /\ StartOf(e + 2) \in Nat
  BY <1>1, <1>2, EpochOfSlot, StartOfEpoch
<1>4. PICK N \in Nat : Slots = 0 .. N
  BY LastOfSlots
<1>5. HeadSlot <= N
  BY <1>4, HeadFacts
<1>6. Duty(e) < StartOf(e + 1) /\ Duty(e) \in Nat
  BY DutyInEpoch
<1>7. StartOf(e + 1) \in Nat /\ SlotsPerEpoch \in Nat /\ StartOf(e + 1) + SlotsPerEpoch <= StartOf(e + 2)
  BY <1>2, StartOfEpoch, LastOfSlots
<1> QED
  BY <1>1, <1>2, <1>3, <1>4, <1>5, <1>6, <1>7

-----------------------------------------------------------------------------
(***************************************************************************)
(* The audit of one epoch: it passes if the reward is as expected, and     *)
(* the chain applies what it reports.                                      *)
(***************************************************************************)
LEMMA AuditMeans ==
  ASSUME AuditTypeOK, NEW e \in Epochs, RewardsAvailable(Epoch(HeadSlot), e), NEW expected
  PROVE  AuditPasses(e, expected) <=> Reward(e) = expected /\ ~defect
<1>1. e \in Nat
  BY LastOfSlots DEF Epochs
<1>2. StartOf(e + 2) \in Slots
  BY <1>1, AvailableIsPast
<1>3. /\ BalanceChange(e) = AppliedReward(e) + BlockBalanceChanges(e + 1)
      /\ BlockBalanceChanges(e + 1) \in Int
  BY <1>2, BalanceMoves
<1>4. Total(Reward(e)) \in Int
  BY AmountsAreNumbers
<1>5. defect \in BOOLEAN
  BY DEF AuditTypeOK
<1>6. AppliedReward(e) = Total(Reward(e)) + (IF defect THEN 1 ELSE 0)
  BY DEF AppliedReward
<1>7. BalanceChange(e) = Total(Reward(e)) + BlockBalanceChanges(e + 1) <=> ~defect
  BY <1>3, <1>4, <1>5, <1>6
<1> QED
  BY <1>7 DEF AuditPasses

\* An epoch without a vote.
LEMMA MissedIsReward ==
  ASSUME NEW e, ~Voted(e)
  PROVE  Reward(e) = Missed
<1>1. ~Included(e)
  BY DEF Voted, Included, NoVote
<1> QED
  BY <1>1 DEF Reward, Missed

\* The block at a slot or before it is the last one up to it.
LEMMA RootIsLast ==
  ASSUME AuditTypeOK, NEW slot \in Nat
  PROVE  RootAtOrBefore(slot) = Max(blocks \cap 0 .. slot)
<1> DEFINE B == blocks \cap 0 .. slot
           backs == {back \in 0 .. slot : slot - back \in blocks}
<1>1. B \in SUBSET (0 .. slot) /\ 0 \in B
  BY DEF AuditTypeOK
<1>2. Max(B) \in B /\ \A b \in B : b <= Max(B)
  BY <1>1, LastBlock
<1> DEFINE m == Max(B)
<1>3. m \in 0 .. slot /\ m \in blocks /\ m \in Nat
  BY <1>1, <1>2
<1>4. \A back \in backs : slot - back \in B
  OBVIOUS
<1> HIDE DEF m
<1>5. slot - m \in backs
  BY <1>3
<1>6. \A back \in backs : slot - m <= back
  <2> SUFFICES ASSUME NEW back \in backs
               PROVE  slot - m <= back
    OBVIOUS
  <2>1. slot - back <= m /\ back \in Nat
    BY <1>2, <1>4 DEF m
  <2> QED
    BY <1>3, <2>1
<1>7. \A x \in backs : x \in Int
  OBVIOUS
<1> HIDE DEF backs
<1>8. Min(backs) \in backs /\ \A back \in backs : Min(backs) <= back
  BY <1>5, <1>6 DEF Min
<1>9. Min(backs) = slot - m
  BY <1>5, <1>6, <1>7, <1>8
<1>10. RootAtOrBefore(slot) = slot - Min(backs)
  BY DEF RootAtOrBefore, backs
<1>11. RootAtOrBefore(slot) = m
  BY <1>3, <1>9, <1>10
<1> QED
  BY <1>11 DEF m

\* What the suite reads off the blocks of an included vote is its reward.
LEMMA TimelyIsReward ==
  ASSUME AuditTypeOK, VotesInv, NEW e \in Epochs, Included(e)
  PROVE  Reward(e) = TimelyReward(TimelyVotes(e))
<1> DEFINE including == {delay \in 1 .. SourceWindow :
                           Duty(e) + delay \in blocks /\ vote[e].included = Duty(e) + delay}
           delay == InclusionDelay(e)
<1>0. e \in Nat /\ Duty(e) \in Nat /\ SourceWindow \in Nat \ {0}
  BY LastOfSlots, DutyInEpoch DEF Epochs
<1>1. vote[e].included \in blocks /\ Duty(e) < vote[e].included /\ vote[e].included \in Nat
  <2>1. vote[e].included \in blocks /\ Duty(e) < vote[e].included
    BY DEF VotesInv
  <2>2. \A b \in blocks : b \in Nat
    BY DEF AuditTypeOK
  <2> QED
    BY <2>1, <2>2
<1>2. delay \in Nat \ {0} /\ vote[e].included = Duty(e) + delay
  BY <1>0, <1>1 DEF InclusionDelay
<1>3. \A d \in 1 .. SourceWindow : d \in including <=> d = delay
  BY <1>0, <1>1, <1>2
<1>4. including # {} <=> delay <= SourceWindow
  <2>1. delay <= SourceWindow => delay \in including
    BY <1>0, <1>2, <1>3
  <2>2. \A d \in including : d = delay /\ d <= SourceWindow
    BY <1>0, <1>3
  <2> QED
    BY <2>1, <2>2
<1>5. 1 \in including <=> delay = 1
  BY <1>0, <1>3
<1>6. VotedHead(e) <=> HeadCorrect(e)
  BY <1>0, RootIsLast DEF VotedHead, HeadCorrect
<1>7. TimelyVotes(e) = [source |-> including # {}, head |-> 1 \in including /\ VotedHead(e)]
  BY DEF TimelyVotes
<1> HIDE DEF including
<1>8. TimelyVotes(e).source = (including # {}) /\ TimelyVotes(e).head = (1 \in including /\ VotedHead(e))
  BY <1>7
<1>9. TimelyReward(TimelyVotes(e)) =
        [source |-> IF delay <= SourceWindow THEN SourceReward ELSE 0 - MissedSource,
         target |-> TargetReward,
         head   |-> IF delay = 1 /\ HeadCorrect(e) THEN HeadReward ELSE 0]
  BY <1>4, <1>5, <1>6, <1>8, Zenon DEF TimelyReward
<1>10. Reward(e) =
        [source |-> IF delay <= SourceWindow THEN SourceReward ELSE 0 - MissedSource,
         target |-> TargetReward,
         head   |-> IF delay = 1 /\ HeadCorrect(e) THEN HeadReward ELSE 0]
  BY Zenon DEF Reward
<1> QED
  BY <1>9, <1>10

-----------------------------------------------------------------------------
(***************************************************************************)
(* The chain and the client move; the test sees no vote it did not expect. *)
(***************************************************************************)
LEMMA ChainStep ==
  ASSUME AuditInv, UNCHANGED <<client, test>>, UNCHANGED defect,
         AuditTypeOK', VotesInv', blocks \subseteq blocks',
         \A e \in Epochs : Voted(e)' => Voted(e) \/ (running /\ since <= Duty(e))
  PROVE  AuditInv'
<1>1. /\ UNCHANGED <<running, since, pc, from, epoch, last, target, audited>>
      /\ AuditTypeOK /\ VotesInv /\ OfflineInv /\ ScanInv /\ ClientInv /\ AuditIsRight
  BY DEF AuditInv, client, test
<1>2. Epoch(HeadSlot) \in Nat /\ Epoch(HeadSlot)' \in Nat /\ Epoch(HeadSlot) <= Epoch(HeadSlot)'
  BY <1>1, HeadGrows
<1>3. /\ from \in Nat /\ epoch \in Nat /\ last \in Nat /\ target \in Nat
      /\ \A e \in Epochs : e \in Nat
  BY <1>1, LastOfSlots DEF AuditTypeOK, Epochs
<1> DEFINE before == Epoch(HeadSlot)
           after == Epoch(HeadSlot)'
<1>4. before \in Nat /\ after \in Nat /\ before <= after
  BY <1>2
<1>5. \A e \in Nat : /\ RewardsAvailable(before, e) => RewardsAvailable(after, e)
                     /\ e <= before => e <= after
                     /\ e < before => e < after
  BY <1>4 DEF RewardsAvailable
<1> HIDE DEF before, after
<1>6. OfflineInv'
  <2>1. pc' = "clock" => from' <= after
    BY <1>1, <1>3, <1>5 DEF OfflineInv, before
  <2>2. pc' \in {"awaitOffline", "checkOffline"} =>
          last' \in Epochs /\ epoch' <= last' /\ \A e \in Epochs : Voted(e)' => e < epoch'
    BY <1>1 DEF OfflineInv, ClientInv
  <2>3. pc' = "checkOffline" => RewardsAvailable(after, last')
    BY <1>1, <1>3, <1>5 DEF OfflineInv, before
  <2>4. pc' = "down" => \A e \in Epochs : Voted(e)' => e < after
    BY <1>1, <1>3, <1>5 DEF OfflineInv, ClientInv, before
  <2>5. pc' = "start" => \A e \in Epochs : Voted(e)' => e < from'
    BY <1>1 DEF OfflineInv, ClientInv
  <2>6. pc' = "checkOffline" => RewardsAvailable(Epoch(HeadSlot), last)'
    BY <2>3 DEF RewardsAvailable, after
  <2> QED
    BY <2>1, <2>2, <2>4, <2>5, <2>6 DEF OfflineInv, after
<1>7. ScanInv'
  <2>1. pc' \in Scanning => \A e \in Epochs : e >= from' /\ Voted(e)' => since' <= Duty(e)
    BY <1>1 DEF ScanInv
  <2>2. pc' = "walk" => target' <= after
    BY <1>1, <1>3, <1>5 DEF ScanInv, before
  <2>3. pc' = "checkNext" => RewardsAvailable(after, epoch')
    BY <1>1, <1>3, <1>5 DEF ScanInv, before
  <2>4. pc' = "checkNext" => RewardsAvailable(Epoch(HeadSlot), epoch)'
    BY <2>3 DEF RewardsAvailable, after
  <2>5. /\ pc' \in {"scan", "walk"} => from' <= epoch'
        /\ pc' \in {"awaitNext", "checkNext"} => epoch' \in Epochs /\ since' <= StartOf(epoch')
    BY <1>1 DEF ScanInv
  <2>6. \A e \in Epochs : Duty(e)' = Duty(e)
    BY DEF Duty, StartOf
  <2>7. StartOf(epoch)' = StartOf(epoch')
    BY DEF StartOf
  <2> QED
    BY <2>1, <2>2, <2>4, <2>5, <2>6, <2>7 DEF ScanInv, after
<1>8. ClientInv' /\ AuditIsRight'
  BY <1>1 DEF ClientInv, AuditIsRight
<1> QED
  BY <1>6, <1>7, <1>8 DEF AuditInv

LEMMA TickStep ==
  ASSUME AuditInv, Tick
  PROVE  AuditInv'
<1>1. /\ AuditTypeOK /\ VotesInv /\ clock \in Nat /\ clock + 1 \in Slots /\ clock' = clock + 1
      /\ UNCHANGED <<blocks, vote, defect, running, since, pc, from, epoch, last, target, audited>>
      /\ UNCHANGED <<client, test>>
  BY LastOfSlots DEF AuditInv, AuditTypeOK, Tick, client, test
<1>2. AuditTypeOK'
  <2>1. clock' \in Slots /\ \A x \in 0 .. clock : x \in 0 .. clock + 1
    BY <1>1
  <2>2. blocks' \in SUBSET (0 .. clock') /\ since' \in 0 .. clock'
    BY <1>1, <2>1 DEF AuditTypeOK
  <2> QED
    BY <1>1, <2>1, <2>2 DEF AuditTypeOK
<1>3. \A e : Voted(e)' = Voted(e) /\ Included(e)' = Included(e)
  BY <1>1 DEF Voted, Included
<1>4. ASSUME NEW e \in Epochs, running, since <= StartOf(e), StartOf(e + 2) <= clock + 1,
             ~(StartOf(e + 2) <= clock)
      PROVE  Included(e)
  <2>1. e \in Nat /\ e + 1 \in Nat /\ e + 2 \in Nat /\ (e + 1) + 1 = e + 2
    BY LastOfSlots DEF Epochs
  <2>2. /\ StartOf(e + 1) \in Nat /\ StartOf(e + 2) \in Nat /\ SlotsPerEpoch \in Nat \ {0}
        /\ StartOf(e + 2) = StartOf(e + 1) + SlotsPerEpoch
    BY <2>1, StartOfEpoch, LastOfSlots
  <2>3. StartOf(e + 2) = clock + 1 /\ StartOf(e + 1) <= clock
    BY <1>1, <1>4, <2>2
  <2>4. Epoch(clock) \in Nat /\ e + 1 <= Epoch(clock) /\ ~(e + 2 <= Epoch(clock))
    BY <1>1, <1>4, <2>1, <2>3, EpochOfSlot
  <2>5. Epoch(clock) = e + 1 /\ Epoch(clock) + 1 = e + 2 /\ Epoch(clock) > 0 /\ Epoch(clock) - 1 = e
    BY <2>1, <2>4
  <2>6. HealthyBefore(e)
    BY <2>3, <2>5 DEF Tick
  <2> QED
    BY <1>4, <2>6 DEF HealthyBefore
<1>5. VotesInv'
  <2> SUFFICES ASSUME NEW e \in Epochs
               PROVE  /\ Voted(e)' => Duty(e)' <= clock'
                      /\ Included(e)' => vote'[e].included \in blocks' /\ Duty(e)' < vote'[e].included
                      /\ running' /\ since' <= StartOf(e)' /\ StartOf(e + 2)' <= clock' => Included(e)'
    BY DEF VotesInv
  <2>1. Duty(e)' = Duty(e) /\ StartOf(e)' = StartOf(e) /\ StartOf(e + 2)' = StartOf(e + 2)
    BY DEF Duty, StartOf
  <2>2. Duty(e) \in Nat
    <3>1. e \in Nat
      BY LastOfSlots DEF Epochs
    <3> QED
      BY <3>1, DutyInEpoch
  <2>3. Voted(e) => Duty(e) <= clock + 1
    BY <1>1, <2>2 DEF VotesInv
  <2>4. Included(e) => vote[e].included \in blocks /\ Duty(e) < vote[e].included
    BY <1>1 DEF VotesInv
  <2>5. running /\ since <= StartOf(e) /\ StartOf(e + 2) <= clock + 1 => Included(e)
    BY <1>1, <1>4 DEF VotesInv
  <2> QED
    BY <1>1, <1>3, <2>1, <2>3, <2>4, <2>5
<1>6. blocks \subseteq blocks' /\ \A e \in Epochs : Voted(e)' => Voted(e) \/ (running /\ since <= Duty(e))
  BY <1>1, <1>3
<1> QED
  BY <1>1, <1>2, <1>5, <1>6, ChainStep

LEMMA VoteStep ==
  ASSUME AuditInv, Vote
  PROVE  AuditInv'
<1>a. Epoch(clock) \in Epochs
  BY LastOfSlots DEF AuditInv, AuditTypeOK
<1>b. PICK E \in Epochs : E = Epoch(clock)
  BY <1>a
<1>1. /\ AuditTypeOK /\ VotesInv /\ clock \in Slots
      /\ running /\ ~Voted(E) /\ clock = Duty(E)
      /\ vote' = [vote EXCEPT ![E] = [head |-> HeadSlot, included |-> 0]]
      /\ UNCHANGED <<clock, blocks, defect, running, since, pc, from, epoch, last, target, audited>>
      /\ UNCHANGED <<client, test>>
  BY <1>b DEF AuditInv, AuditTypeOK, Vote, client, test
<1>2. E \in Epochs /\ HeadSlot \in Slots /\ 0 \in Slots
  BY <1>1, HeadFacts, LastOfSlots
<1>3. AuditTypeOK'
  <2>1. [head |-> HeadSlot, included |-> 0] \in Votes
    BY <1>2 DEF Votes
  <2>2. vote' \in [Epochs -> Votes]
    BY <1>1, <1>2, <2>1 DEF AuditTypeOK
  <2> QED
    BY <1>1, <2>2 DEF AuditTypeOK
<1>4. vote[E] = NoVote /\ ~Included(E) /\ ~Included(E)'
  <2>1. vote'[E] = [head |-> HeadSlot, included |-> 0]
    BY <1>1, <1>2 DEF AuditTypeOK
  <2>2. vote[E] = [head |-> 0, included |-> -1]
    BY <1>1 DEF Voted, NoVote
  <2>3. vote'[E].included = 0 /\ vote[E].included = -1
    BY <2>1, <2>2
  <2>4. ~Included(E) /\ ~Included(E)'
    BY <2>3 DEF Included
  <2> QED
    BY <1>1, <2>4 DEF Voted
<1>5. \A e \in Epochs : e # E => vote'[e] = vote[e]
  BY <1>1 DEF AuditTypeOK
<1>6. \A e \in Epochs : Included(e)' = Included(e) /\ (Voted(e)' => Voted(e) \/ e = E)
  <2>1. \A e \in Epochs : e # E => Included(e)' = Included(e) /\ Voted(e)' = Voted(e)
    BY <1>5 DEF Included, Voted
  <2>2. Included(E)' = Included(E)
    BY <1>4 DEF Included
  <2> QED
    BY <2>1, <2>2
<1>7. VotesInv'
  <2> SUFFICES ASSUME NEW e \in Epochs
               PROVE  /\ Voted(e)' => Duty(e)' <= clock'
                      /\ Included(e)' => vote'[e].included \in blocks' /\ Duty(e)' < vote'[e].included
                      /\ running' /\ since' <= StartOf(e)' /\ StartOf(e + 2)' <= clock' => Included(e)'
    BY DEF VotesInv
  <2>1. Duty(e)' = Duty(e) /\ StartOf(e)' = StartOf(e) /\ StartOf(e + 2)' = StartOf(e + 2)
    BY DEF Duty, StartOf
  <2>2. Duty(E) <= clock
    BY <1>1, LastOfSlots
  <2>3. Voted(e)' => Duty(e) <= clock
    BY <1>1, <1>6, <2>2 DEF VotesInv
  <2>4. Included(e)' => vote'[e].included \in blocks /\ Duty(e) < vote'[e].included
    BY <1>1, <1>4, <1>5, <1>6 DEF VotesInv
  <2>5. running /\ since <= StartOf(e) /\ StartOf(e + 2) <= clock => Included(e)
    BY <1>1 DEF VotesInv
  <2> QED
    BY <1>1, <1>6, <2>1, <2>3, <2>4, <2>5
<1>8. \A e \in Epochs : Voted(e)' => Voted(e) \/ (running /\ since <= Duty(e))
  <2>1. since <= clock
    BY <1>1, LastOfSlots DEF AuditTypeOK
  <2> QED
    BY <1>1, <1>6, <2>1
<1> QED
  BY <1>1, <1>3, <1>7, <1>8, ChainStep

LEMMA ProposeStep ==
  ASSUME AuditInv, Propose
  PROVE  AuditInv'
<1>1. /\ AuditTypeOK /\ VotesInv /\ clock \in Slots /\ clock \in Nat
      /\ clock \notin blocks /\ blocks' = blocks \cup {clock}
      /\ UNCHANGED <<clock, defect, running, since, pc, from, epoch, last, target, audited>>
      /\ UNCHANGED <<client, test>>
  BY LastOfSlots DEF AuditInv, AuditTypeOK, Propose, client, test
<1>2. PICK included \in SUBSET Pending :
        vote' = [e \in Epochs |-> IF e \in included THEN [vote[e] EXCEPT !.included = clock] ELSE vote[e]]
  BY DEF Propose
<1>3. ASSUME NEW e \in Epochs, e \in included
      PROVE  /\ Voted(e) /\ ~Included(e) /\ Duty(e) < clock /\ Duty(e) \in Nat
             /\ vote'[e] \in Votes /\ vote'[e].included = clock /\ Included(e)'
  <2>1. e \in Pending
    BY <1>2, <1>3
  <2>2. Voted(e) /\ ~Included(e) /\ Duty(e) < clock /\ Duty(e) \in Nat
    BY <2>1, DutyInEpoch, LastOfSlots DEF Pending, Epochs
  <2>3. vote[e] \in [head : Slots, included : Slots]
    BY <1>1, <2>2 DEF AuditTypeOK, Votes, Voted
  <2>4. vote'[e] = [vote[e] EXCEPT !.included = clock]
    BY <1>2, <1>3
  <2>5. vote'[e] \in [head : Slots, included : Slots] /\ vote'[e].included = clock
    BY <1>1, <2>3, <2>4
  <2>6. clock > 0
    BY <1>1, <2>2
  <2> QED
    BY <2>2, <2>5, <2>6 DEF Votes, Included
<1>4. \A e \in Epochs : e \notin included => vote'[e] = vote[e]
  BY <1>2
<1>5. AuditTypeOK'
  <2>1. \A e \in Epochs : vote'[e] \in Votes
    BY <1>1, <1>3, <1>4 DEF AuditTypeOK
  <2>2. vote' \in [Epochs -> Votes]
    BY <1>2, <2>1
  <2>3. blocks' \in SUBSET (0 .. clock)
    BY <1>1 DEF AuditTypeOK
  <2> QED
    BY <1>1, <2>2, <2>3 DEF AuditTypeOK
<1>6. \A e \in Epochs : (Voted(e)' => Voted(e)) /\ (Included(e) => Included(e)' /\ e \notin included)
  BY <1>3, <1>4 DEF Voted, Included
<1>7. VotesInv'
  <2> SUFFICES ASSUME NEW e \in Epochs
               PROVE  /\ Voted(e)' => Duty(e)' <= clock'
                      /\ Included(e)' => vote'[e].included \in blocks' /\ Duty(e)' < vote'[e].included
                      /\ running' /\ since' <= StartOf(e)' /\ StartOf(e + 2)' <= clock' => Included(e)'
    BY DEF VotesInv
  <2>1. Duty(e)' = Duty(e) /\ StartOf(e)' = StartOf(e) /\ StartOf(e + 2)' = StartOf(e + 2)
    BY DEF Duty, StartOf
  <2>2. Voted(e)' => Duty(e) <= clock
    BY <1>1, <1>6 DEF VotesInv
  <2>3. Included(e)' => vote'[e].included \in blocks' /\ Duty(e) < vote'[e].included
    <3>1. CASE e \in included
      BY <1>1, <1>3, <3>1
    <3>2. CASE e \notin included
      <4>1. vote'[e] = vote[e]
        BY <1>4, <3>2
      <4>2. Included(e)' = Included(e)
        BY <4>1 DEF Included
      <4> QED
        BY <1>1, <4>1, <4>2 DEF VotesInv
    <3> QED
      BY <3>1, <3>2
  <2>4. running /\ since <= StartOf(e) /\ StartOf(e + 2) <= clock => Included(e)'
    BY <1>1, <1>6 DEF VotesInv
  <2> QED
    BY <1>1, <2>1, <2>2, <2>3, <2>4
<1>8. \A e \in Epochs : Voted(e)' => Voted(e) \/ (running /\ since <= Duty(e))
  BY <1>6
<1> QED
  BY <1>1, <1>5, <1>7, <1>8, ChainStep

-----------------------------------------------------------------------------
(***************************************************************************)
(* The test stops the client, and audits the epochs without it.            *)
(***************************************************************************)
\* A step of the test changes nothing of the chain, and no vote.
LEMMA TestStep ==
  ASSUME AuditInv, UNCHANGED chain, UNCHANGED since, running' \in {running, FALSE},
         pc' \in Steps, from' \in Nat, epoch' \in Nat, last' \in Nat, target' \in Nat, audited' \in BOOLEAN
  PROVE  AuditTypeOK' /\ VotesInv'
<1>1. UNCHANGED <<clock, blocks, vote, defect>>
  BY DEF chain
<1>2. running' \in BOOLEAN
  BY DEF AuditInv, AuditTypeOK
<1>3. AuditTypeOK'
  BY <1>1, <1>2 DEF AuditInv, AuditTypeOK
<1>4. \A e \in Epochs : Voted(e)' = Voted(e) /\ Included(e)' = Included(e)
  BY ChainStays
<1>5. running' => running
  OBVIOUS
<1>6. VotesInv'
  <2> SUFFICES ASSUME NEW e \in Epochs
               PROVE  /\ Voted(e)' => Duty(e)' <= clock'
                      /\ Included(e)' => vote'[e].included \in blocks' /\ Duty(e)' < vote'[e].included
                      /\ running' /\ since' <= StartOf(e)' /\ StartOf(e + 2)' <= clock' => Included(e)'
    BY DEF VotesInv
  <2>1. Duty(e)' = Duty(e) /\ StartOf(e)' = StartOf(e) /\ StartOf(e + 2)' = StartOf(e + 2)
    BY DEF Duty, StartOf
  <2>2. /\ Voted(e) => Duty(e) <= clock
        /\ Included(e) => vote[e].included \in blocks /\ Duty(e) < vote[e].included
        /\ running /\ since <= StartOf(e) /\ StartOf(e + 2) <= clock => Included(e)
    BY DEF AuditInv, VotesInv
  <2> QED
    BY <1>1, <1>4, <1>5, <2>1, <2>2
<1> QED
  BY <1>3, <1>6

-----------------------------------------------------------------------------
\* The chain at rest, the invariants of the test speak of its variables only.
LEMMA TestInvs ==
  ASSUME UNCHANGED chain
  PROVE  /\ OfflineInv' <=>
              /\ pc' = "clock" => from' <= Epoch(HeadSlot)
              /\ pc' \in {"awaitOffline", "checkOffline"} =>
                   last' \in Epochs /\ epoch' <= last' /\ \A e \in Epochs : Voted(e) => e < epoch'
              /\ pc' = "checkOffline" => RewardsAvailable(Epoch(HeadSlot), last')
              /\ pc' = "down" => \A e \in Epochs : Voted(e) => e < Epoch(HeadSlot)
              /\ pc' = "start" => \A e \in Epochs : Voted(e) => e < from'
         /\ ScanInv' <=>
              /\ pc' \in Scanning => \A e \in Epochs : e >= from' /\ Voted(e) => since' <= Duty(e)
              /\ pc' \in {"scan", "walk"} => from' <= epoch'
              /\ pc' = "walk" => target' <= Epoch(HeadSlot)
              /\ pc' \in {"awaitNext", "checkNext"} => epoch' \in Epochs /\ since' <= StartOf(epoch')
              /\ pc' = "checkNext" => RewardsAvailable(Epoch(HeadSlot), epoch')
<1>1. /\ Epoch(HeadSlot)' = Epoch(HeadSlot) /\ \A e : Voted(e)' = Voted(e)
      /\ \A e : Duty(e)' = Duty(e)
  BY ChainStays DEF Duty, StartOf
<1>2. /\ RewardsAvailable(Epoch(HeadSlot), last)' = RewardsAvailable(Epoch(HeadSlot), last')
      /\ RewardsAvailable(Epoch(HeadSlot), epoch)' = RewardsAvailable(Epoch(HeadSlot), epoch')
      /\ StartOf(epoch)' = StartOf(epoch')
  BY <1>1 DEF RewardsAvailable, StartOf
<1> QED
  BY <1>1, <1>2 DEF OfflineInv, ScanInv

LEMMA OfflineSteps ==
  ASSUME AuditInv, StopClient \/ ReadHead \/ ReadClock \/ AwaitOffline
  PROVE  AuditInv'
<1>1. /\ AuditTypeOK /\ OfflineInv /\ ScanInv /\ ClientInv /\ AuditIsRight
      /\ Epoch(HeadSlot) \in Nat /\ Epoch(clock) \in Nat /\ Epoch(HeadSlot) <= Epoch(clock)
      /\ from \in Nat /\ epoch \in Nat /\ last \in Nat /\ target \in Nat /\ running \in BOOLEAN
  BY HeadFacts DEF AuditInv, AuditTypeOK
<1>2. \A e \in Epochs : e \in Nat /\ (Voted(e) => e <= Epoch(clock))
  <2> SUFFICES ASSUME NEW e \in Epochs
               PROVE  e \in Nat /\ (Voted(e) => e <= Epoch(clock))
    OBVIOUS
  <2>1. e \in Nat /\ clock \in Nat
    BY <1>1, LastOfSlots DEF AuditTypeOK, Epochs
  <2>2. StartOf(e) <= Duty(e) /\ Duty(e) \in Nat /\ StartOf(e) \in Nat
    BY <2>1, DutyInEpoch, StartOfEpoch
  <2>3. Voted(e) => StartOf(e) <= clock
    BY <2>1, <2>2 DEF AuditInv, VotesInv
  <2> QED
    BY <2>1, <2>3, EpochOfSlot
<1>3. UNCHANGED chain /\ UNCHANGED since
  BY DEF StopClient, ReadHead, ReadClock, AwaitOffline, client
<1>4. CASE StopClient
  <2>1. /\ pc' = "head" /\ running' = FALSE
        /\ UNCHANGED <<from, epoch, last, target, audited>>
    BY <1>4 DEF StopClient, Goto
  <2>2. AuditTypeOK' /\ VotesInv'
    BY <1>1, <1>3, <2>1, TestStep DEF Steps, AuditTypeOK
  <2>3. OfflineInv' /\ ScanInv'
    BY <1>3, <2>1, TestInvs DEF Scanning
  <2>4. ClientInv' /\ AuditIsRight'
    BY <1>1, <1>3, <2>1 DEF ClientInv, AuditIsRight, chain, Scanning
  <2> QED
    BY <2>2, <2>3, <2>4 DEF AuditInv
<1>5. CASE ReadHead
  <2>1. /\ (pc = "head" /\ pc' = "clock") \/ (pc = "down" /\ pc' = "start")
        /\ from' = Epoch(HeadSlot) /\ ~running
        /\ UNCHANGED <<running, epoch, last, target, audited>>
    BY <1>1, <1>5 DEF ReadHead, Goto, client, ClientInv
  <2>2. AuditTypeOK' /\ VotesInv'
    BY <1>1, <1>3, <2>1, TestStep DEF Steps, AuditTypeOK
  <2>3. pc' = "start" => \A e \in Epochs : Voted(e) => e < from'
    BY <1>1, <2>1 DEF OfflineInv
  <2>4. OfflineInv' /\ ScanInv'
    BY <1>1, <1>3, <2>1, <2>3, TestInvs DEF Scanning
  <2>5. ClientInv' /\ AuditIsRight'
    BY <1>1, <1>3, <2>1 DEF ClientInv, AuditIsRight, chain, Scanning
  <2> QED
    BY <2>2, <2>4, <2>5 DEF AuditInv
<1>6. CASE ReadClock
  <2> DEFINE newest == Max({Epoch(clock), from})
  <2>1. /\ pc = "clock" /\ pc' = "awaitOffline" /\ FirstOffline + OfflineEpochs - 1 \in Epochs
        /\ epoch' = FirstOffline /\ last' = FirstOffline + OfflineEpochs - 1 /\ ~running
        /\ UNCHANGED <<running, from, target, audited>>
    BY <1>1, <1>6 DEF ReadClock, Goto, client, ClientInv
  <2>2. FirstOffline = newest + 1
    BY DEF FirstOffline
  <2>3. newest \in Nat /\ Epoch(clock) <= newest
    <3>1. PICK n \in Nat : Epoch(clock) <= n /\ from <= n
      BY <1>1
    <3>2. {Epoch(clock), from} \in SUBSET (0 .. n)
      BY <1>1, <3>1
    <3> QED
      BY <1>1, <3>1, <3>2, LastBlock
  <2> HIDE DEF newest
  <2>4. epoch' \in Nat /\ last' \in Epochs /\ epoch' <= last' /\ last' \in Nat
    BY <1>2, <2>1, <2>2, <2>3, AuditAssumption
  <2>5. \A e \in Epochs : Voted(e) => e < epoch'
    BY <1>1, <1>2, <2>1, <2>2, <2>3
  <2>6. AuditTypeOK' /\ VotesInv'
    BY <1>1, <1>3, <2>1, <2>4, TestStep DEF Steps, AuditTypeOK
  <2>7. OfflineInv' /\ ScanInv'
    BY <1>3, <2>1, <2>4, <2>5, TestInvs DEF Scanning
  <2>8. ClientInv' /\ AuditIsRight'
    BY <1>1, <1>3, <2>1 DEF ClientInv, AuditIsRight, chain, Scanning
  <2> QED
    BY <2>6, <2>7, <2>8 DEF AuditInv
<1>7. CASE AwaitOffline
  <2>1. /\ pc = "awaitOffline" /\ pc' = "checkOffline" /\ RewardsAvailable(Epoch(HeadSlot), last)
        /\ ~running /\ UNCHANGED <<running, from, epoch, last, target, audited>>
    BY <1>1, <1>7 DEF AwaitOffline, Goto, client, ClientInv
  <2>2. AuditTypeOK' /\ VotesInv'
    BY <1>1, <1>3, <2>1, TestStep DEF Steps, AuditTypeOK
  <2>3. last \in Epochs /\ epoch <= last /\ \A e \in Epochs : Voted(e) => e < epoch
    BY <1>1, <2>1 DEF OfflineInv
  <2>4. OfflineInv' /\ ScanInv'
    BY <1>3, <2>1, <2>3, TestInvs DEF Scanning
  <2>5. ClientInv' /\ AuditIsRight'
    BY <1>1, <1>3, <2>1 DEF ClientInv, AuditIsRight, chain, Scanning
  <2> QED
    BY <2>2, <2>4, <2>5 DEF AuditInv
<1> QED
  BY <1>4, <1>5, <1>6, <1>7

\* An epoch without a vote fails the audit only on a chain with a defect, and
\* then always.
LEMMA CheckOfflineStep ==
  ASSUME AuditInv, CheckOffline
  PROVE  AuditInv'
<1>1. /\ AuditTypeOK /\ OfflineInv /\ ScanInv /\ ClientInv /\ AuditIsRight
      /\ Epoch(HeadSlot) \in Nat /\ pc = "checkOffline" /\ ~running
      /\ from \in Nat /\ epoch \in Nat /\ last \in Nat /\ target \in Nat /\ running \in BOOLEAN
  BY HeadFacts DEF AuditInv, AuditTypeOK, CheckOffline, ClientInv
<1>2. /\ last \in Epochs /\ epoch <= last /\ \A e \in Epochs : e \in Nat /\ (Voted(e) => e < epoch)
      /\ RewardsAvailable(Epoch(HeadSlot), last)
  BY <1>1, LastOfSlots DEF OfflineInv, Epochs
<1>3. epoch \in Epochs /\ ~Voted(epoch) /\ RewardsAvailable(Epoch(HeadSlot), epoch)
  BY <1>1, <1>2, LastOfSlots DEF Epochs, RewardsAvailable
<1>4. AuditPasses(epoch, Missed) <=> ~defect
  BY <1>1, <1>3, AuditMeans, MissedIsReward
<1>5. UNCHANGED <<chain, since, running, from, last, target>> /\ defect' = defect
  BY DEF CheckOffline, client, chain
<1>6. ASSUME pc' \in {"failed", "checkOffline", "down"}, epoch' \in Nat, audited' \in BOOLEAN,
             pc' = "failed" => defect,
             pc' = "checkOffline" => epoch <= epoch' /\ epoch' <= last,
             defect => audited' = audited
      PROVE  AuditInv'
  <2>1. AuditTypeOK' /\ VotesInv'
    BY <1>1, <1>5, <1>6, TestStep DEF Steps, AuditTypeOK
  <2>2. pc' = "checkOffline" => \A e \in Epochs : Voted(e) => e < epoch'
    BY <1>1, <1>2, <1>6
  <2>3. \A e \in Epochs : Voted(e) => e < Epoch(HeadSlot)
    BY <1>1, <1>2 DEF RewardsAvailable
  <2>4. OfflineInv' /\ ScanInv'
    BY <1>2, <1>5, <1>6, <2>2, <2>3, TestInvs DEF Scanning
  <2>5. ClientInv' /\ AuditIsRight'
    BY <1>1, <1>5, <1>6 DEF ClientInv, AuditIsRight, Scanning
  <2> QED
    BY <2>1, <2>4, <2>5 DEF AuditInv
<1>7. CASE ~AuditPasses(epoch, Missed)
  <2>1. pc' = "failed" /\ UNCHANGED <<epoch, audited>>
    BY <1>7 DEF CheckOffline, Goto
  <2> QED
    BY <1>1, <1>4, <1>6, <1>7, <2>1 DEF AuditTypeOK
<1>8. CASE AuditPasses(epoch, Missed) /\ epoch < last
  <2>1. pc' = "checkOffline" /\ epoch' = epoch + 1 /\ audited' = audited
    BY <1>1, <1>8 DEF CheckOffline
  <2>2. audited' \in BOOLEAN
    BY <1>1, <2>1 DEF AuditTypeOK
  <2>3. epoch \in Nat /\ last \in Nat /\ epoch + 1 <= last
    BY <1>1, <1>8 DEF AuditTypeOK
  <2>4. epoch' \in Nat /\ epoch <= epoch' /\ epoch' <= last
    BY <2>1, <2>3
  <2> QED
    BY <1>6, <2>1, <2>2, <2>4
<1>9. CASE AuditPasses(epoch, Missed) /\ ~(epoch < last)
  <2>1. pc' = "down" /\ audited' = TRUE /\ UNCHANGED epoch
    BY <1>9 DEF CheckOffline, Goto
  <2> QED
    BY <1>1, <1>4, <1>6, <1>9, <2>1
<1> QED
  BY <1>7, <1>8, <1>9

-----------------------------------------------------------------------------
(***************************************************************************)
(* It starts the client again, scans for its first vote and audits the     *)
(* epoch after that.                                                       *)
(***************************************************************************)
LEMMA StartClientStep ==
  ASSUME AuditInv, StartClient
  PROVE  AuditInv'
<1>1. /\ AuditTypeOK /\ VotesInv /\ OfflineInv /\ ClientInv /\ AuditIsRight
      /\ pc = "start" /\ ~running /\ pc' = "scan" /\ running' = TRUE /\ since' = clock /\ epoch' = from
      /\ UNCHANGED <<chain, clock, blocks, vote, defect, from, last, target, audited>>
  BY DEF AuditInv, StartClient, Goto, ClientInv, chain
<1>2. clock \in Nat /\ from \in Nat /\ \A e \in Epochs : e \in Nat
  BY <1>1, LastOfSlots DEF AuditTypeOK, Epochs
<1>3. AuditTypeOK'
  BY <1>1, <1>2 DEF AuditTypeOK, Steps
<1>4. VotesInv'
  <2> SUFFICES ASSUME NEW e \in Epochs
               PROVE  /\ Voted(e)' => Duty(e)' <= clock'
                      /\ Included(e)' => vote'[e].included \in blocks' /\ Duty(e)' < vote'[e].included
                      /\ running' /\ since' <= StartOf(e)' /\ StartOf(e + 2)' <= clock' => Included(e)'
    BY DEF VotesInv
  <2>1. Duty(e)' = Duty(e) /\ StartOf(e)' = StartOf(e) /\ StartOf(e + 2)' = StartOf(e + 2)
    BY DEF Duty, StartOf
  <2>2. Voted(e)' = Voted(e) /\ Included(e)' = Included(e)
    BY <1>1, ChainStays
  <2>3. ~(clock <= StartOf(e) /\ StartOf(e + 2) <= clock)
    <3>1. e \in Nat /\ e + 2 \in Nat /\ e < e + 2
      BY <1>2
    <3>2. /\ StartOf(e) \in Nat /\ StartOf(e + 2) \in Nat /\ SlotsPerEpoch \in Nat \ {0}
          /\ StartOf(e) + SlotsPerEpoch <= StartOf(e + 2)
      BY <3>1, StartOfEpoch, LastOfSlots
    <3> QED
      BY <1>2, <3>2
  <2> QED
    BY <1>1, <2>1, <2>2, <2>3 DEF VotesInv
<1>5. \A e \in Epochs : e >= from /\ Voted(e) => clock <= Duty(e)
  BY <1>1, <1>2 DEF OfflineInv
<1>6. OfflineInv' /\ ScanInv'
  BY <1>1, <1>2, <1>5, TestInvs DEF Scanning
<1>7. ClientInv' /\ AuditIsRight'
  BY <1>1 DEF ClientInv, AuditIsRight, Scanning
<1> QED
  BY <1>3, <1>4, <1>6, <1>7 DEF AuditInv

\* An epoch with a timely vote was voted in by the client that was started.
LEMMA AttestedSince ==
  ASSUME AuditInv, pc = "walk", RewardsAvailable(target, epoch), Attested(Reward(epoch))
  PROVE  since <= StartOf(epoch + 1)
<1>1. /\ AuditTypeOK /\ ScanInv /\ epoch \in Nat /\ target \in Nat /\ from \in Nat
      /\ Epoch(HeadSlot) \in Nat /\ target <= Epoch(HeadSlot) /\ from <= epoch
      /\ since \in Nat
  BY HeadFacts, LastOfSlots DEF AuditInv, AuditTypeOK, ScanInv
<1>2. epoch \in Epochs
  <2>1. Epoch(HeadSlot) \in Epochs
    BY <1>1, HeadFacts, LastOfSlots
  <2> QED
    BY <1>1, <2>1, LastOfSlots DEF RewardsAvailable, Epochs
<1>3. Voted(epoch)
  <2>1. ~Voted(epoch) => Reward(epoch) = Missed
    BY MissedIsReward
  <2>2. ~Attested(Missed)
    BY DEF Attested, Missed, MissedSource
  <2> QED
    BY <2>1, <2>2
<1>4. since <= Duty(epoch)
  BY <1>1, <1>2, <1>3 DEF ScanInv, Scanning
<1>5. /\ Duty(epoch) \in Nat /\ Duty(epoch) < StartOf(epoch + 1)
      /\ StartOf(epoch + 1) \in Nat
  BY <1>1, DutyInEpoch, StartOfEpoch
<1> QED
  BY <1>1, <1>4, <1>5

LEMMA ScanSteps ==
  ASSUME AuditInv, ScanHead \/ FailedRead \/ ScanEpoch \/ AwaitNext
  PROVE  AuditInv'
<1>1. /\ AuditTypeOK /\ OfflineInv /\ ScanInv /\ ClientInv /\ AuditIsRight
      /\ Epoch(HeadSlot) \in Nat
      /\ from \in Nat /\ epoch \in Nat /\ last \in Nat /\ target \in Nat /\ running \in BOOLEAN
  BY HeadFacts DEF AuditInv, AuditTypeOK
<1>2. /\ UNCHANGED <<chain, running, since, from, audited>> /\ defect' = defect
      /\ pc \in Scanning /\ running /\ pc \notin {"done", "failed"}
  BY <1>1 DEF ScanHead, FailedRead, ScanEpoch, AwaitNext, client, chain, Scanning, ClientInv
<1>3. \A e \in Epochs : e >= from /\ Voted(e) => since <= Duty(e)
  BY <1>1, <1>2 DEF ScanInv
<1>4. ASSUME pc' \in Scanning, epoch' \in Nat, last' \in Nat, target' \in Nat,
             pc' \in {"scan", "walk"} => from <= epoch',
             pc' = "walk" => target' <= Epoch(HeadSlot),
             pc' \in {"awaitNext", "checkNext"} => epoch' \in Epochs /\ since <= StartOf(epoch'),
             pc' = "checkNext" => RewardsAvailable(Epoch(HeadSlot), epoch')
      PROVE  AuditInv'
  <2>1. AuditTypeOK' /\ VotesInv'
    BY <1>1, <1>2, <1>4, TestStep DEF Steps, Scanning, AuditTypeOK
  <2>2. OfflineInv'
    BY <1>2, <1>4, TestInvs DEF Scanning
  <2>3. ScanInv'
    BY <1>2, <1>3, <1>4, TestInvs
  <2>4. ClientInv' /\ AuditIsRight'
    BY <1>1, <1>2, <1>4 DEF ClientInv, AuditIsRight, Scanning
  <2> QED
    BY <2>1, <2>2, <2>3, <2>4 DEF AuditInv
<1>5. CASE ScanHead
  <2>1. /\ pc = "scan" /\ pc' = "walk" /\ target' = Epoch(HeadSlot) /\ UNCHANGED <<epoch, last>>
    BY <1>5 DEF ScanHead, Goto
  <2> QED
    BY <1>1, <1>4, <2>1 DEF Scanning, ScanInv
<1>6. CASE FailedRead
  <2>1. /\ pc = "walk" /\ pc' = "scan" /\ UNCHANGED <<epoch, last, target>>
    BY <1>6 DEF FailedRead, Goto
  <2> QED
    BY <1>1, <1>4, <2>1 DEF Scanning, ScanInv
<1>7. CASE ScanEpoch
  <2>1. pc = "walk" /\ UNCHANGED target /\ from <= epoch
    BY <1>1, <1>7 DEF ScanEpoch, ScanInv
  <2>2. CASE ~RewardsAvailable(target, epoch)
    <3>1. pc' = "scan" /\ UNCHANGED <<epoch, last>>
      BY <1>7, <2>2 DEF ScanEpoch, Goto
    <3> QED
      BY <1>1, <1>4, <2>1, <3>1 DEF Scanning
  <2>3. CASE RewardsAvailable(target, epoch) /\ Attested(Reward(epoch))
    <3>1. epoch + 1 \in Epochs /\ pc' = "awaitNext" /\ epoch' = epoch + 1 /\ last' = epoch + 1
      BY <1>7, <2>3 DEF ScanEpoch, Goto
    <3>2. since <= StartOf(epoch + 1)
      BY <2>1, <2>3, AttestedSince
    <3> QED
      BY <1>1, <1>4, <2>1, <3>1, <3>2 DEF Scanning
  <2>4. CASE RewardsAvailable(target, epoch) /\ ~Attested(Reward(epoch))
    <3>1. pc' = "walk" /\ epoch' = epoch + 1 /\ UNCHANGED last
      BY <1>7, <2>1, <2>4 DEF ScanEpoch
    <3>2. target <= Epoch(HeadSlot)
      BY <1>1, <2>1 DEF ScanInv
    <3> QED
      BY <1>1, <1>4, <2>1, <3>1, <3>2 DEF Scanning
  <2> QED
    BY <2>2, <2>3, <2>4
<1>8. CASE AwaitNext
  <2>1. /\ pc = "awaitNext" /\ pc' = "checkNext" /\ RewardsAvailable(Epoch(HeadSlot), epoch)
        /\ UNCHANGED <<epoch, last, target>>
    BY <1>8 DEF AwaitNext, Goto
  <2> QED
    BY <1>1, <1>4, <2>1 DEF Scanning, ScanInv
<1> QED
  BY <1>5, <1>6, <1>7, <1>8

\* The client kept running through the epoch: its vote was included, and what
\* the blocks tell of it is its reward.
LEMMA CheckNextStep ==
  ASSUME AuditInv, CheckNext
  PROVE  AuditInv'
<1>1. /\ AuditTypeOK /\ VotesInv /\ OfflineInv /\ ScanInv /\ ClientInv /\ AuditIsRight
      /\ pc = "checkNext" /\ running /\ running \in BOOLEAN
      /\ UNCHANGED <<chain, running, since, from, epoch, last, target, audited>> /\ defect' = defect
  BY DEF AuditInv, AuditTypeOK, CheckNext, ClientInv, Scanning, client, chain
<1>2. epoch \in Epochs /\ epoch \in Nat /\ since <= StartOf(epoch) /\ RewardsAvailable(Epoch(HeadSlot), epoch)
  BY <1>1 DEF ScanInv, AuditTypeOK
<1>3. StartOf(epoch + 2) <= clock
  BY <1>1, <1>2, AvailableIsPast
<1>4. Included(epoch)
  BY <1>1, <1>2, <1>3 DEF VotesInv
<1>5. Reward(epoch) = TimelyReward(TimelyVotes(epoch))
  BY <1>1, <1>2, <1>4, TimelyIsReward
<1>6. AuditPasses(epoch, TimelyReward(TimelyVotes(epoch))) <=> ~defect
  BY <1>1, <1>2, <1>5, AuditMeans
<1>7. pc' = IF defect THEN "failed" ELSE "done"
  BY <1>6 DEF CheckNext, Goto
<1>8. AuditTypeOK' /\ VotesInv'
  BY <1>1, <1>7, TestStep DEF Steps, AuditTypeOK
<1>9. OfflineInv' /\ ScanInv'
  BY <1>1, <1>7, TestInvs DEF Scanning
<1>10. ClientInv' /\ AuditIsRight'
  BY <1>1, <1>7 DEF ClientInv, AuditIsRight, Scanning
<1> QED
  BY <1>8, <1>9, <1>10 DEF AuditInv

-----------------------------------------------------------------------------
LEMMA AuditInvInit == AuditInit => AuditInv
<1> SUFFICES ASSUME AuditInit
             PROVE  AuditInv
  OBVIOUS
<1>1. /\ clock = 0 /\ blocks = {0} /\ vote = [e \in Epochs |-> NoVote] /\ defect \in BOOLEAN
      /\ pc \in {"up", "down"} /\ running = (pc = "up") /\ since = 0
      /\ from = 0 /\ epoch = 0 /\ last = 0 /\ target = 0 /\ audited = FALSE
  BY DEF AuditInit
<1>2. \A e \in Epochs : ~Voted(e) /\ ~Included(e)
  BY <1>1 DEF Voted, Included, NoVote
<1>3. 0 \in Slots
  BY LastOfSlots
<1>4. AuditTypeOK
  <2>1. clock \in Slots /\ blocks \in SUBSET (0 .. clock) /\ 0 \in blocks
    BY <1>1, <1>3
  <2>2. vote \in [Epochs -> Votes]
    BY <1>1 DEF Votes
  <2>3. running \in BOOLEAN /\ audited \in BOOLEAN
    BY <1>1
  <2>4. since \in 0 .. clock
    BY <1>1
  <2>5. pc \in Steps
    BY <1>1 DEF Steps
  <2>6. from \in Nat /\ epoch \in Nat /\ last \in Nat /\ target \in Nat
    BY <1>1
  <2> QED
    BY <1>1, <2>1, <2>2, <2>3, <2>4, <2>5, <2>6 DEF AuditTypeOK
<1>5. VotesInv
  <2> SUFFICES ASSUME NEW e \in Epochs
               PROVE  ~(StartOf(e + 2) <= clock)
    BY <1>2 DEF VotesInv
  <2>1. e \in Nat /\ e + 2 \in Nat
    BY LastOfSlots DEF Epochs
  <2>2. /\ StartOf(e) \in Nat /\ StartOf(e + 2) \in Nat /\ SlotsPerEpoch \in Nat \ {0}
        /\ StartOf(e) + SlotsPerEpoch <= StartOf(e + 2)
    BY <2>1, StartOfEpoch, LastOfSlots
  <2> QED
    BY <1>1, <2>2
<1>6. OfflineInv /\ ScanInv /\ ClientInv /\ AuditIsRight
  BY <1>1, <1>2 DEF OfflineInv, ScanInv, ClientInv, AuditIsRight, Scanning
<1> QED
  BY <1>4, <1>5, <1>6 DEF AuditInv

LEMMA AuditInvStep == AuditInv /\ [AuditNext]_auditVars => AuditInv'
<1>1. ASSUME AuditInv, UNCHANGED auditVars
      PROVE  AuditInv'
  <2>1. UNCHANGED <<clock, blocks, vote, defect, running, since, pc, from, epoch, last, target, audited>>
    BY <1>1 DEF auditVars, chain, client, test
  <2>2. UNCHANGED <<client, test>>
    BY <2>1 DEF client, test
  <2>3. AuditTypeOK'
    BY <1>1, <2>1 DEF AuditInv, AuditTypeOK
  <2>4. \A e \in Epochs : Voted(e)' = Voted(e) /\ Included(e)' = Included(e)
    BY <2>1 DEF Voted, Included
  <2>5. VotesInv'
    BY <1>1, <2>1, <2>4 DEF AuditInv, VotesInv, Duty, StartOf
  <2> QED
    BY <1>1, <2>1, <2>2, <2>3, <2>4, <2>5, ChainStep
<1> QED
  BY <1>1, TickStep, VoteStep, ProposeStep, OfflineSteps, CheckOfflineStep, StartClientStep,
     ScanSteps, CheckNextStep DEF AuditNext

(***************************************************************************)
(* The penalties suite fails only for a chain that applies other rewards   *)
(* than it reports, and always for that, wherever the client was stopped   *)
(* and started, for epochs of any length and any empty slots.              *)
(***************************************************************************)
THEOREM AuditsAreRight == AuditSpec => []AuditIsRight
<1>1. AuditInv => AuditIsRight
  BY DEF AuditInv
<1> QED
  BY <1>1, AuditInvInit, AuditInvStep, PTL DEF AuditSpec

(***************************************************************************)
(* A reward that can be read does not change any more: its epoch's votes   *)
(* are included or too late, and no block is added before the clock        *)
(* (rewardsAvailable).                                                     *)
(***************************************************************************)
LEMMA RewardStays ==
  ASSUME AuditInv, [AuditNext]_auditVars, NEW e \in Epochs, RewardsAvailable(Epoch(HeadSlot), e)
  PROVE  Reward(e)' = Reward(e)
<1>1. AuditTypeOK /\ e \in Nat /\ clock \in Nat
  BY LastOfSlots DEF AuditInv, AuditTypeOK, Epochs
<1>2. Duty(e) < clock /\ ~(Epoch(clock) <= e + 1) /\ Epoch(clock) \in Nat /\ Duty(e) \in Nat
  BY <1>1, AvailableIsPast, HeadFacts, DutyInEpoch
<1>3. /\ UNCHANGED <<blocks, vote>>
      \/ Vote
      \/ Propose
  BY DEF AuditNext, auditVars, chain, Tick, StopClient, ReadHead, ReadClock, AwaitOffline, CheckOffline,
         StartClient, ScanHead, ScanEpoch, FailedRead, AwaitNext, CheckNext
<1>4. vote'[e] = vote[e] /\ (UNCHANGED blocks \/ blocks' = blocks \cup {clock})
  <2>1. CASE UNCHANGED <<blocks, vote>>
    BY <2>1
  <2>2. CASE Vote
    <3>1. e # Epoch(clock)
      BY <1>1, <1>2
    <3>2. vote' = [vote EXCEPT ![Epoch(clock)] = [head |-> HeadSlot, included |-> 0]] /\ UNCHANGED blocks
      BY <2>2 DEF Vote
    <3> QED
      BY <1>1, <3>1, <3>2 DEF AuditTypeOK
  <2>3. CASE Propose
    <3>1. PICK included \in SUBSET Pending :
            vote' = [x \in Epochs |-> IF x \in included THEN [vote[x] EXCEPT !.included = clock] ELSE vote[x]]
      BY <2>3 DEF Propose
    <3>2. e \notin included
      BY <1>2, <3>1 DEF Pending
    <3>3. blocks' = blocks \cup {clock}
      BY <2>3 DEF Propose
    <3> QED
      BY <3>1, <3>2, <3>3
  <2> QED
    BY <1>3, <2>1, <2>2, <2>3
<1>5. blocks' \cap 0 .. Duty(e) = blocks \cap 0 .. Duty(e)
  BY <1>1, <1>2, <1>4
<1>6. Duty(e)' = Duty(e)
  BY DEF Duty, StartOf
<1>7. /\ Included(e)' = Included(e) /\ InclusionDelay(e)' = InclusionDelay(e)
      /\ HeadCorrect(e)' = HeadCorrect(e)
  BY <1>4, <1>5, <1>6 DEF Included, InclusionDelay, HeadCorrect
<1> QED
  BY <1>7 DEF Reward

THEOREM FinalRewards == AuditSpec => RewardsAreFinal
<1>1. AuditInv /\ [AuditNext]_auditVars =>
        [\A e \in Epochs : RewardsAvailable(Epoch(HeadSlot), e) => Reward(e)' = Reward(e)]_auditVars
  BY RewardStays
<1> QED
  BY <1>1, AuditInvInit, AuditInvStep, PTL DEF AuditSpec, RewardsAreFinal

=============================================================================
