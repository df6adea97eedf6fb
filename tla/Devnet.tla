------------------------------- MODULE Devnet -------------------------------
(***************************************************************************)
(* devnet.Manager: provisioning (Start) and removal (Stop) of a Kurtosis   *)
(* enclave, by several callers (CLI processes, or the lanes of one run)    *)
(* that share one engine.                                                  *)
(*                                                                         *)
(* Every client call to the engine is one step: the engine serves other    *)
(* callers between two calls, and a call can fail without an effect, fail  *)
(* after its effect (its reply was lost), or succeed.                      *)
(***************************************************************************)
EXTENDS Naturals, FiniteSets

CONSTANTS
  Callers,      \* the processes and lanes that call the manager
  Names,        \* enclave names: the deterministic slots of the engine
  NameOf,       \* the name each caller uses for a whole lifecycle
  Overlap,      \* operations that may overlap others on the same name
  LostReplies,  \* engine calls that may take effect and still report an error
  NoOne         \* owner of a free slot

Operations == {"start", "stop"}

ASSUME DevnetAssumption ==
  /\ NameOf \in [Callers -> Names]
  /\ Overlap \subseteq Operations
  /\ LostReplies \subseteq {"create", "destroy"}
  /\ NoOne \notin Callers

VARIABLES
  owner,      \* owner[n]: the caller whose CreateEnclave made the enclave named n
  phase,      \* phase[n]: what the engine holds under the name n
  pc,         \* pc[c]: the next engine call of caller c
  op,         \* op[c]: the operation caller c runs, or ran last
  canceled,   \* canceled[c]: the operation's context is canceled or expired
  diagnose,   \* diagnose[c]: StartOptions.FailureDiagnosticsDir is set
  errs,       \* errs[c]: the errors joined into the operation's result
  collected,  \* collected[c]: diagnostics were attempted by this operation
  wasFree     \* wasFree[c]: the slot was free at some moment of this operation

engine == <<owner, phase>>
call == <<op, canceled, diagnose, errs, collected>>
vars == <<owner, phase, pc, call, wasFree>>

Phases == {"free", "bare", "running", "dying"}
Steps == {"idle", "exists", "create", "package", "resolve", "probe",
          "diagnose", "destroy", "confirm"}
Errors == {"client", "exists", "found", "create", "start", "diagnostics",
           "destroy", "confirm"}

slot(c) == phase[NameOf[c]]
Occupied(c) == slot(c) # "free"
Usable(c) == slot(c) \in {"bare", "running"}
InFlight(c) == pc[c] # "idle"

\* What the operation of caller c returned, once it is idle again.
Succeeded(c) == pc[c] = "idle" /\ errs[c] = {}

Init ==
  /\ owner = [n \in Names |-> NoOne]
  /\ phase = [n \in Names |-> "free"]
  /\ pc = [c \in Callers |-> "idle"]
  /\ op = [c \in Callers |-> "none"]
  /\ canceled = [c \in Callers |-> FALSE]
  /\ diagnose = [c \in Callers |-> FALSE]
  /\ errs = [c \in Callers |-> {}]
  /\ collected = [c \in Callers |-> FALSE]
  /\ wasFree = [c \in Callers |-> FALSE]

-----------------------------------------------------------------------------
(***************************************************************************)
(* The engine.  Its changes of a slot are seen by every caller of the name.*)
(***************************************************************************)

Occupy(c) ==
  /\ owner' = [owner EXCEPT ![NameOf[c]] = c]
  /\ phase' = [phase EXCEPT ![NameOf[c]] = "bare"]
  /\ UNCHANGED wasFree

\* Destruction is accepted now and frees the slot later, which is why the
\* manager polls for the slot after its destroy call.
Doom(c) ==
  /\ phase' = [phase EXCEPT ![NameOf[c]] = "dying"]
  /\ UNCHANGED <<owner, wasFree>>

Removed(n) ==
  /\ phase[n] = "dying"
  /\ owner' = [owner EXCEPT ![n] = NoOne]
  /\ phase' = [phase EXCEPT ![n] = "free"]
  /\ wasFree' = [c \in Callers |-> wasFree[c] \/ NameOf[c] = n]
  /\ UNCHANGED <<pc, call>>

Cancel(c) ==
  /\ InFlight(c)
  /\ canceled' = [canceled EXCEPT ![c] = TRUE]
  /\ UNCHANGED <<engine, pc, op, diagnose, errs, collected, wasFree>>

-----------------------------------------------------------------------------
Goto(c, step) == pc' = [pc EXCEPT ![c] = step]

Return(c, error) ==
  /\ Goto(c, "idle")
  /\ errs' = [errs EXCEPT ![c] = @ \cup error]

\* Faulty: diagnostics under the start context, which has often ended.
FailStartOnOldContext(c) ==
  /\ errs' = [errs EXCEPT ![c] = @ \cup {"start"}]
  /\ Goto(c, IF diagnose[c] /\ ~canceled[c] THEN "diagnose" ELSE "destroy")

\* The deferred block of Start: once CreateEnclave returned nil, a failure goes
\* through the diagnostics, when a directory for them was given, and through
\* the destruction of the enclave.
FailStart(c) ==
  /\ errs' = [errs EXCEPT ![c] = @ \cup {"start"}]
  /\ Goto(c, IF diagnose[c] THEN "diagnose" ELSE "destroy")

\* Faulty: the cleanup is registered before the enclave is created.
FailCreateAndCleanUp(c) == FailStart(c)

\* CreateEnclave failed: the deferred block is not yet registered.
FailCreate(c) == Return(c, {"create"})

\* Operations on one name are meant to be serial; Overlap lists those that
\* nevertheless run while another one on the same name is in flight.
MayCall(c, operation) ==
  \A d \in Callers \ {c} :
    NameOf[d] = NameOf[c] /\ InFlight(d) => {operation, op[d]} \subseteq Overlap

\* Start and Stop begin alike: a client is connected, or the operation is over.
Call(c, operation) ==
  /\ pc[c] = "idle"
  /\ MayCall(c, operation)
  /\ op' = [op EXCEPT ![c] = operation]
  /\ \E expired \in BOOLEAN, directory \in BOOLEAN :
       /\ canceled' = [canceled EXCEPT ![c] = expired]
       /\ diagnose' = [diagnose EXCEPT ![c] = operation = "start" /\ directory]
  /\ collected' = [collected EXCEPT ![c] = FALSE]
  /\ wasFree' = [wasFree EXCEPT ![c] = ~Occupied(c)]
  /\ \/ Goto(c, "exists") /\ errs' = [errs EXCEPT ![c] = {}]
     \/ errs' = [errs EXCEPT ![c] = {"client"}] /\ UNCHANGED pc
  /\ UNCHANGED engine

Exists(c) ==
  /\ pc[c] = "exists"
  /\ \/ Return(c, {"exists"})
     \/ /\ ~canceled[c]
        /\ op[c] = "start"
        /\ IF Occupied(c) THEN Return(c, {"found"})
                          ELSE Goto(c, "create") /\ UNCHANGED errs
     \/ /\ ~canceled[c]
        /\ op[c] = "stop"
        /\ IF Occupied(c) THEN Goto(c, "destroy") /\ UNCHANGED errs
                          ELSE Return(c, {})
  /\ UNCHANGED <<engine, op, canceled, diagnose, collected, wasFree>>

\* The engine refuses a name that is in use.
Create(c) ==
  /\ pc[c] = "create"
  /\ \/ /\ ~canceled[c]
        /\ ~Occupied(c)
        /\ Occupy(c)
        /\ Goto(c, "package")
        /\ UNCHANGED errs
     \/ /\ FailCreate(c)
        /\ UNCHANGED <<engine, wasFree>>
     \/ /\ "create" \in LostReplies
        /\ ~canceled[c]
        /\ ~Occupied(c)
        /\ Occupy(c)
        /\ FailCreate(c)
  /\ UNCHANGED <<op, canceled, diagnose, collected>>

\* RunRemotePackage.  An error may leave services behind: the enclave stays.
Package(c) ==
  /\ pc[c] = "package"
  /\ \/ /\ ~canceled[c]
        /\ Usable(c)
        /\ phase' = [phase EXCEPT ![NameOf[c]] = "running"]
        /\ Goto(c, "resolve")
        /\ UNCHANGED errs
     \/ /\ FailStart(c)
        /\ UNCHANGED phase
  /\ UNCHANGED <<owner, op, canceled, diagnose, collected, wasFree>>

\* resolveEnvironment and Primary: a missing endpoint or participant fails.
Resolve(c) ==
  /\ pc[c] = "resolve"
  /\ \/ ~canceled[c] /\ slot(c) = "running" /\ Goto(c, "probe") /\ UNCHANGED errs
     \/ FailStart(c)
  /\ UNCHANGED <<engine, op, canceled, diagnose, collected, wasFree>>

\* retryUntil(probe): a failed probe is repeated, which changes nothing, until
\* one succeeds or the context ends.
Probe(c) ==
  /\ pc[c] = "probe"
  /\ \/ ~canceled[c] /\ slot(c) = "running" /\ Return(c, {})
     \/ canceled[c] /\ FailStart(c)
  /\ UNCHANGED <<engine, op, canceled, diagnose, collected, wasFree>>

\* CollectDiagnostics on a fresh context: the start context has often ended.
Diagnose(c) ==
  /\ pc[c] = "diagnose"
  /\ errs' \in {errs, [errs EXCEPT ![c] = @ \cup {"diagnostics"}]}
  /\ collected' = [collected EXCEPT ![c] = TRUE]
  /\ Goto(c, "destroy")
  /\ UNCHANGED <<engine, op, canceled, diagnose, wasFree>>

\* DestroyEnclave.  A failed start calls it on a fresh context, Stop on the
\* context of its caller.  Its error is kept and the slot is polled anyway.
Destroy(c) ==
  /\ pc[c] = "destroy"
  /\ LET live == op[c] = "start" \/ ~canceled[c] IN
     \/ live /\ Usable(c) /\ Doom(c) /\ UNCHANGED errs
     \/ UNCHANGED <<engine, wasFree>> /\ errs' = [errs EXCEPT ![c] = @ \cup {"destroy"}]
     \/ /\ "destroy" \in LostReplies
        /\ live /\ Usable(c) /\ Doom(c)
        /\ errs' = [errs EXCEPT ![c] = @ \cup {"destroy"}]
  /\ Goto(c, "confirm")
  /\ UNCHANGED <<op, canceled, diagnose, collected>>

\* Faulty: an accepted destroy call is taken for a removed enclave.
ConfirmedByRequest(c) == slot(c) \in {"free", "dying"}

\* Faulty: the poll ends with the context of the caller, and counts as done.
ConfirmedByEndOfContext(c) == ~Occupied(c) \/ canceled[c]

Confirmed(c) == ~Occupied(c)

\* Faulty: the poll has no deadline of its own.
ConfirmForever(c) ==
  /\ pc[c] = "confirm"
  /\ Confirmed(c) /\ Return(c, {})
  /\ UNCHANGED <<engine, op, canceled, diagnose, collected, wasFree>>

\* retryUntil(EnclaveExists) on a context of its own, whatever the caller's
\* context is: it ends with the slot seen free, or when its minute is over.
Confirm(c) ==
  /\ pc[c] = "confirm"
  /\ \/ Confirmed(c) /\ Return(c, {})
     \/ Return(c, {"confirm"})
  /\ UNCHANGED <<engine, op, canceled, diagnose, collected, wasFree>>

Step(c) ==
  \/ Exists(c) \/ Create(c) \/ Package(c) \/ Resolve(c) \/ Probe(c)
  \/ Diagnose(c) \/ Destroy(c) \/ Confirm(c)

Next ==
  \/ \E c \in Callers :
       \/ \E operation \in Operations : Call(c, operation)
       \/ Step(c)
       \/ Cancel(c)
  \/ \E n \in Names : Removed(n)

Spec == Init /\ [][Next]_vars

\* Every engine call returns, and every start context carries StartTimeout.
Fairness ==
  /\ \A c \in Callers : WF_vars(Step(c))
  /\ \A c \in Callers : WF_vars(pc[c] = "probe" /\ Cancel(c))

FairSpec == Spec /\ Fairness

-----------------------------------------------------------------------------
TypeOK ==
  /\ owner \in [Names -> Callers \cup {NoOne}]
  /\ phase \in [Names -> Phases]
  /\ pc \in [Callers -> Steps]
  /\ op \in [Callers -> Operations \cup {"none"}]
  /\ canceled \in [Callers -> BOOLEAN]
  /\ diagnose \in [Callers -> BOOLEAN]
  /\ errs \in [Callers -> SUBSET Errors]
  /\ collected \in [Callers -> BOOLEAN]
  /\ wasFree \in [Callers -> BOOLEAN]

Building == {"package", "resolve", "probe", "diagnose", "destroy"}

(***************************************************************************)
(* Start checks for the name and creates the enclave in two calls, and     *)
(* cleans up by name.  Even so, between its CreateEnclave and its destroy  *)
(* call the slot is the start's own, so racing starts never run their      *)
(* package in, or destroy, the enclave of another one.                     *)
(***************************************************************************)
StartOwnsSlot ==
  \A c \in Callers :
    op[c] = "start" /\ pc[c] \in Building => owner[NameOf[c]] = c /\ Usable(c)

(***************************************************************************)
(* A start that failed after its enclave was created and did not report    *)
(* that the slot is still occupied has given the slot back, whatever the   *)
(* destroy call answered and whether or not its context had ended.         *)
(***************************************************************************)
FailedStartReclaims ==
  \A c \in Callers :
    pc[c] = "idle" /\ "start" \in errs[c] /\ "confirm" \notin errs[c]
      => owner[NameOf[c]] # c

(***************************************************************************)
(* A failed start with a diagnostics directory attempts the capture while  *)
(* its enclave is still there.                                             *)
(***************************************************************************)
DiagnosedBeforeDestroyed ==
  \A c \in Callers :
    "start" \in errs[c] /\ diagnose[c] /\ ~collected[c] =>
      owner[NameOf[c]] = c /\ Usable(c)

(***************************************************************************)
(* Stop answers nil only if the slot was free at some moment of the call:  *)
(* an ended context cannot fake a successful stop.                         *)
(***************************************************************************)
StoppedMeansFreed ==
  \A c \in Callers : op[c] = "stop" /\ Succeeded(c) => wasFree[c]

(***************************************************************************)
(* Every operation returns, whatever is canceled and whatever the other    *)
(* callers do to the slot meanwhile.                                       *)
(***************************************************************************)
EveryCallReturns == \A c \in Callers : InFlight(c) ~> pc[c] = "idle"

-----------------------------------------------------------------------------
\* What a caller sees of its operation.
Doing(operation) == IF operation = "start" THEN "starting" ELSE "stopping"
Done(operation) == IF operation = "start" THEN "started" ELSE "stopped"

Status(c) ==
  IF InFlight(c) THEN Doing(op[c])
  ELSE IF op[c] = "none" THEN "none"
  ELSE IF errs[c] # {} THEN "failed"
  ELSE Done(op[c])

Slot == INSTANCE EnclaveSlot WITH
  holder <- owner,
  doomed <- [n \in Names |-> phase[n] = "dying"],
  freed <- wasFree,
  status <- [c \in Callers |-> Status(c)]

(***************************************************************************)
(* The manager implements the slot: what racing starts and exclusive stops *)
(* observe of it is an execution of EnclaveSlot.                           *)
(***************************************************************************)
ImplementsSlot == Slot!Spec
=============================================================================
