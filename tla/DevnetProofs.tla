---------------------------- MODULE DevnetProofs ----------------------------
(***************************************************************************)
(* Proofs about Devnet, for every set of callers and names.                *)
(***************************************************************************)
EXTENDS Devnet, TLAPS

USE DEF engine, call, vars

(***************************************************************************)
(* Every variable keeps its type: the record of Manager.Start and of       *)
(* Manager.Stop stays within the steps and errors of manager.go.           *)
(***************************************************************************)
LEMMA TypeInit == Init => TypeOK
  BY DevnetAssumption DEF Init, TypeOK, Phases, Steps, Operations

\* Every step of every action keeps the types: one step per action of Next.
LEMMA TypeStep == TypeOK /\ [Next]_vars => TypeOK'
<1> SUFFICES ASSUME TypeOK, [Next]_vars PROVE TypeOK'
  OBVIOUS
<1> USE DevnetAssumption DEF TypeOK, Phases, Steps, Errors, Operations
<1>1. ASSUME NEW c \in Callers, NEW operation \in Operations, Call(c, operation)
      PROVE  TypeOK'
  BY <1>1 DEF Call, Goto, Occupied, slot
<1>2. ASSUME NEW c \in Callers, Step(c)
      PROVE  TypeOK'
  <2> USE DEF Return, Goto, FailStart
  <2>1. CASE Exists(c)
    BY <2>1 DEF Exists
  <2>2. CASE Create(c)
    BY <2>2 DEF Create, FailCreate, Occupy
  <2>3. CASE Package(c)
    BY <2>3 DEF Package
  <2>4. CASE Resolve(c)
    BY <2>4 DEF Resolve
  <2>5. CASE Probe(c)
    BY <2>5 DEF Probe
  <2>6. CASE Diagnose(c)
    BY <2>6 DEF Diagnose
  <2>7. CASE Destroy(c)
    BY <2>7 DEF Destroy, Doom
  <2>8. CASE Confirm(c)
    BY <2>8 DEF Confirm
  <2> QED
    BY <1>2, <2>1, <2>2, <2>3, <2>4, <2>5, <2>6, <2>7, <2>8 DEF Step
<1>3. ASSUME NEW c \in Callers, Cancel(c)
      PROVE  TypeOK'
  BY <1>3 DEF Cancel
<1>4. ASSUME NEW n \in Names, Removed(n)
      PROVE  TypeOK'
  BY <1>4 DEF Removed
<1>5. CASE UNCHANGED vars
  BY <1>5
<1> QED
  BY <1>1, <1>2, <1>3, <1>4, <1>5 DEF Next

\* The manager and the engine stay within their steps, errors and slots.
THEOREM TypeCorrect == Spec => []TypeOK
  BY TypeInit, TypeStep, PTL DEF Spec

-----------------------------------------------------------------------------
(***************************************************************************)
(* What holds however the operations on a name overlap.                    *)
(***************************************************************************)
FreeMeansUnowned == \A n \in Names : phase[n] = "free" <=> owner[n] = NoOne

StepsOfStart ==
  \A c \in Callers :
    /\ pc[c] \in {"create", "package", "resolve", "probe", "diagnose"} => op[c] = "start"
    /\ InFlight(c) => op[c] \in Operations

FailureIsLate ==
  \A c \in Callers :
    "start" \in errs[c] =>
      op[c] = "start" /\ pc[c] \in {"diagnose", "destroy", "confirm", "idle"}

\* A start cleans up only because it failed, so it never reports success then.
CleanupIsFailure ==
  \A c \in Callers :
    op[c] = "start" /\ pc[c] \in {"diagnose", "destroy", "confirm"} => "start" \in errs[c]

\* The clause that makes StoppedMeansFreed inductive: the answer of an operation
\* in flight may rely on a slot that is free now.
FreeIsRecorded ==
  \A c \in Callers : InFlight(c) /\ ~Occupied(c) => wasFree[c]

AnyOverlapInv ==
  /\ FreeMeansUnowned /\ StepsOfStart /\ FailureIsLate /\ FreeIsRecorded
  /\ FailedStartReclaims /\ StoppedMeansFreed

\* No operation is in flight at the start.
LEMMA AnyOverlapInit == Init => AnyOverlapInv
  BY DevnetAssumption
  DEF Init, AnyOverlapInv, FreeMeansUnowned, StepsOfStart, FailureIsLate, FreeIsRecorded,
      FailedStartReclaims, StoppedMeansFreed, InFlight

\* Every step preserves what overlapping starts and stops cannot disturb.
LEMMA AnyOverlapStep == TypeOK /\ AnyOverlapInv /\ [Next]_vars => AnyOverlapInv'
<1> SUFFICES ASSUME TypeOK, AnyOverlapInv, [Next]_vars PROVE AnyOverlapInv'
  OBVIOUS
<1> USE DevnetAssumption
    DEF TypeOK, Phases, Operations, AnyOverlapInv, FreeMeansUnowned, StepsOfStart,
        FailureIsLate, FreeIsRecorded, FailedStartReclaims, StoppedMeansFreed,
        InFlight, Occupied, slot, Succeeded
<1>1. ASSUME NEW c \in Callers, NEW operation \in Operations, Call(c, operation)
      PROVE  AnyOverlapInv'
  <2>1. FreeMeansUnowned'
    BY <1>1 DEF Call, Goto
  <2>2. StepsOfStart'
    BY <1>1 DEF Call, Goto
  <2>3. FailureIsLate'
    BY <1>1 DEF Call, Goto
  <2>4. FreeIsRecorded'
    <3>1. \A d \in Callers : d # c => pc'[d] = pc[d] /\ wasFree'[d] = wasFree[d]
      BY <1>1 DEF Call, Goto
    <3>2. phase' = phase /\ wasFree'[c] = ~Occupied(c)
      BY <1>1 DEF Call
    <3> QED
      BY <3>1, <3>2
  <2>5. FailedStartReclaims'
    BY <1>1 DEF Call, Goto
  <2>6. StoppedMeansFreed'
    <3>1. \A d \in Callers : d # c =>
            pc'[d] = pc[d] /\ wasFree'[d] = wasFree[d] /\ op'[d] = op[d] /\ errs'[d] = errs[d]
      BY <1>1 DEF Call, Goto
    <3>2. pc' = [pc EXCEPT ![c] = "exists"] \/ errs' = [errs EXCEPT ![c] = {"client"}]
      BY <1>1 DEF Call, Goto
    <3>3. pc'[c] # "idle" \/ "client" \in errs'[c]
      BY <3>2
    <3> QED
      BY <3>1, <3>3
  <2> QED
    BY <2>1, <2>2, <2>3, <2>4, <2>5, <2>6
<1>2. ASSUME NEW c \in Callers, Step(c)
      PROVE  AnyOverlapInv'
  <2> USE DEF Return, Goto, FailStart
  <2>1. CASE Exists(c)
    <3>1. FreeMeansUnowned'
      BY <2>1 DEF Exists
    <3>2. StepsOfStart'
      BY <2>1 DEF Exists
    <3>3. FailureIsLate'
      BY <2>1 DEF Exists
    <3>4. FreeIsRecorded'
      <4>1. \A d \in Callers : pc'[d] # "idle" => pc[d] # "idle"
        BY <2>1 DEF Exists
      <4>2. phase' = phase /\ wasFree' = wasFree
        BY <2>1 DEF Exists
      <4> QED
        BY <4>1, <4>2
    <3>5. FailedStartReclaims'
      BY <2>1 DEF Exists
    <3>6. StoppedMeansFreed'
      <4>1. \A d \in Callers : d # c => pc'[d] = pc[d] /\ errs'[d] = errs[d]
        BY <2>1 DEF Exists
      <4>2. wasFree' = wasFree /\ op' = op /\ InFlight(c)
        BY <2>1 DEF Exists
      <4>3. CASE errs' = [errs EXCEPT ![c] = @ \cup {"exists"}] \/ op[c] = "start"
        BY <4>1, <4>2, <4>3
      <4>4. CASE ~Occupied(c)
        BY <4>1, <4>2, <4>4
      <4>5. CASE pc' = [pc EXCEPT ![c] = "destroy"]
        BY <4>1, <4>2, <4>5
      <4> QED
        BY <2>1, <4>3, <4>4, <4>5 DEF Exists
    <3> QED
      BY <3>1, <3>2, <3>3, <3>4, <3>5, <3>6
  <2>2. CASE Create(c)
    BY <2>2 DEF Create, FailCreate, Occupy
  <2>3. CASE Package(c)
    BY <2>3 DEF Package, Usable
  <2>4. CASE Resolve(c)
    BY <2>4 DEF Resolve
  <2>5. CASE Probe(c)
    BY <2>5 DEF Probe
  <2>6. CASE Diagnose(c)
    BY <2>6 DEF Diagnose
  <2>7. CASE Destroy(c)
    <3>1. phase' = phase \/ Doom(c)
      BY <2>7 DEF Destroy
    <3>2. owner' = owner /\ wasFree' = wasFree /\ op' = op
      BY <2>7 DEF Destroy, Doom
    <3>3. /\ pc[c] = "destroy" /\ pc' = [pc EXCEPT ![c] = "confirm"]
          /\ errs' \in {errs, [errs EXCEPT ![c] = @ \cup {"destroy"}]}
      BY <2>7 DEF Destroy
    <3>4. \A n \in Names : phase'[n] = "free" <=> phase[n] = "free"
      BY <2>7, <3>1 DEF Doom, Destroy, Usable
    <3> QED
      BY <3>2, <3>3, <3>4
  <2>8. CASE Confirm(c)
    <3>1. FreeMeansUnowned'
      BY <2>8 DEF Confirm, Confirmed
    <3>2. StepsOfStart'
      BY <2>8 DEF Confirm, Confirmed
    <3>3. FailureIsLate'
      BY <2>8 DEF Confirm, Confirmed
    <3>4. FreeIsRecorded'
      <4>1. \A d \in Callers : pc'[d] # "idle" => pc[d] # "idle"
        BY <2>8 DEF Confirm, Confirmed
      <4>2. phase' = phase /\ wasFree' = wasFree
        BY <2>8 DEF Confirm
      <4> QED
        BY <4>1, <4>2
    <3>5. FailedStartReclaims'
      BY <2>8 DEF Confirm, Confirmed
    <3>6. StoppedMeansFreed'
      <4>1. \A d \in Callers : Succeeded(d)' => Succeeded(d) \/ (d = c /\ InFlight(c) /\ ~Occupied(c))
        BY <2>8 DEF Confirm, Confirmed
      <4>2. wasFree' = wasFree /\ op' = op
        BY <2>8 DEF Confirm
      <4> QED
        BY <4>1, <4>2
    <3> QED
      BY <3>1, <3>2, <3>3, <3>4, <3>5, <3>6
  <2> QED
    BY <1>2, <2>1, <2>2, <2>3, <2>4, <2>5, <2>6, <2>7, <2>8 DEF Step
<1>3. ASSUME NEW c \in Callers, Cancel(c)
      PROVE  AnyOverlapInv'
  BY <1>3 DEF Cancel
<1>4. ASSUME NEW n \in Names, Removed(n)
      PROVE  AnyOverlapInv'
  <2>1. FreeMeansUnowned' /\ StepsOfStart' /\ FailureIsLate' /\ FailedStartReclaims'
    BY <1>4 DEF Removed
  <2>2. /\ \A c \in Callers : wasFree'[c] = (wasFree[c] \/ NameOf[c] = n)
        /\ \A m \in Names \ {n} : phase'[m] = phase[m]
        /\ pc' = pc /\ op' = op /\ errs' = errs
    BY <1>4 DEF Removed
  <2>3. FreeIsRecorded' /\ StoppedMeansFreed'
    BY <2>2
  <2> QED
    BY <2>1, <2>3
<1>5. CASE UNCHANGED vars
  BY <1>5
<1> QED
  BY <1>1, <1>2, <1>3, <1>4, <1>5 DEF Next

\* The invariant of overlapping operations holds throughout.
LEMMA AnyOverlapCorrect == Spec => []AnyOverlapInv
  BY TypeCorrect, AnyOverlapInit, AnyOverlapStep, PTL DEF Spec

(***************************************************************************)
(* A failed start that does not report an occupied slot holds none, even   *)
(* when starts and stops of its name overlap without any order.            *)
(***************************************************************************)
THEOREM FailedStartsReclaim == Spec => []FailedStartReclaims
<1>1. AnyOverlapInv => FailedStartReclaims
  BY DEF AnyOverlapInv
<1> QED
  BY <1>1, AnyOverlapCorrect, PTL

(***************************************************************************)
(* A stop answers nil only after its slot was free during the call.        *)
(***************************************************************************)
THEOREM StopsAreHonest == Spec => []StoppedMeansFreed
<1>1. AnyOverlapInv => StoppedMeansFreed
  BY DEF AnyOverlapInv
<1> QED
  BY <1>1, AnyOverlapCorrect, PTL

-----------------------------------------------------------------------------
(***************************************************************************)
(* What holds when only starts overlap others on their name.               *)
(***************************************************************************)
OnlyStartsOverlap ==
  \A c, d \in Callers :
    c # d /\ NameOf[c] = NameOf[d] /\ InFlight(c) /\ InFlight(d) => op[c] = "start"

DiagnosisIsDue ==
  \A c \in Callers :
    "start" \in errs[c] /\ diagnose[c] /\ ~collected[c] => pc[c] = "diagnose"

RaceInv == OnlyStartsOverlap /\ StartOwnsSlot /\ DiagnosisIsDue /\ CleanupIsFailure

\* Nobody owns a slot at the start.
LEMMA RaceInit == Init => RaceInv
  BY DEF Init, RaceInv, OnlyStartsOverlap, StartOwnsSlot, DiagnosisIsDue, CleanupIsFailure,
         InFlight, Building

\* Every step preserves the ownership of a slot when only starts overlap.
LEMMA RaceStep ==
  ASSUME Overlap \subseteq {"start"}, TypeOK, AnyOverlapInv, RaceInv, [Next]_vars
  PROVE  RaceInv'
<1> USE DevnetAssumption
    DEF TypeOK, Operations, RaceInv, OnlyStartsOverlap, StartOwnsSlot, DiagnosisIsDue,
        CleanupIsFailure, InFlight, Building, Usable, slot
<1>1. ASSUME NEW c \in Callers, NEW operation \in Operations, Call(c, operation)
      PROVE  RaceInv'
  BY <1>1 DEF Call, Goto, MayCall
<1>2. ASSUME NEW c \in Callers, Step(c)
      PROVE  RaceInv'
  <2> USE DEF Return, Goto, FailStart
  <2>1. CASE Exists(c)
    BY <2>1 DEF Exists
  <2>2. CASE Create(c)
    BY <2>2 DEF Create, FailCreate, Occupy, Occupied
  <2>3. CASE Package(c)
    BY <2>3 DEF Package
  <2>4. CASE Resolve(c)
    BY <2>4 DEF Resolve
  <2>5. CASE Probe(c)
    BY <2>5 DEF Probe
  <2>6. CASE Diagnose(c)
    BY <2>6 DEF Diagnose
  <2>7. CASE Destroy(c)
    BY <2>7 DEF Destroy, Doom
  <2>8. CASE Confirm(c)
    BY <2>8 DEF Confirm, Confirmed
  <2> QED
    BY <1>2, <2>1, <2>2, <2>3, <2>4, <2>5, <2>6, <2>7, <2>8 DEF Step
<1>3. ASSUME NEW c \in Callers, Cancel(c)
      PROVE  RaceInv'
  BY <1>3 DEF Cancel
<1>4. ASSUME NEW n \in Names, Removed(n)
      PROVE  RaceInv'
  BY <1>4 DEF Removed
<1>5. CASE UNCHANGED vars
  BY <1>5
<1> QED
  BY <1>1, <1>2, <1>3, <1>4, <1>5 DEF Next

\* Racing starts keep the invariant of slot ownership.
LEMMA RaceCorrect ==
  ASSUME Overlap \subseteq {"start"}
  PROVE  Spec => []RaceInv
<1>1. TypeOK /\ AnyOverlapInv /\ RaceInv /\ [Next]_vars => RaceInv'
  BY RaceStep
<1> QED
  BY <1>1, TypeCorrect, AnyOverlapCorrect, RaceInit, PTL DEF Spec

(***************************************************************************)
(* Racing starts own the slot they build in, for any number of callers.    *)
(***************************************************************************)
THEOREM StartsOwnTheirSlot ==
  ASSUME Overlap \subseteq {"start"}
  PROVE  Spec => []StartOwnsSlot
<1>1. RaceInv => StartOwnsSlot
  BY DEF RaceInv
<1> QED
  BY <1>1, RaceCorrect, PTL

(***************************************************************************)
(* A failed start with a diagnostics directory attempts the capture before *)
(* it destroys its enclave.                                                *)
(***************************************************************************)
THEOREM FailedStartsAreDiagnosed ==
  ASSUME Overlap \subseteq {"start"}
  PROVE  Spec => []DiagnosedBeforeDestroyed
<1>1. AnyOverlapInv /\ RaceInv => DiagnosedBeforeDestroyed
  BY DEF AnyOverlapInv, FailureIsLate, RaceInv, StartOwnsSlot, DiagnosisIsDue,
         DiagnosedBeforeDestroyed, Building
<1> QED
  BY <1>1, AnyOverlapCorrect, RaceCorrect, PTL

-----------------------------------------------------------------------------
(***************************************************************************)
(* The refinement of EnclaveSlot: which abstract step each step is.        *)
(***************************************************************************)
LEMMA StatusInFlight ==
  ASSUME AnyOverlapInv, NEW c \in Callers, InFlight(c)
  PROVE  op[c] \in {"start", "stop"} /\ Status(c) = Doing(op[c])
  BY DEF AnyOverlapInv, StepsOfStart, Operations, Status

\* The abstract status of a caller that returned is the answer it gave.
LEMMA StatusIdle ==
  ASSUME NEW c \in Callers, ~InFlight(c)
  PROVE  Status(c) \in {"none", "started", "stopped", "failed"}
  BY DEF Status, Done

StatusFcn == [c \in Callers |-> Status(c)]
Dying == [n \in Names |-> phase[n] = "dying"]

\* A step of caller c changes what c sees of its operation, and nobody else does.
LEMMA OthersSeeNothing ==
  ASSUME NEW c \in Callers,
         \A d \in Callers \ {c} : pc'[d] = pc[d] /\ op'[d] = op[d] /\ errs'[d] = errs[d]
  PROVE  StatusFcn' = [StatusFcn EXCEPT ![c] = Status(c)']
<1>1. \A d \in Callers \ {c} : Status(d)' = Status(d)
  BY DEF Status, InFlight
<1> QED
  BY <1>1 DEF StatusFcn

\* A step inside an operation leaves what every caller sees unchanged.
LEMMA StepStatus ==
  ASSUME TypeOK, TypeOK', AnyOverlapInv, AnyOverlapInv', NEW c \in Callers, Step(c)
  PROVE  /\ op' = op /\ InFlight(c)
         /\ InFlight(c)' => StatusFcn' = StatusFcn
         /\ ~InFlight(c)' /\ errs'[c] # {} => StatusFcn' = [StatusFcn EXCEPT ![c] = "failed"]
         /\ ~InFlight(c)' /\ errs'[c] = {} => 
              StatusFcn' = [StatusFcn EXCEPT ![c] = Done(op[c])]
<1>1. op' = op /\ InFlight(c)
  BY DEF Step, Exists, Create, Package, Resolve, Probe, Diagnose, Destroy, Confirm, InFlight
<1>2. \A d \in Callers \ {c} : pc'[d] = pc[d] /\ errs'[d] = errs[d]
  <2> USE DEF TypeOK, Goto, Return, FailStart, FailCreate
  <2>1. CASE Exists(c) \/ Create(c) \/ Package(c)
    BY <2>1 DEF Exists, Create, Package
  <2>2. CASE Resolve(c) \/ Probe(c) \/ Diagnose(c)
    BY <2>2 DEF Resolve, Probe, Diagnose
  <2>3. CASE Destroy(c) \/ Confirm(c)
    BY <2>3 DEF Destroy, Confirm
  <2> QED
    BY <2>1, <2>2, <2>3 DEF Step
<1>3. StatusFcn' = [StatusFcn EXCEPT ![c] = Status(c)']
  BY <1>1, <1>2, OthersSeeNothing
<1>4. op[c] \in {"start", "stop"}
  BY <1>1, StatusInFlight
<1>5. ASSUME InFlight(c)' PROVE Status(c)' = Status(c)
  BY <1>1, <1>4, <1>5 DEF Status
<1>6. ASSUME ~InFlight(c)', errs'[c] # {} PROVE Status(c)' = "failed"
  BY <1>1, <1>4, <1>6 DEF Status
<1>7. ASSUME ~InFlight(c)', errs'[c] = {}
      PROVE  Status(c)' = Done(op[c])
  BY <1>1, <1>4, <1>7 DEF Status
<1> QED
  BY <1>1, <1>3, <1>5, <1>6, <1>7 DEF StatusFcn

\* An operation that joined an error has one.
LEMMA ErrorsStay ==
  ASSUME TypeOK, NEW c \in Callers, NEW e, errs' = [errs EXCEPT ![c] = @ \cup {e}]
  PROVE  errs'[c] # {}
<1>1. errs'[c] = errs[c] \cup {e}
  BY DEF TypeOK
<1>2. e \in errs'[c]
  BY <1>1
<1> QED
  BY <1>2

\* The initial states of the manager are initial states of the abstract slot.
LEMMA SlotInit == Init => Slot!Init
<1> SUFFICES ASSUME Init PROVE Slot!Init
  OBVIOUS
<1>1. \A c \in Callers : Status(c) = "none"
  BY DEF Init, Status, InFlight
<1> QED
  BY <1>1 DEF Init, Slot!Init

\* Every step of the manager is a step of the abstract slot, or stutters.
LEMMA SlotStep ==
  ASSUME TypeOK, TypeOK', AnyOverlapInv, AnyOverlapInv', RaceInv, [Next]_vars
  PROVE  [Slot!Next]_(Slot!vars)
<1> USE DevnetAssumption DEF StatusFcn, Dying
<1>1. ASSUME NEW c \in Callers, NEW operation \in Operations, Call(c, operation)
      PROVE  Slot!Begin(c)
  <2>1. StatusFcn' = [StatusFcn EXCEPT ![c] = Status(c)']
    BY <1>1, OthersSeeNothing DEF Call, Goto, TypeOK
  <2>2. Status(c) \in {"none", "started", "stopped", "failed"}
    BY <1>1, StatusIdle DEF Call, InFlight
  <2>3. Status(c)' \in {"starting", "stopping", "failed"}
    <3>1. op'[c] = operation
      BY <1>1 DEF Call, TypeOK
    <3>2. pc'[c] = "exists" \/ (pc'[c] = "idle" /\ "client" \in errs'[c])
      BY <1>1 DEF Call, TypeOK, Goto
    <3> QED
      BY <3>1, <3>2 DEF Status, Operations, InFlight, Doing
  <2>4. wasFree' = [wasFree EXCEPT ![c] = owner[NameOf[c]] = NoOne]
    BY <1>1 DEF Call, Occupied, slot, AnyOverlapInv, FreeMeansUnowned
  <2>5. owner' = owner /\ Dying' = Dying
    BY <1>1 DEF Call
  <2> QED
    BY <2>1, <2>2, <2>3, <2>4, <2>5 DEF Slot!Begin, Slot!Answers, Slot!Running
<1>2. ASSUME NEW c \in Callers, Step(c)
      PROVE  [Slot!Next]_(Slot!vars)
  <2>1. /\ op' = op
        /\ op[c] \in {"start", "stop"} /\ Status(c) = Doing(op[c])
    BY <1>2, StepStatus, StatusInFlight
  <2>2. ASSUME owner' = owner, Dying' = Dying, wasFree' = wasFree, InFlight(c)'
        PROVE  UNCHANGED Slot!vars
    BY <1>2, <2>2, StepStatus DEF Slot!vars
  <2>3. ASSUME owner' = owner, Dying' = Dying, wasFree' = wasFree,
               ~InFlight(c)', errs'[c] # {}
        PROVE  Slot!Answer(c)
    BY <1>2, <2>1, <2>3, StepStatus DEF Slot!Answer, Slot!Running, Doing
  <2>4. ASSUME owner' = owner, Dying' = Dying, wasFree' = wasFree,
               ~InFlight(c)', errs'[c] = {},
               \/ op[c] = "start" /\ owner[NameOf[c]] = c /\ slot(c) # "dying"
               \/ op[c] = "stop" /\ wasFree[c]
        PROVE  Slot!Answer(c)
    BY <1>2, <2>1, <2>4, StepStatus DEF Slot!Answer, Slot!Running, slot, Doing, Done
  <2>5. ASSUME owner' = owner, Dying' = Dying, wasFree' = wasFree,
               ~InFlight(c)' /\ errs'[c] = {} =>
                 \/ op[c] = "start" /\ owner[NameOf[c]] = c /\ slot(c) # "dying"
                 \/ op[c] = "stop" /\ wasFree[c]
        PROVE  [Slot!Next]_(Slot!vars)
    BY <2>2, <2>3, <2>4, <2>5 DEF Slot!Next
  <2> USE DEF TypeOK, Goto, Return, FailStart, FailCreate
  <2>6. CASE Exists(c)
    <3>1. owner' = owner /\ Dying' = Dying /\ wasFree' = wasFree
      BY <2>6 DEF Exists
    <3>2. ASSUME ~InFlight(c)', errs'[c] = {}
          PROVE  op[c] = "stop" /\ ~Occupied(c)
      <4>1. /\ errs' # [errs EXCEPT ![c] = @ \cup {"exists"}]
            /\ errs' # [errs EXCEPT ![c] = @ \cup {"found"}]
        BY <3>2, ErrorsStay
      <4> QED
        BY <2>6, <3>2, <4>1 DEF Exists, InFlight
    <3>3. ~Occupied(c) => wasFree[c]
      BY <1>2, StepStatus DEF AnyOverlapInv, FreeIsRecorded
    <3> QED
      BY <2>5, <3>1, <3>2, <3>3
  <2>7. CASE Create(c)
    <3>1. op[c] = "start" /\ Dying' = Dying /\ wasFree' = wasFree
      BY <2>7 DEF Create, Occupy, Occupied, slot, AnyOverlapInv, StepsOfStart
    <3>2. ~InFlight(c)' => errs'[c] # {}
      <4>1. ~InFlight(c)' => errs' = [errs EXCEPT ![c] = @ \cup {"create"}]
        BY <2>7 DEF Create, InFlight
      <4> QED
        BY <4>1, ErrorsStay
    <3>3. CASE owner' = owner
      BY <2>5, <3>1, <3>2, <3>3
    <3>4. CASE owner' = [owner EXCEPT ![NameOf[c]] = c] /\ ~Occupied(c)
      <4>1. owner[NameOf[c]] = NoOne
        BY <3>4 DEF Occupied, slot, AnyOverlapInv, FreeMeansUnowned
      <4>2. StatusFcn' \in {StatusFcn, [StatusFcn EXCEPT ![c] = "failed"]}
        BY <1>2, <3>2, StepStatus
      <4>3. Slot!Claim(c)
        BY <2>1, <3>1, <3>4, <4>1, <4>2 DEF Slot!Claim, Doing
      <4> QED
        BY <4>3 DEF Slot!Next
    <3> QED
      BY <2>7, <3>3, <3>4 DEF Create, Occupy
  <2>8. CASE Package(c) \/ Resolve(c) \/ Diagnose(c)
    <3>1. owner' = owner /\ wasFree' = wasFree
      BY <2>8 DEF Package, Resolve, Diagnose
    <3>2. Dying' = Dying
      BY <2>8 DEF Package, Resolve, Diagnose, Usable, slot
    <3>3. InFlight(c)'
      BY <2>8 DEF Package, Resolve, Diagnose, InFlight
    <3> QED
      BY <2>5, <3>1, <3>2, <3>3
  <2>9. CASE Probe(c)
    <3>1. owner' = owner /\ Dying' = Dying /\ wasFree' = wasFree
      BY <2>9 DEF Probe
    <3>2. op[c] = "start" /\ owner[NameOf[c]] = c /\ slot(c) # "dying"
      BY <2>9 DEF Probe, AnyOverlapInv, StepsOfStart, RaceInv, StartOwnsSlot, Building, Usable
    <3> QED
      BY <2>5, <3>1, <3>2
  <2>10. CASE Destroy(c)
    <3>1. owner' = owner /\ wasFree' = wasFree /\ InFlight(c)'
      BY <2>10 DEF Destroy, Doom, InFlight
    <3>2. CASE phase' = phase
      BY <2>5, <3>1, <3>2
    <3>3. CASE Doom(c) /\ Usable(c)
      <4>1. op[c] = "start" => owner[NameOf[c]] = c
        BY <2>10 DEF Destroy, RaceInv, StartOwnsSlot, Building
      <4>2. Dying' = [Dying EXCEPT ![NameOf[c]] = TRUE] /\ ~Dying[NameOf[c]]
        BY <3>3 DEF Doom, Usable, slot
      <4>3. StatusFcn' = StatusFcn
        BY <1>2, <3>1, StepStatus
      <4>4. Slot!GiveUp(c)
        BY <2>1, <3>1, <4>1, <4>2, <4>3 DEF Slot!GiveUp, Doing
      <4> QED
        BY <4>4 DEF Slot!Next
    <3> QED
      BY <2>10, <3>2, <3>3 DEF Destroy
  <2>11. CASE Confirm(c)
    <3>1. owner' = owner /\ Dying' = Dying /\ wasFree' = wasFree
      BY <2>11 DEF Confirm
    <3>2. ASSUME errs'[c] = {}
          PROVE  op[c] = "stop" /\ ~Occupied(c)
      <4>1. errs[c] = {}
        BY <2>11, <3>2 DEF Confirm
      <4>2. op[c] # "start"
        BY <2>11, <4>1 DEF Confirm, RaceInv, CleanupIsFailure
      <4>3. errs' # [errs EXCEPT ![c] = @ \cup {"confirm"}]
        BY <3>2, ErrorsStay
      <4> QED
        BY <2>1, <2>11, <4>2, <4>3 DEF Confirm, Confirmed
    <3>3. ~Occupied(c) => wasFree[c]
      BY <1>2, StepStatus DEF AnyOverlapInv, FreeIsRecorded
    <3> QED
      BY <2>5, <3>1, <3>2, <3>3
  <2> QED
    BY <1>2, <2>6, <2>7, <2>8, <2>9, <2>10, <2>11 DEF Step
<1>3. ASSUME NEW c \in Callers, Cancel(c)
      PROVE  UNCHANGED Slot!vars
  BY <1>3 DEF Cancel, Slot!vars, Status, InFlight
<1>4. ASSUME NEW n \in Names, Removed(n)
      PROVE  Slot!Free(n)
  <2>1. Dying[n] /\ Dying' = [Dying EXCEPT ![n] = FALSE] /\ StatusFcn' = StatusFcn
    BY <1>4 DEF Removed, TypeOK, Status, InFlight
  <2> QED
    BY <1>4, <2>1 DEF Removed, Slot!Free
<1>5. CASE UNCHANGED vars
  BY <1>5 DEF Slot!vars, Status, InFlight
<1> QED
  BY <1>1, <1>2, <1>3, <1>4, <1>5 DEF Next, Slot!Next

(***************************************************************************)
(* The manager implements the abstract slot as long as stops of a name are *)
(* serial, with any number of callers racing to start it.                  *)
(***************************************************************************)
THEOREM ManagerImplementsSlot ==
  ASSUME Overlap \subseteq {"start"}
  PROVE  Spec => ImplementsSlot
<1>1. TypeOK /\ TypeOK' /\ AnyOverlapInv /\ AnyOverlapInv' /\ RaceInv /\ [Next]_vars
        => [Slot!Next]_(Slot!vars)
  BY SlotStep
<1> QED
  BY <1>1, SlotInit, TypeCorrect, AnyOverlapCorrect, RaceCorrect, PTL
  DEF Spec, ImplementsSlot, Slot!Spec
=============================================================================
