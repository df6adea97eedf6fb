---------------------------- MODULE RestartProofs ----------------------------
(***************************************************************************)
(* The restart of a network, for any number of participants, any of them   *)
(* with a validator, an outage of any length, and any failure of the       *)
(* engine, survivor of a stop and loss of data.                            *)
(*                                                                         *)
(* The inductive invariant follows the suite.  It says which services run  *)
(* at each step, that no block is on its way once the heads are compared,  *)
(* that a head all nodes were read with is the head of all of them, and    *)
(* what the restarted chain is built on.                                   *)
(***************************************************************************)
EXTENDS Restart, WellFoundedInduction, TLAPS

Slots == 0 .. MaxSlot
Lines == (1 .. 3) \X Services
Steps == {"connect", "finalize", "stop validators", "pause", "agree", "stop nodes", "answers",
          "outage", "start", "inspect", "reconnect", "resume", "passed", "failed", "changed"}

TypeOK ==
  /\ running \in SUBSET Services /\ survivors \in SUBSET Services
  /\ port \in [Services -> Nat] /\ environment \in [Services -> Nat]
  /\ opened \in SUBSET (Participants \X Nat) /\ nodes \in [Participants -> Nat]
  /\ slot \in Nat /\ chain \in [Slots -> SUBSET Slots]
  /\ inFlight \in SUBSET (Participants \X Slots)
  /\ known \in [Participants -> SUBSET Slots]
  /\ lost \in BOOLEAN
  /\ step \in Steps /\ script \in SUBSET Lines /\ reads \in Nat /\ seen \in BOOLEAN
  /\ anchor \in Slots /\ head \in Slots

(***************************************************************************)
(* The services that run, by the step of the suite; a line of a script     *)
(* that is left has had no effect yet.                                     *)
(***************************************************************************)
Left == {line[2] : line \in script}
Validators == {"validator"} \X Signers

RunInv ==
  /\ DependenciesUp
  /\ step \notin {"stop nodes", "answers", "failed"} => survivors = {}
  /\ step \in {"connect", "finalize", "inspect", "reconnect", "resume"} => running = Services
  /\ step = "stop validators" =>
       /\ script \subseteq ValidatorsDown
       /\ running \in SUBSET Services /\ Services \ Validators \subseteq running
       /\ running \cap Validators \subseteq Left
  /\ step \in {"pause", "agree"} => running = Services \ Validators
  /\ step = "stop nodes" =>
       /\ script \subseteq NodesDown
       /\ running = Left \cup survivors
       /\ survivors \cap Left = {} /\ \A s \in survivors : s[1] = "beacon"
  /\ step = "answers" => running = survivors /\ \A s \in survivors : s[1] = "beacon"
  /\ step = "outage" => running = {}
  /\ step = "start" => script \subseteq AllUp /\ running = Services \ Left

(***************************************************************************)
(* Before the outage every handle reaches its node, while it runs.         *)
(***************************************************************************)
ConnectionsInv ==
  /\ step \in {"connect", "finalize", "stop validators", "pause", "agree", "stop nodes", "answers"} =>
       environment = port
  /\ step = "connect" => \A p \in Participants : p <= reads => <<p, port[<<"beacon", p>>]>> \in opened
  /\ step \in {"finalize", "stop validators", "pause", "agree", "stop nodes", "answers"} =>
       \A p \in Participants :
         nodes[p] = port[<<"beacon", p>>] /\ <<p, nodes[p]>> \in opened

(***************************************************************************)
(* Blocks: a chain goes back in time, a node that knows a block knows what *)
(* it is built on, and so does the signer of a block that is on its way.   *)
(***************************************************************************)
ChainInv ==
  /\ \A b \in Slots : chain[b] \subseteq 0 .. b /\ (b > slot => chain[b] = {})
  /\ \A b \in Slots : \A c \in chain[b] : chain[c] \subseteq chain[b]
  /\ \A p \in Participants :
       /\ Genesis \in known[p]
       /\ \A b \in known[p] : b <= slot /\ b \in chain[b] /\ chain[b] \subseteq known[p]
  /\ \A m \in inFlight :
       m[2] <= slot /\ m[2] \in chain[m[2]] /\ chain[m[2]] \subseteq known[m[1]] \cup {m[2]}

(***************************************************************************)
(* The comparison of the heads.  No block is signed meanwhile, but known   *)
(* ones are passed on: if no node that is still to be read has more than   *)
(* the anchor, no node that was read has more by now.                      *)
(***************************************************************************)
Below(p, b) == \A c \in known[p] : c <= b

AgreeInv ==
  /\ step \in {"stop validators", "pause", "agree"} => \E b \in known[1] : b > Genesis
  /\ step \in {"agree", "stop nodes", "answers", "outage"} => inFlight = {}
  /\ step = "agree" =>
       /\ \A p \in Participants : p <= reads => anchor \in known[p]
       /\ reads > 0 => anchor > Genesis
       /\ (\A p \in Participants : p > reads => Below(p, anchor)) =>
            \A p \in Participants : p <= reads => Below(p, anchor)

(***************************************************************************)
(* After the agreement: the head is the head of all, until a validator     *)
(* runs again, and every later block is built on it; or it is nowhere.     *)
(***************************************************************************)
Agreed == {"stop nodes", "answers", "outage", "start", "inspect", "reconnect", "resume"}
Quiet == running \cap Validators = {}

HeadInv ==
  /\ step \in Agreed => head > Genesis /\ head <= slot
  /\ step \in Agreed /\ ~lost =>
       /\ \A p \in Participants : head \in known[p]
       /\ \A p \in Participants : \A b \in known[p] : b >= head => head \in chain[b]
       /\ \A m \in inFlight : head \in chain[m[2]]
       /\ step \in Agreed \ {"reconnect", "resume"} /\ Quiet =>
            inFlight = {} /\ \A p \in Participants : Below(p, head)
  /\ step \in {"stop nodes", "answers"} /\ lost =>
       \A p \in Participants : ~Runs("beacon", p) => known[p] = {Genesis}
  /\ step \in Agreed \ {"stop nodes", "answers"} /\ lost =>
       /\ \A p \in Participants : head \notin known[p]
       /\ \A m \in inFlight : head \notin chain[m[2]]

IInv == TypeOK /\ RunInv /\ ConnectionsInv /\ ChainInv /\ AgreeInv /\ HeadInv /\ VerdictIsRight

-----------------------------------------------------------------------------
(***************************************************************************)
(* A set of slots has a last one.                                          *)
(***************************************************************************)
LEMMA TopIsLast ==
  ASSUME NEW S \in SUBSET Slots, S # {}
  PROVE  Top(S) \in S /\ \A b \in S : b <= Top(S)
<1> DEFINE Ages == {MaxSlot - b : b \in S}
<1>a. MaxSlot \in Nat
  BY RestartAssumption
<1>b. \A b \in S : b \in Nat /\ MaxSlot - b \in Nat
  BY <1>a DEF Slots
<1>1. Ages \subseteq Nat /\ Ages # {}
  BY <1>b
<1>2. PICK age \in Ages : \A other \in Ages : ~(<<other, age>> \in OpToRel(<, Nat))
  <2>1. IsWellFoundedOn(OpToRel(<, Nat), Nat)
    BY NatLessThanWellFounded
  <2> HIDE DEF Ages
  <2> QED
    BY <1>1, <2>1, WFMin
<1>3. \A other \in Ages : ~(other < age)
  BY <1>1, <1>2 DEF OpToRel
<1>4. PICK b \in S : age = MaxSlot - b
  OBVIOUS
<1>5. \A c \in S : b >= c
  <2>1. ASSUME NEW c \in S
        PROVE  b >= c
    <3>1. MaxSlot - c \in Ages
      OBVIOUS
    <3>2. ~(MaxSlot - c < MaxSlot - b)
      BY <1>3, <1>4, <3>1
    <3> QED
      BY <3>2, <1>a, <1>b
  <2> QED
    BY <2>1
<1>6. Top(S) \in S /\ \A c \in S : Top(S) >= c
  BY <1>5 DEF Top, Max
<1> QED
  BY <1>b, <1>6

\* The services of the network, by kind.
LEMMA ServicesByKind ==
  /\ Participants \subseteq Nat \ {0} /\ 1 \in Participants /\ Signers \subseteq Participants
  /\ \A p \in Participants : <<"execution", p>> \in Services /\ <<"beacon", p>> \in Services
  /\ \A s \in Services : s = <<s[1], s[2]>> /\ s[2] \in Participants
                         /\ s[1] \in Kinds
  /\ Validators = {s \in Services : s[1] = "validator"}
<1>1. Participants \subseteq Nat \ {0} /\ 1 \in Participants /\ Signers \subseteq Participants
  BY RestartAssumption DEF Participants
<1>2. \A p \in Participants : <<"execution", p>> \in Services /\ <<"beacon", p>> \in Services
  BY DEF Services
<1>3. ASSUME NEW s \in Services
      PROVE  /\ s = <<s[1], s[2]>> /\ s[2] \in Participants /\ s[1] \in Kinds
             /\ s \in Validators <=> s[1] = "validator"
  <2>1. CASE s \in {"execution", "beacon"} \X Participants
    BY <2>1 DEF Kinds, Validators
  <2>2. CASE s \in {"validator"} \X Signers
    <3>1. s = <<s[1], s[2]>> /\ s[1] = "validator" /\ s[2] \in Signers
      BY <2>2
    <3> QED
      BY <2>2, <3>1, <1>1 DEF Kinds, Validators
  <2> QED
    BY <2>1, <2>2 DEF Services
<1>4. Validators \subseteq Services
  BY DEF Services, Validators
<1>5. Validators = {s \in Services : s[1] = "validator"}
  BY <1>3, <1>4
<1> QED
  BY <1>1, <1>2, <1>3, <1>5

\* The lines of the three scripts.
LEMMA ScriptLines ==
  /\ \A line \in ValidatorsDown :
       line \in Lines /\ line = <<line[1], line[2]>> /\ line[1] = 1 /\ line[2] \in Validators
  /\ \A line \in NodesDown :
       /\ line \in Lines /\ line = <<line[1], line[2]>>
       /\ \/ line[1] = 1 /\ line[2][1] = "beacon"
          \/ line[1] = 2 /\ line[2][1] = "execution"
  /\ \A line \in AllUp :
       /\ line \in Lines /\ line = <<line[1], line[2]>>
       /\ \/ line[1] = 1 /\ line[2][1] = "execution"
          \/ line[1] = 2 /\ line[2][1] = "beacon"
          \/ line[1] = 3 /\ line[2][1] = "validator"
  /\ {line[2] : line \in ValidatorsDown} = Validators
  /\ {line[2] : line \in NodesDown} = Services \ Validators
  /\ {line[2] : line \in AllUp} = Services
<1>1. ASSUME NEW line \in ValidatorsDown
      PROVE  line \in Lines /\ line = <<line[1], line[2]>> /\ line[1] = 1 /\ line[2] \in Validators
  BY <1>1, ServicesByKind DEF ValidatorsDown, Named, Lines
<1>2. ASSUME NEW line \in NodesDown
      PROVE  /\ line \in Lines /\ line = <<line[1], line[2]>>
             /\ \/ line[1] = 1 /\ line[2][1] = "beacon"
                \/ line[1] = 2 /\ line[2][1] = "execution"
  BY <1>2 DEF NodesDown, Named, Lines
<1>3. ASSUME NEW line \in AllUp
      PROVE  /\ line \in Lines /\ line = <<line[1], line[2]>>
             /\ \/ line[1] = 1 /\ line[2][1] = "execution"
                \/ line[1] = 2 /\ line[2][1] = "beacon"
                \/ line[1] = 3 /\ line[2][1] = "validator"
  BY <1>3 DEF AllUp, Named, Lines
<1>4. ASSUME NEW s \in Services
      PROVE  /\ s[1] = "validator" => <<1, s>> \in ValidatorsDown /\ <<3, s>> \in AllUp
             /\ s[1] = "beacon" => <<1, s>> \in NodesDown /\ <<2, s>> \in AllUp
             /\ s[1] = "execution" => <<2, s>> \in NodesDown /\ <<1, s>> \in AllUp
  BY <1>4 DEF ValidatorsDown, NodesDown, AllUp, Named
<1>5. \A s \in Services : s[1] \in {"validator", "beacon", "execution"}
  BY ServicesByKind DEF Kinds
<1>6. {line[2] : line \in ValidatorsDown} = Validators
  <2>1. ASSUME NEW s \in Validators
        PROVE  \E line \in ValidatorsDown : line[2] = s
    <3>1. <<1, s>> \in ValidatorsDown
      BY <2>1, <1>4, ServicesByKind
    <3> QED
      BY <3>1
  <2> QED
    BY <1>1, <2>1
<1>7. {line[2] : line \in NodesDown} = Services \ Validators
  <2>1. \A line \in NodesDown : line[2] \in Services
    BY <1>2 DEF Lines
  <2> QED
    <3>1. ASSUME NEW s \in Services \ Validators
          PROVE  \E line \in NodesDown : line[2] = s
      <4>1. s[1] \in {"beacon", "execution"}
        BY <1>5, ServicesByKind
      <4>2. <<1, s>> \in NodesDown \/ <<2, s>> \in NodesDown
        BY <4>1, <1>4
      <4> QED
        BY <4>2
    <3>2. \A line \in NodesDown : line[2] \notin Validators
      BY <1>2, ServicesByKind
    <3> QED
      BY <2>1, <3>1, <3>2
<1>8. {line[2] : line \in AllUp} = Services
  <2>1. \A line \in AllUp : line[2] \in Services
    BY <1>3 DEF Lines
  <2> QED
    <3>1. ASSUME NEW s \in Services
          PROVE  \E line \in AllUp : line[2] = s
      <4>1. <<1, s>> \in AllUp \/ <<2, s>> \in AllUp \/ <<3, s>> \in AllUp
        BY <1>4, <1>5
      <4> QED
        BY <4>1
    <3> QED
      BY <2>1, <3>1
<1> QED
  BY <1>1, <1>2, <1>3, <1>6, <1>7, <1>8

\* A line that took effect leaves the others.
LEMMA LineLeaves ==
  ASSUME NEW line \in script, script' = script \ {line},
         script \subseteq ValidatorsDown \/ script \subseteq NodesDown \/ script \subseteq AllUp
  PROVE  Left' = Left \ {line[2]} /\ line[2] \in Left
<1>1. ASSUME NEW other \in script, other[2] = line[2]
      PROVE  other = line
  <2>1. CASE script \subseteq ValidatorsDown
    BY <1>1, <2>1, ScriptLines
  <2>2. CASE script \subseteq NodesDown
    BY <1>1, <2>2, ScriptLines
  <2>3. CASE script \subseteq AllUp
    BY <1>1, <2>3, ScriptLines
  <2> QED
    BY <2>1, <2>2, <2>3
<1> QED
  BY <1>1 DEF Left


-----------------------------------------------------------------------------
(***************************************************************************)
(* What a line of a script does to the services and to the network.        *)
(***************************************************************************)
LEMMA EffectIs ==
  ASSUME TypeOK, NEW s \in Services, Effect(s)
  PROVE  /\ running' \in SUBSET Services /\ survivors' \in SUBSET Services /\ port' \in [Services -> Nat]
         /\ inFlight' \subseteq inFlight
         /\ known' \in [Participants -> SUBSET Slots]
         /\ \A p \in Participants : known'[p] \in {known[p], {Genesis}}
         /\ \A m \in inFlight' : known'[m[1]] = known[m[1]]
         /\ UNCHANGED <<slot, chain, lost>>
<1> USE ServicesByKind
<1>1. CASE Start(s)
  <2>1. port' \in [Services -> Nat]
    BY <1>1 DEF Start, TypeOK
  <2> QED
    BY <1>1, <2>1 DEF Start, TypeOK, network
<1>2. CASE StopOne(s)
  <2>1. Genesis \in Slots
    BY RestartAssumption DEF Slots, Genesis
  <2>2. /\ known' \in [Participants -> SUBSET Slots]
        /\ \A p \in Participants : known'[p] \in {known[p], {Genesis}}
    BY <1>2, <2>1 DEF StopOne, TypeOK
  <2>3. ASSUME NEW m \in inFlight'
        PROVE  known'[m[1]] = known[m[1]]
    <3>1. s # <<"beacon", m[1]>> /\ m[1] \in Participants
      BY <1>2, <2>3 DEF StopOne, TypeOK
    <3>2. s[1] = "beacon" => s[2] # m[1]
      BY <3>1
    <3> QED
      BY <1>2, <3>1, <3>2 DEF StopOne, TypeOK
  <2> QED
    BY <1>2, <2>2, <2>3 DEF StopOne, TypeOK
<1>3. CASE Survive(s)
  BY <1>3 DEF Survive, TypeOK, network
<1> QED
  BY <1>1, <1>2, <1>3 DEF Effect, Stop

\* What an instruction does: it goes on with its first line, ends or fails.
LEMMA InstructIs ==
  ASSUME TypeOK, NEW from, NEW next, Instruct(from, next)
  PROVE  /\ step = from /\ UNCHANGED <<runtime, seen, anchor, head>>
         /\ \/ script = {} /\ Begin(next, {}) /\ UNCHANGED <<services, network>>
            \/ \E line \in script :
                 /\ line[2] \in Services /\ IsFirst(line) /\ Effect(line[2])
                 /\ \/ script' = script \ {line} /\ UNCHANGED <<step, reads>>
                    \/ Fail("failed")
            \/ Fail("failed") /\ UNCHANGED <<services, network>>
<1>1. \A line \in script : line[2] \in Services
  BY DEF TypeOK, Lines
<1> QED
  BY <1>1 DEF Instruct

\* Every step of the suite is one of these.
LEMMA StepNames ==
  /\ {} \in SUBSET Lines /\ ValidatorsDown \in SUBSET Lines
  /\ NodesDown \in SUBSET Lines /\ AllUp \in SUBSET Lines
  /\ {"finalize", "stop validators", "pause", "agree", "stop nodes", "answers", "outage", "start",
      "inspect", "reconnect", "resume", "passed", "failed", "changed"} \subseteq Steps
  BY ScriptLines DEF Steps

LEMMA TypeStep ==
  ASSUME TypeOK, ChainInv, [Next]_vars
  PROVE  TypeOK'
<1> USE ServicesByKind DEF services, runtime, network, suite
<1>a. \A p \in Participants : Top(known[p]) \in known[p] /\ Top(known[p]) \in Slots
  BY TopIsLast DEF TypeOK, ChainInv
<1>b. step \in Steps /\ script \in SUBSET Lines /\ reads \in Nat /\ reads + 1 \in Nat /\ 0 \in Nat
  BY DEF TypeOK
<1>1. ASSUME NEW p \in Participants, Sign(p)
      PROVE  TypeOK'
  <2>1. slot + 1 \in Slots
    BY <1>1, RestartAssumption DEF Sign, Slots, TypeOK
  <2>2. chain[Top(known[p])] \cup {slot + 1} \in SUBSET Slots
    BY <2>1, <1>a DEF TypeOK
  <2> QED
    BY <1>1, <2>1, <2>2 DEF Sign, TypeOK
<1>2. ASSUME NEW p \in Participants, NEW b \in 1 .. MaxSlot, Arrive(p, b), inFlight' \subseteq inFlight
      PROVE  TypeOK'
  <2>1. b \in Slots
    BY RestartAssumption DEF Slots
  <2>2. known' \in [Participants -> SUBSET Slots]
    BY <1>2, <2>1 DEF Arrive, TypeOK
  <2> QED
    BY <1>2, <2>2 DEF Arrive, TypeOK
<1>3. CASE Connect \/ Reconnect
  <2>1. PICK from, next : Open(from, next, {}) /\ next \in Steps
    BY <1>3 DEF Connect, Reconnect, Steps
  <2>2. \/ step' = step /\ script' = script /\ reads' = reads + 1
        \/ step' = next /\ script' = {} /\ reads' = 0
        \/ step' = "failed" /\ script' = script /\ reads' = reads
    BY <2>1 DEF Open, Begin, Stay, Fail
  <2>3. nodes' \in [Participants -> Nat]
    BY <2>1 DEF Open, TypeOK
  <2>4. opened' \in SUBSET (Participants \X Nat)
    <3>1. reads < N => reads + 1 \in Participants
      BY RestartAssumption DEF TypeOK, Participants
    <3>2. reads < N => environment[<<"beacon", reads + 1>>] \in Nat
      BY <3>1 DEF TypeOK
    <3> QED
      BY <2>1, <3>1, <3>2 DEF Open, TypeOK
  <2> QED
    <3>1. step' \in Steps /\ script' \in SUBSET Lines /\ reads' \in Nat
      BY <2>1, <2>2, <1>b, StepNames
    <3>2. UNCHANGED <<services, environment, network, seen, anchor, head>>
      BY <2>1 DEF Open
    <3> QED
      BY <2>3, <2>4, <3>1, <3>2 DEF TypeOK
<1>4. CASE StopValidators \/ StopNodes \/ StartParticipants
  <2>1. PICK from, next : Instruct(from, next) /\ next \in Steps
    BY <1>4 DEF StopValidators, StopNodes, StartParticipants, Steps
  <2>2. /\ step' \in Steps /\ script' \in SUBSET Lines /\ reads' \in Nat
    <3>1. \/ step' = next /\ script' = {} /\ reads' = 0
          \/ step' = step /\ script' \subseteq script /\ reads' = reads
          \/ step' = "failed" /\ script' = script /\ reads' = reads
      BY <2>1, InstructIs DEF Begin, Fail
    <3> QED
      BY <2>1, <3>1, <1>b, StepNames
  <2>3. /\ running' \in SUBSET Services /\ survivors' \in SUBSET Services /\ port' \in [Services -> Nat]
        /\ inFlight' \subseteq inFlight /\ known' \in [Participants -> SUBSET Slots]
        /\ UNCHANGED <<slot, chain, lost>>
    BY <2>1, InstructIs, EffectIs DEF TypeOK
  <2>4. UNCHANGED <<runtime, seen, anchor, head>>
    BY <2>1, InstructIs
  <2> QED
    BY <2>2, <2>3, <2>4 DEF TypeOK
<1>5. CASE AwaitFinality \/ Pause \/ WaitOutage \/ Inspect
  <2>1. /\ UNCHANGED <<services, nodes, chain, inFlight, known, lost, seen, anchor, head>>
        /\ slot' = slot \/ slot' = slot + Outage
        /\ \/ /\ step' \in {"stop validators", "agree", "start", "reconnect"}
              /\ script' \in {{}, ValidatorsDown, AllUp} /\ reads' = 0
           \/ step' = "failed" /\ script' = script /\ reads' = reads
    BY <1>5 DEF AwaitFinality, Pause, WaitOutage, Inspect, Move, Begin, Fail
  <2>2. step' \in Steps /\ script' \in SUBSET Lines /\ reads' \in Nat
    BY <2>1, <1>b, StepNames
  <2>3. slot' \in Nat
    <3>1. Outage \in Nat /\ slot \in Nat
      BY RestartAssumption DEF TypeOK
    <3>2. slot' = slot \/ slot' = slot + Outage
      BY <2>1
    <3> QED
      BY <3>1, <3>2
  <2>4. environment' \in [Services -> Nat] /\ opened' \in SUBSET (Participants \X Nat)
    BY <1>5 DEF AwaitFinality, Pause, WaitOutage, Inspect, TypeOK
  <2> QED
    BY <2>1, <2>2, <2>3, <2>4 DEF TypeOK
<1>6. CASE ReadHead
  <2>1. reads + 1 \in Participants
    BY <1>6 DEF ReadHead, Reached, Runs, TypeOK
  <2>2. anchor' \in Slots /\ head' \in Slots
    BY <1>6, <2>1, <1>a DEF ReadHead, TypeOK
  <2>3. /\ UNCHANGED <<services, runtime, network, seen>>
        /\ \/ step' = step /\ script' = script /\ reads' \in {0, reads + 1}
           \/ step' = "stop nodes" /\ script' = NodesDown /\ reads' = 0
    BY <1>6 DEF ReadHead, Begin, Stay
  <2>4. step' \in Steps /\ script' \in SUBSET Lines /\ reads' \in Nat
    BY <2>3, <1>b, StepNames
  <2> QED
    BY <2>2, <2>3, <2>4 DEF TypeOK
<1>7. CASE CheckSilence \/ SeeNewBlock \/ CheckHead \/ GiveUp
  <2>1. /\ UNCHANGED <<services, runtime, network, anchor, head>> /\ seen' \in BOOLEAN
    BY <1>7 DEF CheckSilence, SeeNewBlock, CheckHead, GiveUp, TypeOK
  <2>2. \/ step' = step /\ script' = script /\ reads' \in {reads, reads + 1}
        \/ step' \in {"outage", "passed"} /\ script' = {} /\ reads' = 0
        \/ step' \in {"failed", "changed"} /\ script' = script /\ reads' = reads
    BY <1>7 DEF CheckSilence, SeeNewBlock, CheckHead, GiveUp, Begin, Fail, Stay
  <2>3. step' \in Steps /\ script' \in SUBSET Lines /\ reads' \in Nat
    BY <2>2, <1>b, StepNames
  <2> QED
    BY <2>1, <2>3 DEF TypeOK
<1>8. CASE UNCHANGED vars
  BY <1>8 DEF vars, TypeOK
<1> QED
  BY <1>1, <1>2, <1>3, <1>4, <1>5, <1>6, <1>7, <1>8 DEF Next, Process, Gossip


-----------------------------------------------------------------------------
\* The instructions of the three steps, with the services they are about.
LEMMA StopValidatorsIs ==
  ASSUME TypeOK, RunInv, StopValidators
  PROVE  /\ step = "stop validators"
         /\ \/ script = {} /\ Begin("pause", {}) /\ UNCHANGED <<services, network>>
            \/ \E line \in script :
                 /\ line[2] \in Validators /\ StopOne(line[2]) /\ UNCHANGED survivors
                 /\ \/ UNCHANGED step /\ script' = script \ {line} /\ Left' = Left \ {line[2]}
                    \/ step' = "failed"
            \/ step' = "failed" /\ UNCHANGED <<services, network>>
<1>1. step = "stop validators" /\ script \subseteq ValidatorsDown
  BY DEF StopValidators, Instruct, RunInv
<1>2. ASSUME NEW line \in script, Effect(line[2])
      PROVE  line[2] \in Validators /\ StopOne(line[2]) /\ UNCHANGED survivors
  <2>1. line[2] \in Validators /\ line[2][1] = "validator"
    BY <1>1, ScriptLines, ServicesByKind
  <2> QED
    BY <1>1, <1>2, <2>1 DEF Effect, Stop, StopOne, Survive
<1> QED
  BY <1>1, <1>2, InstructIs, LineLeaves DEF StopValidators, Fail

LEMMA StopNodesIs ==
  ASSUME TypeOK, RunInv, StopNodes
  PROVE  /\ step = "stop nodes"
         /\ \/ script = {} /\ Begin("answers", {}) /\ UNCHANGED <<services, network>>
            \/ \E line \in script :
                 /\ line[2] \in Services \ Validators /\ line[2] \in Left
                 /\ \/ line[2][1] = "beacon"
                    \/ line[2][1] = "execution" /\ \A s \in Left : s[1] = "execution"
                 /\ StopOne(line[2]) \/ Survive(line[2])
                 /\ \/ UNCHANGED step /\ script' = script \ {line} /\ Left' = Left \ {line[2]}
                    \/ step' = "failed"
            \/ step' = "failed" /\ UNCHANGED <<services, network>>
<1>1. step = "stop nodes" /\ script \subseteq NodesDown
  BY DEF StopNodes, Instruct, RunInv
<1>2. ASSUME NEW line \in script, Effect(line[2])
      PROVE  /\ line[2] \in Services \ Validators /\ line[2] \in Left
             /\ StopOne(line[2]) \/ Survive(line[2])
  <2>1. line[2] \in Services \ Validators
    BY <1>1, ScriptLines
  <2> QED
    BY <1>1, <1>2, <2>1 DEF Effect, Stop, Left
<1>3. ASSUME NEW line \in script, IsFirst(line), line[2][1] # "beacon"
      PROVE  line[2][1] = "execution" /\ \A s \in Left : s[1] = "execution"
  <2>1. ASSUME NEW other \in script
        PROVE  line[2][1] = "execution" /\ other[2][1] = "execution"
    <3>1. \A l \in script :
            \/ l[1] = 1 /\ l[2][1] = "beacon"
            \/ l[1] = 2 /\ l[2][1] = "execution"
      BY <1>1, ScriptLines
    <3>2. line[1] < other[1] \/ line[1] = other[1]
      BY <1>3 DEF IsFirst
    <3>3. line[1] = 2 /\ line[2][1] = "execution"
      BY <1>3, <3>1
    <3>4. other[1] # 1
      BY <3>2, <3>3
    <3> QED
      BY <3>1, <3>3, <3>4
  <2> QED
    BY <2>1 DEF Left
<1> QED
  BY <1>1, <1>2, <1>3, InstructIs, LineLeaves DEF StopNodes, Fail

LEMMA StartIs ==
  ASSUME TypeOK, RunInv, StartParticipants
  PROVE  /\ step = "start"
         /\ \/ script = {} /\ Begin("inspect", {}) /\ UNCHANGED <<services, network>>
            \/ \E line \in script :
                 /\ line[2] \in Services /\ line[2] \in Left /\ Start(line[2])
                 /\ line[2][1] # "execution" => \A s \in Left : s[1] # "execution"
                 /\ line[2][1] = "validator" => \A s \in Left : s[1] = "validator"
                 /\ \/ UNCHANGED step /\ script' = script \ {line} /\ Left' = Left \ {line[2]}
                    \/ step' = "failed"
            \/ step' = "failed" /\ UNCHANGED <<services, network>>
<1>1. step = "start" /\ script \subseteq AllUp
  BY DEF StartParticipants, Instruct, RunInv
<1>2. ASSUME NEW line \in script, Effect(line[2])
      PROVE  line[2] \in Services /\ line[2] \in Left /\ Start(line[2])
  BY <1>1, <1>2 DEF Effect, Left, TypeOK, Lines
<1>3. ASSUME NEW line \in script, IsFirst(line)
      PROVE  /\ line[2][1] # "execution" => \A s \in Left : s[1] # "execution"
             /\ line[2][1] = "validator" => \A s \in Left : s[1] = "validator"
  <2>1. ASSUME NEW other \in script
        PROVE  /\ line[2][1] # "execution" => other[2][1] # "execution"
               /\ line[2][1] = "validator" => other[2][1] = "validator"
    <3>1. line[1] <= other[1] /\ line[1] \in 1 .. 3 /\ other[1] \in 1 .. 3
      BY <1>1, <1>3, ScriptLines DEF IsFirst
    <3> QED
      BY <1>1, <3>1, ScriptLines
  <2> QED
    BY <2>1 DEF Left
<1> QED
  BY <1>1, <1>2, <1>3, InstructIs, LineLeaves DEF StartParticipants, Fail


-----------------------------------------------------------------------------
(***************************************************************************)
(* What the other steps of the suite do to it, one after the other.        *)
(***************************************************************************)
LEMMA OtherSteps ==
  ASSUME Connect \/ AwaitFinality \/ Pause \/ ReadHead \/ CheckSilence \/ WaitOutage
         \/ Inspect \/ Reconnect \/ SeeNewBlock \/ CheckHead \/ GiveUp
  PROVE  /\ UNCHANGED <<services, chain, inFlight, known, lost>>
         /\ \/ step' = step /\ script' = script
               /\ step \in {"connect", "agree", "reconnect", "resume"}
            \/ step = "connect" /\ step' = "finalize" /\ script' = {}
            \/ step = "finalize" /\ step' = "stop validators" /\ script' = ValidatorsDown
            \/ step = "pause" /\ step' = "agree" /\ script' = {} /\ inFlight = {}
            \/ step = "agree" /\ step' = "stop nodes" /\ script' = NodesDown
            \/ step = "answers" /\ step' = "outage" /\ script' = {} /\ NodesAreSilent
            \/ step = "outage" /\ step' = "start" /\ script' = AllUp
            \/ step = "inspect" /\ step' = "reconnect" /\ script' = {}
            \/ step = "reconnect" /\ step' = "resume" /\ script' = {}
            \/ step = "resume" /\ step' = "passed" /\ script' = {}
            \/ step = "resume" /\ step' = "changed" /\ script' = script
            \/ step' = "failed" /\ script' = script
<1> USE DEF Begin, Fail, Stay, Move, network, services
<1>1. CASE Connect \/ Reconnect
  BY <1>1 DEF Connect, Reconnect, Open
<1>2. CASE AwaitFinality \/ Pause \/ WaitOutage \/ Inspect
  BY <1>2 DEF AwaitFinality, Pause, WaitOutage, Inspect
<1>3. CASE ReadHead
  BY <1>3 DEF ReadHead
<1>4. CASE CheckSilence \/ SeeNewBlock \/ CheckHead \/ GiveUp
  BY <1>4 DEF CheckSilence, SeeNewBlock, CheckHead, GiveUp
<1> QED
  BY <1>1, <1>2, <1>3, <1>4

\* The network: a block is signed, received or passed on.
NetworkMoves ==
  \/ \E p \in Participants : Sign(p)
  \/ \E p, q \in Participants, b \in 1 .. MaxSlot : Process(p, b) \/ Gossip(p, q, b)

LEMMA NetworkOnly ==
  ASSUME NetworkMoves \/ UNCHANGED vars
  PROVE  UNCHANGED <<services, runtime, lost, suite>>
BY DEF NetworkMoves, Sign, Process, Gossip, Arrive, vars, network

(***************************************************************************)
(* The services.                                                           *)
(***************************************************************************)
LEMMA RunStep ==
  ASSUME TypeOK, RunInv, ConnectionsInv, [Next]_vars
  PROVE  RunInv'
<1> USE DEF services
<1>a. /\ \A p \in Participants : <<"execution", p>> \in Services /\ <<"beacon", p>> \in Services
      /\ \A s \in Services : s = <<s[1], s[2]>> /\ s[2] \in Participants /\ s[1] \in Kinds
      /\ Validators = {s \in Services : s[1] = "validator"}
  BY ServicesByKind
<1>b. running \in SUBSET Services
  BY DEF TypeOK
<1>1. CASE StopValidators
  <2>1. CASE script = {} /\ Begin("pause", {}) /\ UNCHANGED <<services, network>>
    <3>1. running = Services \ Validators
      BY <1>1, <1>b, <2>1, StopValidatorsIs DEF RunInv, Left
    <3> QED
      BY <1>1, <2>1, <3>1, StopValidatorsIs DEF RunInv, Begin, DependenciesUp, Runs
  <2>2. ASSUME NEW line \in script, line[2] \in Validators, StopOne(line[2]), UNCHANGED survivors,
               \/ UNCHANGED step /\ script' = script \ {line} /\ Left' = Left \ {line[2]}
               \/ step' = "failed"
        PROVE  RunInv'
    <3>1. running' = running \ {line[2]} /\ line[2][1] = "validator" /\ step = "stop validators"
      BY <1>1, <1>a, <2>2, StopValidatorsIs DEF StopOne
    <3>2. DependenciesUp'
      <4>1. \A p : line[2][1] = "validator" => line[2] # <<"beacon", p>>
        OBVIOUS
      <4>2. \A p : line[2][1] = "validator" => line[2] # <<"execution", p>>
        OBVIOUS
      <4> QED
        BY <2>2, <3>1, <4>1, <4>2 DEF RunInv, DependenciesUp, Runs
    <3> QED
      BY <2>2, <3>1, <3>2, <1>b DEF RunInv
  <2>3. CASE step' = "failed" /\ UNCHANGED <<services, network>>
    BY <1>1, <2>3, StopValidatorsIs DEF RunInv, DependenciesUp, Runs
  <2> QED
    BY <1>1, <2>1, <2>2, <2>3, StopValidatorsIs
<1>2. CASE StopNodes
  <2>1. CASE script = {} /\ Begin("answers", {}) /\ UNCHANGED <<services, network>>
    <3>1. running = survivors /\ \A s \in survivors : s[1] = "beacon"
      BY <1>2, <2>1, StopNodesIs DEF RunInv, Left
    <3> QED
      BY <2>1, <3>1 DEF RunInv, Begin, DependenciesUp, Runs
  <2>2. ASSUME NEW line \in script, line[2] \in Services \ Validators, line[2] \in Left,
               \/ line[2][1] = "beacon"
               \/ line[2][1] = "execution" /\ \A s \in Left : s[1] = "execution",
               StopOne(line[2]) \/ Survive(line[2]),
               \/ UNCHANGED step /\ script' = script \ {line} /\ Left' = Left \ {line[2]}
               \/ step' = "failed"
        PROVE  RunInv'
    <3> DEFINE s == line[2]
    <3>1. /\ step = "stop nodes" /\ script \subseteq NodesDown /\ running = Left \cup survivors
          /\ survivors \cap Left = {} /\ \A t \in survivors : t[1] = "beacon"
      BY <1>2, StopNodesIs DEF RunInv
    <3>2. CASE StopOne(s)
      <4>1. running' = running \ {s} /\ survivors' = survivors
        BY <3>2 DEF StopOne
      <4>2. s[1] = "execution" => \A t \in running : t[1] = "beacon" => t \in survivors
        BY <2>2, <3>1
      <4>3. DependenciesUp'
        <5>1. \A p \in Participants : <<"validator", p>> \notin running
          <6>1. \A t \in Left : t \notin Validators
            <7>1. \A other \in script : other[2] \in {l[2] : l \in NodesDown}
              BY <3>1
            <7> QED
              BY <7>1, ScriptLines DEF Left
          <6> QED
            BY <3>1, <6>1, <1>a, <1>b
        <5>2. \A p \in Participants : <<"beacon", p>> \in running \ survivors =>
                <<"execution", p>> \in running /\ s # <<"execution", p>>
          <6>1. ASSUME NEW p \in Participants, <<"beacon", p>> \in running \ survivors
                PROVE  s[1] # "execution"
            <7>1. <<"beacon", p>>[1] = "beacon"
              OBVIOUS
            <7> QED
              BY <4>2, <6>1, <7>1
          <6>2. \A p : s[1] # "execution" => s # <<"execution", p>>
            OBVIOUS
          <6> QED
            BY <6>1, <6>2 DEF RunInv, DependenciesUp, Runs
        <5> QED
          BY <4>1, <5>1, <5>2 DEF DependenciesUp, Runs
      <4> QED
        BY <2>2, <3>1, <4>1, <4>3 DEF RunInv
    <3>3. CASE Survive(s)
      <4>1. running' = running /\ survivors' = survivors \cup {s} /\ s[1] = "beacon"
        BY <3>3 DEF Survive
      <4>2. DependenciesUp'
        BY <4>1 DEF RunInv, DependenciesUp, Runs
      <4> QED
        BY <2>2, <3>1, <4>1, <4>2 DEF RunInv
    <3> QED
      BY <2>2, <3>2, <3>3
  <2>3. CASE step' = "failed" /\ UNCHANGED <<services, network>>
    BY <2>3 DEF RunInv, DependenciesUp, Runs
  <2> QED
    BY <1>2, <2>1, <2>2, <2>3, StopNodesIs
<1>3. CASE StartParticipants
  <2>1. CASE script = {} /\ Begin("inspect", {}) /\ UNCHANGED <<services, network>>
    <3>1. running = Services
      BY <1>3, <2>1, StartIs DEF RunInv, Left
    <3>2. survivors = {}
      BY <1>3, StartIs DEF RunInv
    <3> QED
      BY <2>1, <3>1, <3>2 DEF RunInv, Begin, DependenciesUp, Runs
  <2>2. ASSUME NEW line \in script, line[2] \in Services, line[2] \in Left, Start(line[2]),
               line[2][1] # "execution" => \A s \in Left : s[1] # "execution",
               line[2][1] = "validator" => \A s \in Left : s[1] = "validator",
               \/ UNCHANGED step /\ script' = script \ {line} /\ Left' = Left \ {line[2]}
               \/ step' = "failed"
        PROVE  RunInv'
    <3> DEFINE s == line[2]
    <3>1. step = "start" /\ script \subseteq AllUp /\ running = Services \ Left /\ survivors = {}
      BY <1>3, StartIs DEF RunInv
    <3>2. running' = running \cup {s} /\ survivors' = {}
      BY <2>2, <3>1 DEF Start
    <3>3. DependenciesUp'
      <4>1. ASSUME NEW p \in Participants, <<"validator", p>> \in running'
            PROVE  <<"beacon", p>> \in running'
        <5>1. CASE <<"validator", p>> \in running
          BY <5>1, <3>2 DEF RunInv, DependenciesUp, Runs
        <5>2. CASE s = <<"validator", p>>
          <6>1. <<"beacon", p>> \notin Left
            BY <2>2, <5>2
          <6> QED
            BY <6>1, <3>1, <3>2, <1>a
        <5> QED
          BY <4>1, <3>2, <5>1, <5>2
      <4>2. ASSUME NEW p \in Participants, <<"beacon", p>> \in running'
            PROVE  <<"execution", p>> \in running'
        <5>1. CASE <<"beacon", p>> \in running
          BY <5>1, <3>1, <3>2 DEF RunInv, DependenciesUp, Runs
        <5>2. CASE s = <<"beacon", p>>
          <6>1. <<"execution", p>> \notin Left
            BY <2>2, <5>2
          <6> QED
            BY <6>1, <3>1, <3>2, <1>a
        <5> QED
          BY <4>2, <3>2, <5>1, <5>2
      <4> QED
        BY <4>1, <4>2 DEF DependenciesUp, Runs
    <3> QED
      <4>1. CASE step' = "failed"
        BY <3>2, <3>3, <4>1 DEF RunInv
      <4>2. CASE step' = step /\ script' = script \ {line} /\ Left' = Left \ {s}
        <5>1. running' = Services \ Left'
          BY <2>2, <3>1, <3>2, <4>2
        <5> QED
          BY <3>1, <3>2, <3>3, <4>2, <5>1 DEF RunInv
      <4> QED
        BY <2>2, <4>1, <4>2
  <2>3. CASE step' = "failed" /\ UNCHANGED <<services, network>>
    BY <2>3 DEF RunInv, DependenciesUp, Runs
  <2> QED
    BY <1>3, <2>1, <2>2, <2>3, StartIs
<1>4. CASE \/ Connect \/ AwaitFinality \/ Pause \/ ReadHead \/ CheckSilence \/ WaitOutage
           \/ Inspect \/ Reconnect \/ SeeNewBlock \/ CheckHead \/ GiveUp
  <2>1. UNCHANGED <<running, survivors>>
    BY <1>4, OtherSteps
  <2>2. DependenciesUp'
    BY <2>1 DEF RunInv, DependenciesUp, Runs
  <2>3. CASE step = "finalize" /\ step' = "stop validators" /\ script' = ValidatorsDown
    <3>1. Left' = Validators
      BY <2>3, ScriptLines DEF Left
    <3> QED
      BY <2>1, <2>2, <2>3, <3>1, <1>b DEF RunInv
  <2>4. CASE step = "agree" /\ step' = "stop nodes" /\ script' = NodesDown
    <3>1. Left' = Services \ Validators
      BY <2>4, ScriptLines DEF Left
    <3> QED
      BY <2>1, <2>2, <2>4, <3>1 DEF RunInv
  <2>5. CASE step = "answers" /\ step' = "outage" /\ NodesAreSilent
    <3>1. survivors = {}
      <4> SUFFICES ASSUME NEW s \in survivors
                   PROVE  FALSE
        OBVIOUS
      <4>1. s[1] = "beacon" /\ s \in running
        BY <2>5 DEF RunInv
      <4>2. s[2] \in Participants /\ s = <<"beacon", s[2]>>
        BY <4>1, <1>a, <1>b
      <4>3. Reached(s[2])
        BY <4>1, <4>2, <2>5 DEF Reached, Runs, ConnectionsInv
      <4> QED
        BY <4>2, <4>3, <2>5 DEF NodesAreSilent
    <3> QED
      BY <2>1, <2>2, <2>5, <3>1 DEF RunInv
  <2>6. CASE step = "outage" /\ step' = "start" /\ script' = AllUp
    <3>1. Left' = Services
      BY <2>6, ScriptLines DEF Left
    <3> QED
      BY <2>1, <2>2, <2>6, <3>1 DEF RunInv
  <2>7. CASE \/ step' = step /\ script' = script /\ step \in {"connect", "agree", "reconnect", "resume"}
             \/ step = "connect" /\ step' = "finalize"
             \/ step = "pause" /\ step' = "agree"
             \/ step = "inspect" /\ step' = "reconnect"
             \/ step = "reconnect" /\ step' = "resume"
             \/ step = "resume" /\ step' \in {"passed", "changed"}
             \/ step' = "failed"
    BY <2>1, <2>2, <2>7 DEF RunInv
  <2>8. \/ step' = step /\ script' = script /\ step \in {"connect", "agree", "reconnect", "resume"}
        \/ step = "connect" /\ step' = "finalize"
        \/ step = "finalize" /\ step' = "stop validators" /\ script' = ValidatorsDown
        \/ step = "pause" /\ step' = "agree"
        \/ step = "agree" /\ step' = "stop nodes" /\ script' = NodesDown
        \/ step = "answers" /\ step' = "outage" /\ NodesAreSilent
        \/ step = "outage" /\ step' = "start" /\ script' = AllUp
        \/ step = "inspect" /\ step' = "reconnect"
        \/ step = "reconnect" /\ step' = "resume"
        \/ step = "resume" /\ step' \in {"passed", "changed"}
        \/ step' = "failed"
    BY <1>4, OtherSteps
  <2> QED
    BY <2>3, <2>4, <2>5, <2>6, <2>7, <2>8
<1>5. CASE NetworkMoves \/ UNCHANGED vars
  BY <1>5, NetworkOnly DEF RunInv, suite, Left, DependenciesUp, Runs
<1> QED
  BY <1>1, <1>2, <1>3, <1>4, <1>5 DEF Next, NetworkMoves


(***************************************************************************)
(* The connections.                                                        *)
(***************************************************************************)
LEMMA ConnectionsStep ==
  ASSUME TypeOK, RunInv, ConnectionsInv, [Next]_vars
  PROVE  ConnectionsInv'
<1> DEFINE Connected == {"finalize", "stop validators", "pause", "agree", "stop nodes", "answers"}
<1>1. CASE Connect
  <2>1. UNCHANGED <<port, environment>> /\ step = "connect" /\ environment = port
    BY <1>1 DEF Connect, Open, services, ConnectionsInv
  <2>2. \/ /\ reads < N /\ reads' = reads + 1 /\ step' = step
           /\ opened' = opened \cup {<<reads + 1, environment[<<"beacon", reads + 1>>]>>}
        \/ /\ reads = N /\ step' = "finalize" /\ opened' = opened
           /\ nodes' = [p \in Participants |-> environment[<<"beacon", p>>]]
        \/ step' = "failed"
    BY <1>1 DEF Connect, Open, Begin, Stay, Fail
  <2>3. Participants = 1 .. N /\ N \in Nat /\ reads \in Nat
    BY RestartAssumption DEF Participants, TypeOK
  <2>4. \A p \in Participants : p <= reads => <<p, port[<<"beacon", p>>]>> \in opened
    BY <2>1 DEF ConnectionsInv
  <2>5. CASE /\ reads < N /\ reads' = reads + 1 /\ step' = step
             /\ opened' = opened \cup {<<reads + 1, environment[<<"beacon", reads + 1>>]>>}
    <3>1. \A p \in Participants : p <= reads' => p <= reads \/ p = reads + 1
      BY <2>3, <2>5
    <3>2. \A p \in Participants : p <= reads' => <<p, port[<<"beacon", p>>]>> \in opened'
      BY <2>1, <2>4, <2>5, <3>1
    <3> QED
      BY <2>1, <2>5, <3>2 DEF ConnectionsInv
  <2>6. CASE /\ reads = N /\ step' = "finalize" /\ opened' = opened
             /\ nodes' = [p \in Participants |-> environment[<<"beacon", p>>]]
    <3>1. \A p \in Participants : p <= reads
      BY <2>3, <2>6
    <3> QED
      BY <2>1, <2>4, <2>6, <3>1 DEF ConnectionsInv
  <2>7. CASE step' = "failed"
    BY <2>7 DEF ConnectionsInv
  <2> QED
    BY <2>2, <2>5, <2>6, <2>7
<1>2. CASE Reconnect \/ StartParticipants \/ Inspect \/ CheckHead \/ WaitOutage \/ SeeNewBlock
  <2>1. step \in {"reconnect", "start", "inspect", "resume", "outage"}
    BY <1>2 DEF Reconnect, Open, StartParticipants, Instruct, Inspect, CheckHead, Move, SeeNewBlock, WaitOutage
  <2>2. step' \in {"reconnect", "start", "inspect", "resume", "passed", "changed", "failed"}
    BY <1>2, <2>1 DEF Reconnect, Open, StartParticipants, Instruct, Inspect, CheckHead, Move, Begin, Fail,
                      Stay, SeeNewBlock, WaitOutage
  <2> QED
    BY <2>2 DEF ConnectionsInv
<1>3. CASE \/ AwaitFinality \/ Pause \/ ReadHead \/ CheckSilence \/ GiveUp
           \/ StopValidators \/ StopNodes
  <2>1. UNCHANGED <<environment, opened, nodes>>
    BY <1>3 DEF AwaitFinality, Pause, ReadHead, CheckSilence, GiveUp, StopValidators, StopNodes, Instruct,
                runtime
  <2>2. (step \in Connected /\ step' \in Connected \cup {"outage"}) \/ step' = "failed"
    BY <1>3 DEF AwaitFinality, Pause, ReadHead, CheckSilence, GiveUp, StopValidators, StopNodes,
                Instruct, Move, Begin, Fail, Stay
  <2>3. port' = port
    <3>1. CASE StopValidators \/ StopNodes
      BY <3>1, StopValidatorsIs, StopNodesIs DEF StopOne, Survive, services
    <3>2. CASE ~(StopValidators \/ StopNodes)
      BY <1>3, <3>2 DEF AwaitFinality, Pause, ReadHead, CheckSilence, GiveUp, Move, services
    <3> QED
      BY <3>1, <3>2
  <2> QED
    BY <2>1, <2>2, <2>3 DEF ConnectionsInv
<1>4. CASE NetworkMoves \/ UNCHANGED vars
  BY <1>4, NetworkOnly DEF ConnectionsInv, services, runtime, suite
<1> QED
  BY <1>1, <1>2, <1>3, <1>4 DEF Next, NetworkMoves

(***************************************************************************)
(* The chains.                                                             *)
(***************************************************************************)
\* A block is signed on the head of its signer.
LEMMA SignIs ==
  ASSUME TypeOK, ChainInv, NEW p \in Participants, Sign(p)
  PROVE  /\ slot + 1 \in Slots /\ slot' = slot + 1
         /\ Top(known[p]) \in known[p] /\ \A b \in known[p] : b <= Top(known[p])
         /\ chain'[slot + 1] = chain[Top(known[p])] \cup {slot + 1}
         /\ \A b \in Slots : b # slot + 1 => chain'[b] = chain[b]
         /\ inFlight' = inFlight \cup {<<p, slot + 1>>}
         /\ known' = known /\ Runs("validator", p)
<1>1. slot + 1 \in Slots
  BY RestartAssumption DEF Sign, Slots, TypeOK
<1>2. Top(known[p]) \in known[p] /\ \A b \in known[p] : b <= Top(known[p])
  BY TopIsLast DEF TypeOK, ChainInv
<1> QED
  BY <1>1, <1>2 DEF Sign, TypeOK, Kinds

\* A block arrives with what it is built on.
LEMMA ArriveIs ==
  ASSUME TypeOK, ChainInv, NEW p \in Participants, NEW q \in Participants, NEW b \in 1 .. MaxSlot,
         Process(p, b) \/ Gossip(p, q, b)
  PROVE  /\ b \in Slots /\ UNCHANGED <<slot, chain>> /\ inFlight' \subseteq inFlight
         /\ known'[p] = known[p] \cup chain[b] /\ b \in chain[b] /\ b <= slot
         /\ \A r \in Participants : r # p => known'[r] = known[r]
         /\ \/ b \in known[q] /\ chain[b] \subseteq known[q]
            \/ <<p, b>> \in inFlight /\ chain[b] \subseteq known[p] \cup {b}
         /\ Runs("beacon", p)
<1>1. b \in Slots
  BY RestartAssumption DEF Slots
<1>2. UNCHANGED <<slot, chain>> /\ inFlight' \subseteq inFlight /\ Runs("beacon", p)
  BY DEF Process, Gossip, Arrive
<1>3. known' = [known EXCEPT ![p] = @ \cup chain[b]]
  BY DEF Process, Gossip, Arrive
<1>4. \/ b \in known[q] /\ chain[b] \subseteq known[q] /\ b \in chain[b] /\ b <= slot
      \/ <<p, b>> \in inFlight /\ chain[b] \subseteq known[p] \cup {b} /\ b \in chain[b] /\ b <= slot
  BY DEF Process, Gossip, ChainInv
<1> QED
  BY <1>1, <1>2, <1>3, <1>4 DEF TypeOK


LEMMA ChainStep ==
  ASSUME TypeOK, RunInv, ChainInv, [Next]_vars
  PROVE  ChainInv'
<1>a. \A b \in Slots : chain[b] \subseteq 0 .. b /\ (b > slot => chain[b] = {})
  BY DEF ChainInv
<1>c. \A b \in Slots : \A c \in chain[b] : chain[c] \subseteq chain[b]
  BY DEF ChainInv
<1>b. slot \in Nat /\ known \in [Participants -> SUBSET Slots] /\ inFlight \subseteq Participants \X Slots
      /\ Slots \subseteq Nat
  BY RestartAssumption DEF TypeOK, Slots
<1>1. ASSUME NEW p \in Participants, Sign(p)
      PROVE  ChainInv'
  <2> DEFINE top == Top(known[p])
  <2>1. /\ slot + 1 \in Slots /\ slot' = slot + 1 /\ top \in known[p] /\ known' = known
        /\ chain'[slot + 1] = chain[top] \cup {slot + 1}
        /\ \A b \in Slots : b # slot + 1 => chain'[b] = chain[b]
        /\ inFlight' = inFlight \cup {<<p, slot + 1>>}
    BY <1>1, SignIs
  <2> HIDE DEF top
  <2>2. top \in Slots /\ top <= slot /\ chain[top] \subseteq known[p]
    BY <2>1, <1>b DEF ChainInv
  <2>3. \A b \in Slots : chain'[b] \subseteq 0 .. b /\ (b > slot' => chain'[b] = {})
    <3> SUFFICES ASSUME NEW b \in Slots
                 PROVE  chain'[b] \subseteq 0 .. b /\ (b > slot' => chain'[b] = {})
      OBVIOUS
    <3>1. b \in Nat /\ slot \in Nat /\ slot' = slot + 1 /\ top \in Nat
      BY <1>b, <2>1, <2>2
    <3>2. b > slot' => b > slot /\ b # slot + 1
      BY <3>1
    <3>3. CASE b # slot + 1
      BY <1>a, <2>1, <3>2, <3>3
    <3>4. CASE b = slot + 1
      <4>1. chain[top] \subseteq 0 .. top /\ top <= slot
        BY <1>a, <2>2
      <4>2. chain[top] \cup {slot + 1} \subseteq 0 .. (slot + 1)
        BY <3>1, <4>1
      <4> QED
        BY <2>1, <3>2, <3>4, <4>2
    <3> QED
      BY <3>3, <3>4
  <2>6. \A b \in Slots : \A c \in chain'[b] : chain'[c] \subseteq chain'[b]
    <3>1. ASSUME NEW b \in Slots, b # slot + 1, NEW c \in chain[b]
          PROVE  chain'[c] \subseteq chain'[b]
      <4>1. c \in Slots /\ c # slot + 1
        BY <1>a, <1>b, <3>1 DEF TypeOK
      <4> QED
        BY <1>c, <2>1, <3>1, <4>1
    <3>2. ASSUME NEW c \in chain[top]
          PROVE  chain'[c] \subseteq chain'[slot + 1]
      <4>1. c \in Slots /\ c # slot + 1
        BY <1>a, <1>b, <2>2, <3>2 DEF TypeOK
      <4> QED
        BY <1>c, <2>1, <2>2, <3>2, <4>1
    <3> QED
      BY <2>1, <3>1, <3>2
  <2>4. \A q \in Participants :
          /\ Genesis \in known'[q]
          /\ \A b \in known'[q] : b <= slot' /\ b \in chain'[b] /\ chain'[b] \subseteq known'[q]
    BY <1>b, <2>1 DEF ChainInv
  <2>5. \A m \in inFlight' :
          m[2] <= slot' /\ m[2] \in chain'[m[2]] /\ chain'[m[2]] \subseteq known'[m[1]] \cup {m[2]}
    <3>1. ASSUME NEW m \in inFlight
          PROVE  m[2] <= slot' /\ m[2] \in chain'[m[2]] /\ chain'[m[2]] \subseteq known'[m[1]] \cup {m[2]}
      <4>1. m[2] \in Slots /\ m[2] <= slot
        BY <1>b DEF ChainInv
      <4>2. chain'[m[2]] = chain[m[2]] /\ m[2] <= slot'
        <5>1. m[2] \in Nat /\ slot \in Nat /\ slot' = slot + 1
          BY <1>b, <2>1, <4>1
        <5>2. m[2] # slot + 1 /\ m[2] <= slot'
          BY <4>1, <5>1
        <5> QED
          BY <2>1, <4>1, <5>2
      <4>3. m[2] \in chain[m[2]] /\ chain[m[2]] \subseteq known[m[1]] \cup {m[2]}
        BY DEF ChainInv
      <4> QED
        BY <2>1, <4>2, <4>3
    <3>2. chain'[slot + 1] \subseteq known'[p] \cup {slot + 1} /\ slot + 1 \in chain'[slot + 1]
      BY <2>1, <2>2
    <3> QED
      BY <1>b, <2>1, <3>1, <3>2
  <2> QED
    BY <2>3, <2>4, <2>5, <2>6 DEF ChainInv
<1>2. ASSUME NEW p \in Participants, NEW q \in Participants, NEW b \in 1 .. MaxSlot,
             Process(p, b) \/ Gossip(p, q, b)
      PROVE  ChainInv'
  <2>1. /\ b \in Slots /\ UNCHANGED <<slot, chain>> /\ inFlight' \subseteq inFlight
        /\ known'[p] = known[p] \cup chain[b] /\ b \in chain[b] /\ b <= slot
        /\ \A r \in Participants : r # p => known'[r] = known[r]
        /\ \/ b \in known[q] /\ chain[b] \subseteq known[q]
           \/ <<p, b>> \in inFlight /\ chain[b] \subseteq known[p] \cup {b}
    BY <1>2, ArriveIs
  <2>2. \A r \in Participants : known[r] \subseteq known'[r]
    BY <2>1
  <2>3. \A c \in known'[p] : c <= slot /\ c \in chain[c] /\ chain[c] \subseteq known'[p]
    <3>1. ASSUME NEW c \in chain[b]
          PROVE  c <= slot /\ c \in chain[c] /\ chain[c] \subseteq chain[b]
      BY <1>c, <2>1 DEF ChainInv
    <3> QED
      BY <2>1, <3>1 DEF ChainInv
  <2>4. \A r \in Participants :
          /\ Genesis \in known'[r]
          /\ \A c \in known'[r] : c <= slot /\ c \in chain[c] /\ chain[c] \subseteq known'[r]
    BY <2>1, <2>2, <2>3 DEF ChainInv
  <2>5. \A m \in inFlight' :
          m[2] <= slot /\ m[2] \in chain[m[2]] /\ chain[m[2]] \subseteq known'[m[1]] \cup {m[2]}
    BY <1>b, <2>1, <2>2 DEF ChainInv
  <2> QED
    BY <1>a, <1>c, <2>1, <2>4, <2>5 DEF ChainInv
<1>3. CASE StopValidators \/ StopNodes \/ StartParticipants
  <2>1. UNCHANGED <<slot, chain>> /\ inFlight' \subseteq inFlight
    BY <1>3, InstructIs, EffectIs DEF StopValidators, StopNodes, StartParticipants, network
  <2>2. \A p \in Participants : known'[p] \in {known[p], {Genesis}}
    BY <1>3, InstructIs, EffectIs DEF StopValidators, StopNodes, StartParticipants, network
  <2>3. \A m \in inFlight' : known'[m[1]] = known[m[1]]
    BY <1>3, InstructIs, EffectIs DEF StopValidators, StopNodes, StartParticipants, network
  <2>4. Genesis <= slot /\ Genesis \in chain[Genesis] /\ chain[Genesis] \subseteq {Genesis}
    <3>1. 1 \in Participants /\ Genesis = 0
      BY ServicesByKind DEF Genesis
    <3>2. 0 \in Slots
      BY <1>b, <3>1 DEF ChainInv
    <3> QED
      BY <1>a, <1>b, <3>1, <3>2 DEF ChainInv
  <2>5. \A p \in Participants :
          /\ Genesis \in known'[p]
          /\ \A b \in known'[p] : b <= slot /\ b \in chain[b] /\ chain[b] \subseteq known'[p]
    BY <2>2, <2>4 DEF ChainInv
  <2>6. \A m \in inFlight' :
          m[2] <= slot /\ m[2] \in chain[m[2]] /\ chain[m[2]] \subseteq known'[m[1]] \cup {m[2]}
    BY <2>1, <2>3 DEF ChainInv
  <2> QED
    BY <1>a, <1>c, <2>1, <2>5, <2>6 DEF ChainInv
<1>4. CASE \/ Connect \/ AwaitFinality \/ Pause \/ ReadHead \/ CheckSilence \/ WaitOutage
           \/ Inspect \/ Reconnect \/ SeeNewBlock \/ CheckHead \/ GiveUp
  <2>1. UNCHANGED <<chain, inFlight, known>>
    BY <1>4, OtherSteps
  <2>2. slot' = slot \/ slot' = slot + Outage
    BY <1>4 DEF Connect, Reconnect, Open, AwaitFinality, Pause, ReadHead, CheckSilence, WaitOutage, Inspect,
                SeeNewBlock, CheckHead, GiveUp, network
  <2>3. slot' >= slot /\ slot' \in Nat
    <3>1. Outage \in Nat
      BY RestartAssumption
    <3> QED
      BY <2>2, <1>b, <3>1
  <2>4. \A b \in Slots : chain[b] \subseteq 0 .. b /\ (b > slot' => chain[b] = {})
    BY <1>a, <1>b, <2>3
  <2>5. \A p \in Participants : \A b \in known[p] : b <= slot'
    <3>1. \A p \in Participants : \A b \in known[p] : b \in Nat /\ b <= slot
      BY <1>b DEF ChainInv
    <3> QED
      BY <1>b, <2>3, <3>1
  <2>6. \A m \in inFlight : m[2] <= slot'
    <3>1. \A m \in inFlight : m[2] \in Nat /\ m[2] <= slot
      BY <1>b DEF ChainInv
    <3> QED
      BY <1>b, <2>3, <3>1
  <2> QED
    BY <2>1, <2>4, <2>5, <2>6 DEF ChainInv
<1>5. CASE UNCHANGED vars
  BY <1>5 DEF vars, network, ChainInv
<1> QED
  BY <1>1, <1>2, <1>3, <1>4, <1>5 DEF Next


(***************************************************************************)
(* The comparison of the heads.                                            *)
(***************************************************************************)
\* From the pause to the end of the outage no validator runs.
LEMMA NoValidatorRuns ==
  ASSUME TypeOK, RunInv, step \in {"pause", "agree", "stop nodes", "answers", "outage"}
  PROVE  Quiet
<1>1. Validators = {s \in Services : s[1] = "validator"}
  BY ServicesByKind
<1>2. CASE step = "stop nodes"
  <2>1. \A line \in script : line[2] \in {l[2] : l \in NodesDown}
    BY <1>2 DEF RunInv
  <2>2. Left \cap Validators = {}
    <3>1. \A line \in script : line[2] \in Services \ Validators
      BY <2>1, ScriptLines
    <3> QED
      BY <3>1 DEF Left
  <2> QED
    BY <1>1, <1>2, <2>2 DEF RunInv, Quiet
<1> QED
  BY <1>1, <1>2 DEF RunInv, Quiet

LEMMA SignerRuns ==
  ASSUME TypeOK, RunInv, NEW p \in Participants, Sign(p)
  PROVE  ~Quiet /\ step \notin {"pause", "agree", "stop nodes", "answers", "outage"}
<1>1. <<"validator", p>> \in running /\ <<"validator", p>> \in Services
  BY DEF Sign, Kinds, Runs, TypeOK
<1>2. ~Quiet
  BY <1>1, ServicesByKind DEF Quiet
<1> QED
  BY <1>2, NoValidatorRuns

\* What a node that was read with the anchor adds to the comparison.
LEMMA ReadHeadIs ==
  ASSUME TypeOK, ChainInv, AgreeInv, ReadHead
  PROVE  /\ step = "agree" /\ UNCHANGED <<services, network>> /\ reads + 1 \in Participants
         /\ \/ step' = "agree" /\ reads' = 0
            \/ /\ step' = "agree" /\ reads' = reads + 1
               /\ \A q \in Participants : q <= reads + 1 => anchor' \in known[q]
               /\ anchor' > Genesis
               /\ (\A q \in Participants : q > reads + 1 => Below(q, anchor')) =>
                    \A q \in Participants : q <= reads + 1 => Below(q, anchor')
            \/ /\ step' = "stop nodes" /\ head' = anchor'
               /\ \A q \in Participants : anchor' \in known[q] /\ Below(q, anchor')
               /\ anchor' > Genesis
<1> DEFINE p == reads + 1
           top == Top(known[p])
<1>1. step = "agree" /\ UNCHANGED <<services, network>> /\ p \in Participants
  BY DEF ReadHead, Reached, Runs, TypeOK
<1>2. Participants = 1 .. N /\ N \in Nat /\ reads \in Nat /\ anchor \in Nat
  BY RestartAssumption DEF Participants, TypeOK, Slots
<1>3. top \in known[p] /\ \A b \in known[p] : b <= top
  BY <1>1, TopIsLast DEF TypeOK, ChainInv
<1>4. anchor' = IF p = 1 THEN top ELSE anchor
  BY DEF ReadHead
<1>5. \/ step' = "agree" /\ reads' = 0
      \/ step' = "agree" /\ reads' = p /\ top = anchor'
      \/ step' = "stop nodes" /\ head' = anchor' /\ top = anchor' /\ p = N
  BY DEF ReadHead, Begin, Stay
<1> HIDE DEF top
<1>6. /\ \A q \in Participants : q <= reads => anchor \in known[q]
      /\ reads > 0 => anchor > Genesis
      /\ (\A q \in Participants : q > reads => Below(q, anchor)) =>
           \A q \in Participants : q <= reads => Below(q, anchor)
      /\ \E b \in known[1] : b > Genesis
  BY <1>1 DEF AgreeInv
<1>7. ASSUME top = anchor'
      PROVE  /\ \A q \in Participants : q <= p => anchor' \in known[q]
             /\ anchor' > Genesis
             /\ (\A q \in Participants : q > p => Below(q, anchor')) =>
                  \A q \in Participants : q <= p => Below(q, anchor')
  <2>1. Below(p, anchor')
    BY <1>3, <1>7 DEF Below
  <2>2. CASE p = 1
    <3>1. \A q \in Participants : q <= p => q = p
      BY <1>2, <2>2
    <3>2. anchor' > Genesis
      <4>1. PICK b \in known[1] : b > Genesis
        BY <1>6
      <4>2. b <= top /\ b \in Nat /\ top \in Nat
        BY <1>1, <1>3, <2>2, <4>1 DEF TypeOK, Slots
      <4> QED
        BY <1>7, <4>1, <4>2 DEF Genesis
    <3> QED
      BY <1>3, <1>7, <2>1, <3>1, <3>2
  <2>3. CASE p # 1
    <3>1. anchor' = anchor /\ reads > 0
      BY <1>2, <1>4, <2>3
    <3>2. \A q \in Participants : (q <= p => q <= reads \/ q = p) /\ (q > reads => q = p \/ q > p)
      BY <1>2
    <3>3. \A q \in Participants : q <= p => anchor' \in known[q]
      BY <1>3, <1>6, <1>7, <3>1, <3>2
    <3>4. ASSUME \A q \in Participants : q > p => Below(q, anchor')
          PROVE  \A q \in Participants : q <= p => Below(q, anchor')
      <4>1. \A q \in Participants : q > reads => Below(q, anchor)
        BY <2>1, <3>1, <3>2, <3>4
      <4> QED
        BY <1>6, <2>1, <3>1, <3>2, <4>1
    <3> QED
      BY <1>6, <3>1, <3>3, <3>4
  <2> QED
    BY <2>2, <2>3
<1>8. p = N => \A q \in Participants : q <= p /\ ~(q > p)
  BY <1>2
<1> QED
  BY <1>1, <1>5, <1>7, <1>8

LEMMA AgreeStep ==
  ASSUME TypeOK, RunInv, ChainInv, AgreeInv, [Next]_vars
  PROVE  AgreeInv'
<1> USE DEF network, services, suite
<1>1. ASSUME NEW p \in Participants, Sign(p)
      PROVE  AgreeInv'
  <2>1. known' = known /\ step' = step /\ step \notin {"agree", "stop nodes", "answers", "outage"}
    BY <1>1, SignIs, SignerRuns DEF Sign
  <2> QED
    BY <2>1 DEF AgreeInv
<1>2. ASSUME NEW p \in Participants, NEW q \in Participants, NEW b \in 1 .. MaxSlot,
             Process(p, b) \/ Gossip(p, q, b)
      PROVE  AgreeInv'
  <2>1. /\ UNCHANGED <<chain, step, reads, anchor>> /\ inFlight' \subseteq inFlight
        /\ b \in Slots /\ known'[p] = known[p] \cup chain[b]
        /\ \A r \in Participants : r # p => known'[r] = known[r]
        /\ b \in known[q] \/ inFlight # {}
    BY <1>2, ArriveIs DEF Process, Gossip, Arrive
  <2>2. \A r \in Participants : known[r] \subseteq known'[r]
    BY <2>1
  <2>3. 1 \in Participants /\ Participants \subseteq Nat
    BY ServicesByKind
  <2>4. ASSUME step = "agree", \A r \in Participants : r > reads => Below(r, anchor)'
        PROVE  \A r \in Participants : r <= reads => Below(r, anchor)'
    <3>1. \A r \in Participants : r > reads => Below(r, anchor)
      BY <2>1, <2>2, <2>4 DEF Below
    <3>2. \A r \in Participants : Below(r, anchor)
      BY <2>3, <2>4, <3>1 DEF AgreeInv, TypeOK
    <3>3. b <= anchor /\ b \in Nat /\ anchor \in Nat
      BY <2>1, <2>4, <3>2, RestartAssumption DEF AgreeInv, Below, TypeOK, Slots
    <3>4. \A c \in chain[b] : c <= anchor
      <4>1. chain[b] \subseteq 0 .. b
        BY <2>1 DEF ChainInv
      <4> QED
        BY <3>3, <4>1
    <3> QED
      BY <2>1, <3>2, <3>4 DEF Below
  <2> QED
    BY <2>1, <2>2, <2>3, <2>4 DEF AgreeInv
<1>3. CASE StopValidators
  <2>1. known' = known /\ step' \in {"stop validators", "pause", "failed"} /\ step = "stop validators"
    <3>1. ASSUME NEW line \in script, line[2] \in Validators, StopOne(line[2])
          PROVE  known' = known
      BY <3>1, ServicesByKind DEF StopOne
    <3> QED
      BY <1>3, <3>1, StopValidatorsIs DEF Begin
  <2> QED
    BY <2>1 DEF AgreeInv
<1>4. CASE StopNodes
  <2>1. inFlight' \subseteq inFlight /\ step' \in {"stop nodes", "answers", "failed"} /\ step = "stop nodes"
    BY <1>4, StopNodesIs DEF Begin, StopOne, Survive
  <2> QED
    BY <2>1 DEF AgreeInv
<1>5. CASE ReadHead
  <2>1. CASE step' = "stop nodes"
    BY <1>5, <2>1, ReadHeadIs DEF AgreeInv
  <2>2. CASE step' = "agree" /\ reads' = 0
    <3>1. \A q \in Participants : ~(q <= reads')
      BY <2>2, ServicesByKind
    <3>2. ~(reads' > 0)
      BY <2>2
    <3>3. UNCHANGED <<known, inFlight>> /\ step = "agree"
      BY <1>5, ReadHeadIs
    <3> QED
      BY <2>2, <3>1, <3>2, <3>3 DEF AgreeInv
  <2>3. CASE /\ step' = "agree" /\ reads' = reads + 1
             /\ \A q \in Participants : q <= reads + 1 => anchor' \in known[q]
             /\ anchor' > Genesis
             /\ (\A q \in Participants : q > reads + 1 => Below(q, anchor')) =>
                  \A q \in Participants : q <= reads + 1 => Below(q, anchor')
    BY <1>5, <2>3, ReadHeadIs DEF AgreeInv, Below
  <2> QED
    BY <1>5, <2>1, <2>2, <2>3, ReadHeadIs
<1>6. CASE AwaitFinality
  <2>1. Top(known[1]) > Genesis /\ Top(known[1]) \in known[1] /\ known' = known /\ step' = "stop validators"
    BY <1>6, ServicesByKind, TopIsLast DEF AwaitFinality, Move, Begin, TypeOK, ChainInv
  <2> QED
    BY <2>1 DEF AgreeInv
<1>7. CASE Pause
  <2>1. UNCHANGED <<known, inFlight>> /\ step = "pause" /\ step' = "agree" /\ reads' = 0 /\ inFlight = {}
    BY <1>7 DEF Pause, Move, Begin
  <2>2. \A q \in Participants : ~(q <= 0)
    BY ServicesByKind
  <2> QED
    BY <2>1, <2>2 DEF AgreeInv
<1>8. CASE CheckSilence
  <2>1. inFlight' = inFlight /\ step = "answers" /\ step' \in {"outage", "failed"}
    BY <1>8 DEF CheckSilence, Begin, Fail
  <2> QED
    BY <2>1 DEF AgreeInv
<1>9. CASE \/ StartParticipants \/ Connect \/ WaitOutage \/ Inspect \/ Reconnect \/ SeeNewBlock \/ CheckHead
           \/ GiveUp
  <2>1. step' \in {"start", "inspect", "failed", "connect", "finalize", "reconnect", "resume", "passed", "changed"}
    <3>1. CASE StartParticipants
      BY <3>1, StartIs DEF Begin
    <3>2. CASE Connect \/ Reconnect
      BY <3>2 DEF Connect, Reconnect, Open, Begin, Fail, Stay
    <3>3. CASE WaitOutage \/ Inspect \/ SeeNewBlock \/ CheckHead \/ GiveUp
      BY <3>3 DEF WaitOutage, Inspect, SeeNewBlock, CheckHead, GiveUp, Move, Begin, Fail, Stay
    <3> QED
      BY <1>9, <3>1, <3>2, <3>3
  <2> QED
    BY <2>1 DEF AgreeInv
<1>10. CASE UNCHANGED vars
  BY <1>10 DEF vars, AgreeInv, Below
<1> QED
  BY <1>1, <1>2, <1>3, <1>4, <1>5, <1>6, <1>7, <1>8, <1>9, <1>10 DEF Next


(***************************************************************************)
(* What the chain is built on after the agreement.                         *)
(***************************************************************************)
LEMMA HeadStep ==
  ASSUME TypeOK, RunInv, ConnectionsInv, ChainInv, AgreeInv, HeadInv, [Next]_vars
  PROVE  HeadInv'
<1> USE DEF network, services, suite
<1>a. /\ slot \in Nat /\ head \in Nat /\ Slots \subseteq Nat /\ Genesis = 0
      /\ known \in [Participants -> SUBSET Slots] /\ inFlight \subseteq Participants \X Slots
      /\ lost \in BOOLEAN
  BY RestartAssumption DEF TypeOK, Slots, Genesis
<1>b. \A b \in Slots : chain[b] \subseteq 0 .. b /\ (b > slot => chain[b] = {})
  BY DEF ChainInv
<1>1. ASSUME NEW p \in Participants, Sign(p)
      PROVE  HeadInv'
  <2> DEFINE top == Top(known[p])
  <2>1. /\ slot + 1 \in Slots /\ slot' = slot + 1 /\ top \in known[p] /\ \A b \in known[p] : b <= top
        /\ known' = known /\ chain'[slot + 1] = chain[top] \cup {slot + 1}
        /\ \A b \in Slots : b # slot + 1 => chain'[b] = chain[b]
        /\ inFlight' = inFlight \cup {<<p, slot + 1>>}
    BY <1>1, SignIs
  <2>2. ~Quiet /\ step \notin {"stop nodes", "answers"} /\ UNCHANGED <<running, step, head, lost>>
    BY <1>1, SignerRuns DEF Sign
  <2> HIDE DEF top
  <2>3. \A q \in Participants : \A b \in known[q] : chain'[b] = chain[b]
    <3>1. \A q \in Participants : \A b \in known[q] : b \in Slots /\ b \in Nat /\ b <= slot
      BY <1>a DEF ChainInv
    <3>2. \A q \in Participants : \A b \in known[q] : b # slot + 1
      BY <1>a, <3>1
    <3> QED
      BY <2>1, <3>1, <3>2
  <2>4. \A m \in inFlight : chain'[m[2]] = chain[m[2]]
    <3>1. \A m \in inFlight : m[2] \in Slots /\ m[2] \in Nat /\ m[2] <= slot
      BY <1>a DEF ChainInv
    <3>2. \A m \in inFlight : m[2] # slot + 1
      BY <1>a, <3>1
    <3> QED
      BY <2>1, <3>1, <3>2
  <2>5. step \in Agreed => head > Genesis /\ head <= slot'
    <3> SUFFICES ASSUME step \in Agreed
                 PROVE  head > Genesis /\ head <= slot'
      OBVIOUS
    <3>1. head > Genesis /\ head <= slot
      BY DEF HeadInv
    <3>2. slot' = slot + 1
      BY <2>1
    <3> HIDE DEF network, services, suite
    <3> QED
      BY <1>a, <3>1, <3>2
  <2>6. step \in Agreed => head # slot + 1
    <3> SUFFICES ASSUME step \in Agreed
                 PROVE  head # slot + 1
      OBVIOUS
    <3>1. head <= slot
      BY DEF HeadInv
    <3> HIDE DEF network, services, suite
    <3> QED
      BY <1>a, <3>1
  <2>7. step \in Agreed /\ ~lost =>
          /\ \A q \in Participants : head \in known[q]
          /\ \A q \in Participants : \A b \in known[q] : b >= head => head \in chain'[b]
          /\ \A m \in inFlight' : head \in chain'[m[2]]
    <3> SUFFICES ASSUME step \in Agreed, ~lost
                 PROVE  /\ \A q \in Participants : head \in known[q]
                        /\ \A q \in Participants : \A b \in known[q] : b >= head => head \in chain'[b]
                        /\ \A m \in inFlight' : head \in chain'[m[2]]
      OBVIOUS
    <3>1. /\ \A q \in Participants : head \in known[q]
          /\ \A q \in Participants : \A b \in known[q] : b >= head => head \in chain[b]
          /\ \A m \in inFlight : head \in chain[m[2]]
      BY DEF HeadInv
    <3>2. head \in chain'[slot + 1]
      <4>1. top >= head
        BY <1>a, <2>1, <3>1
      <4> QED
        BY <2>1, <3>1, <4>1
    <3> QED
      BY <2>1, <2>3, <2>4, <3>1, <3>2
  <2>8. step \in Agreed \ {"stop nodes", "answers"} /\ lost =>
          /\ \A q \in Participants : head \notin known[q]
          /\ \A m \in inFlight' : head \notin chain'[m[2]]
    <3> SUFFICES ASSUME step \in Agreed \ {"stop nodes", "answers"}, lost
                 PROVE  /\ \A q \in Participants : head \notin known[q]
                        /\ \A m \in inFlight' : head \notin chain'[m[2]]
      OBVIOUS
    <3>1. /\ \A q \in Participants : head \notin known[q]
          /\ \A m \in inFlight : head \notin chain[m[2]]
      BY DEF HeadInv
    <3>2. head \notin chain'[slot + 1]
      <4>1. chain[top] \subseteq known[p]
        BY <2>1 DEF ChainInv
      <4>2. head # slot + 1
        BY <2>6
      <4>3. head \notin known[p]
        BY <3>1
      <4> QED
        BY <2>1, <4>1, <4>2, <4>3
    <3>3. ASSUME NEW m \in inFlight'
          PROVE  head \notin chain'[m[2]]
      <4>1. CASE m \in inFlight
        BY <2>4, <3>1, <4>1
      <4>2. CASE m = <<p, slot + 1>>
        BY <3>2, <4>2
      <4> QED
        BY <2>1, <3>3, <4>1, <4>2
    <3> QED
      BY <3>1, <3>3
  <2>9. ~Quiet'
    BY <2>2 DEF Quiet
  <2> QED
    BY <2>1, <2>2, <2>5, <2>7, <2>8, <2>9 DEF HeadInv
<1>2. ASSUME NEW p \in Participants, NEW q \in Participants, NEW b \in 1 .. MaxSlot,
             Process(p, b) \/ Gossip(p, q, b)
      PROVE  HeadInv'
  <2>1. /\ b \in Slots /\ UNCHANGED <<slot, chain>> /\ inFlight' \subseteq inFlight
        /\ known'[p] = known[p] \cup chain[b] /\ b \in chain[b]
        /\ \A r \in Participants : r # p => known'[r] = known[r]
        /\ \/ b \in known[q] /\ chain[b] \subseteq known[q]
           \/ <<p, b>> \in inFlight /\ chain[b] \subseteq known[p] \cup {b}
        /\ Runs("beacon", p)
    BY <1>2, ArriveIs
  <2>2. UNCHANGED <<running, step, head, lost>>
    BY <1>2 DEF Process, Gossip, Arrive
  <2>3. step \in Agreed /\ ~lost =>
          /\ \A r \in Participants : head \in known'[r]
          /\ \A r \in Participants : \A c \in known'[r] : c >= head => head \in chain[c]
          /\ \A m \in inFlight' : head \in chain[m[2]]
    <3> SUFFICES ASSUME step \in Agreed, ~lost
                 PROVE  /\ \A r \in Participants : head \in known'[r]
                        /\ \A r \in Participants : \A c \in known'[r] : c >= head => head \in chain[c]
                        /\ \A m \in inFlight' : head \in chain[m[2]]
      OBVIOUS
    <3>1. /\ \A r \in Participants : head \in known[r]
          /\ \A r \in Participants : \A c \in known[r] : c >= head => head \in chain[c]
          /\ \A m \in inFlight : head \in chain[m[2]]
      BY DEF HeadInv
    <3>2. ASSUME NEW c \in chain[b], c >= head
          PROVE  head \in chain[c]
      <4>1. CASE c \in known[q] \/ c \in known[p]
        BY <3>1, <3>2, <4>1
      <4>2. CASE c = b /\ <<p, b>> \in inFlight
        BY <3>1, <4>2
      <4> QED
        BY <2>1, <4>1, <4>2
    <3> QED
      BY <2>1, <3>1, <3>2
  <2>4. step \in Agreed \ {"reconnect", "resume"} /\ ~lost /\ Quiet =>
          inFlight' = {} /\ \A r \in Participants : Below(r, head)'
    <3> SUFFICES ASSUME step \in Agreed \ {"reconnect", "resume"}, ~lost, Quiet
                 PROVE  inFlight' = {} /\ \A r \in Participants : Below(r, head)'
      OBVIOUS
    <3>1. inFlight = {} /\ \A r \in Participants : Below(r, head)
      BY DEF HeadInv
    <3>2. b \in known[q] /\ b <= head /\ b \in Nat
      BY <1>a, <2>1, <3>1 DEF Below
    <3>3. \A c \in chain[b] : c <= head
      <4>1. chain[b] \subseteq 0 .. b
        BY <1>b, <2>1
      <4> QED
        BY <1>a, <3>2, <4>1
    <3> QED
      BY <2>1, <2>2, <3>1, <3>3 DEF Below
  <2>5. step \in Agreed \ {"stop nodes", "answers"} /\ lost =>
          /\ \A r \in Participants : head \notin known'[r]
          /\ \A m \in inFlight' : head \notin chain[m[2]]
    <3> SUFFICES ASSUME step \in Agreed \ {"stop nodes", "answers"}, lost
                 PROVE  /\ \A r \in Participants : head \notin known'[r]
                        /\ \A m \in inFlight' : head \notin chain[m[2]]
      OBVIOUS
    <3>1. /\ \A r \in Participants : head \notin known[r]
          /\ \A m \in inFlight : head \notin chain[m[2]]
      BY DEF HeadInv
    <3>2. head \notin chain[b]
      BY <2>1, <3>1
    <3> QED
      BY <2>1, <3>1, <3>2
  <2>6. step \in {"stop nodes", "answers"} /\ lost =>
          \A r \in Participants : ~Runs("beacon", r) => known'[r] = {Genesis}
    BY <2>1 DEF HeadInv
  <2>7. Quiet' = Quiet /\ \A r : Runs("beacon", r)' = Runs("beacon", r)
    BY <2>2 DEF Quiet, Runs
  <2> QED
    BY <2>1, <2>2, <2>3, <2>4, <2>5, <2>6, <2>7 DEF HeadInv
<1>3. CASE StopNodes
  <2>1. step = "stop nodes" /\ Quiet /\ UNCHANGED head
    BY <1>3, NoValidatorRuns, InstructIs DEF StopNodes, Instruct
  <2>2. CASE step' = "failed"
    BY <2>2 DEF HeadInv, Agreed
  <2>3. CASE script = {} /\ Begin("answers", {}) /\ UNCHANGED <<services, network>>
    BY <2>1, <2>3 DEF Begin, HeadInv, Agreed, Quiet, Below, Runs
  <2>4. ASSUME NEW line \in script, line[2] \in Services, StopOne(line[2]) \/ Survive(line[2]), UNCHANGED step
        PROVE  HeadInv'
    <3> DEFINE s == line[2]
    <3>1. CASE Survive(s)
      BY <2>1, <2>4, <3>1 DEF Survive, HeadInv, Agreed, Quiet, Below, Runs
    <3>2. CASE StopOne(s)
      <4>1. /\ running' = running \ {s} /\ inFlight' \subseteq inFlight /\ UNCHANGED <<slot, chain, lost>>
            /\ (~lost => known' = known)
        BY <3>2 DEF StopOne
      <4>2. Quiet'
        BY <2>1, <4>1 DEF Quiet
      <4>3. CASE ~lost
        BY <2>1, <2>4, <4>1, <4>2, <4>3 DEF HeadInv, Agreed, Below
      <4>4. CASE lost
        <5>1. ASSUME NEW r \in Participants, ~Runs("beacon", r)'
              PROVE  known'[r] = {Genesis}
          <6>1. CASE s = <<"beacon", r>>
            <7>1. s[1] = "beacon" /\ s[2] = r
              BY <6>1
            <7> QED
              BY <1>a, <3>2, <4>4, <7>1 DEF StopOne
          <6>2. CASE s # <<"beacon", r>>
            <7>1. known[r] = {Genesis}
              BY <2>1, <4>1, <4>4, <5>1, <6>2 DEF HeadInv, Runs
            <7>2. known'[r] = known[r] \/ (s[1] = "beacon" /\ s[2] = r)
              BY <1>a, <3>2 DEF StopOne
            <7>3. s = <<s[1], s[2]>>
              BY <2>4, ServicesByKind
            <7> QED
              BY <6>2, <7>1, <7>2, <7>3
          <6> QED
            BY <6>1, <6>2
        <5> QED
          BY <2>1, <2>4, <4>1, <4>4, <5>1 DEF HeadInv, Agreed
      <4> QED
        BY <1>a, <4>3, <4>4
    <3> QED
      BY <2>4, <3>1, <3>2
  <2> QED
    BY <1>3, <2>2, <2>3, <2>4, StopNodesIs
<1>4. CASE StartParticipants
  <2>1. step = "start" /\ UNCHANGED <<head, slot, chain, inFlight, known, lost>> /\ running \subseteq running'
        /\ step' \in {"start", "inspect", "failed"}
    BY <1>4, StartIs, InstructIs DEF StartParticipants, Instruct, Start, Begin
  <2>2. Quiet' => Quiet
    BY <2>1 DEF Quiet
  <2> QED
    BY <2>1, <2>2 DEF HeadInv, Agreed, Below
<1>5. CASE ReadHead
  <2>1. CASE step' = "agree"
    BY <2>1 DEF HeadInv, Agreed
  <2>2. CASE /\ step' = "stop nodes" /\ head' = anchor'
             /\ \A q \in Participants : anchor' \in known[q] /\ Below(q, anchor')
             /\ anchor' > Genesis
    <3>1. UNCHANGED <<services, network>> /\ step = "agree" /\ inFlight = {}
      BY <1>5, ReadHeadIs DEF AgreeInv
    <3>2. head' \in known[1] /\ head' <= slot /\ head' \in Nat
      BY <1>a, <2>2, ServicesByKind DEF ChainInv
    <3>3. \A q \in Participants : \A b \in known[q] : b >= head' => head' \in chain[b]
      <4>1. ASSUME NEW q \in Participants, NEW b \in known[q], b >= head'
            PROVE  b = head' /\ b \in chain[b]
        <5>1. b <= head' /\ b \in Nat
          BY <1>a, <2>2, <4>1 DEF Below
        <5> QED
          BY <3>2, <4>1, <5>1 DEF ChainInv
      <4> QED
        BY <4>1
    <3>4. \A p \in Participants : Runs("beacon", p)
      BY <3>1, ServicesByKind DEF RunInv, Runs
    <3>5. /\ \A q \in Participants : head' \in known'[q]
          /\ \A q \in Participants : Below(q, head)'
          /\ \A p \in Participants : Runs("beacon", p)'
      BY <2>2, <3>1, <3>4 DEF Below, Runs
    <3> QED
      BY <2>2, <3>1, <3>2, <3>3, <3>5 DEF HeadInv
  <2> QED
    BY <1>5, <2>1, <2>2, ReadHeadIs
<1>6. CASE CheckSilence
  <2>1. step = "answers" /\ UNCHANGED <<services, network, head>> /\ step' \in {"outage", "failed"}
    BY <1>6 DEF CheckSilence, Begin, Fail
  <2>2. CASE step' = "outage"
    <3>1. running = {}
      BY <2>1, <2>2, RunStep DEF RunInv
    <3>2. inFlight = {} /\ Quiet
      BY <2>1, NoValidatorRuns DEF AgreeInv
    <3>3. lost => \A p \in Participants : head \notin known[p]
      <4>1. lost => \A p \in Participants : known[p] = {Genesis}
        BY <2>1, <3>1 DEF HeadInv, Runs
      <4>2. head > Genesis
        BY <2>1 DEF HeadInv, Agreed
      <4> QED
        BY <1>a, <4>1, <4>2
    <3> QED
      BY <2>1, <2>2, <3>2, <3>3 DEF HeadInv, Agreed, Quiet, Below
  <2> QED
    BY <2>1, <2>2 DEF HeadInv, Agreed
<1>7. CASE WaitOutage
  <2>1. step = "outage" /\ step' = "start" /\ UNCHANGED <<services, chain, inFlight, known, lost, head>>
    BY <1>7 DEF WaitOutage, Move, Begin
  <2>2. head > Genesis /\ head <= slot'
    <3>1. Outage \in Nat /\ slot' = slot + Outage
      BY <1>7, RestartAssumption DEF WaitOutage
    <3>2. head > Genesis /\ head <= slot
      BY <2>1 DEF HeadInv, Agreed
    <3> QED
      BY <1>a, <3>1, <3>2
  <2> QED
    BY <2>1, <2>2 DEF HeadInv, Agreed, Quiet, Below
<1>8. CASE Inspect \/ Reconnect \/ SeeNewBlock \/ CheckHead
  <2>1. /\ UNCHANGED <<services, network, head>> /\ step \in {"inspect", "reconnect", "resume"}
        /\ step' \in {"reconnect", "resume", "passed", "failed", "changed"}
    BY <1>8 DEF Inspect, Reconnect, Open, SeeNewBlock, CheckHead, Move, Begin, Fail, Stay
  <2> QED
    BY <2>1 DEF HeadInv, Agreed
<1>9. CASE Connect \/ AwaitFinality \/ StopValidators \/ Pause \/ GiveUp
  <2>1. step' \in {"connect", "finalize", "stop validators", "pause", "agree", "failed"}
    <3>1. CASE StopValidators
      BY <3>1, StopValidatorsIs DEF Begin
    <3>2. CASE Connect \/ AwaitFinality \/ Pause \/ GiveUp
      BY <3>2 DEF Connect, Open, AwaitFinality, Pause, GiveUp, Move, Begin, Fail, Stay
    <3> QED
      BY <1>9, <3>1, <3>2
  <2> QED
    BY <2>1 DEF HeadInv, Agreed
<1>10. CASE UNCHANGED vars
  BY <1>10 DEF vars, HeadInv, Quiet, Below, Runs
<1> QED
  BY <1>1, <1>2, <1>3, <1>4, <1>5, <1>6, <1>7, <1>8, <1>9, <1>10 DEF Next


-----------------------------------------------------------------------------
(***************************************************************************)
(* The verdict.  A new block is built on the agreed head or not, and that  *)
(* depends on the data alone.                                              *)
(***************************************************************************)
LEMMA VerdictStep ==
  ASSUME IInv, [Next]_vars
  PROVE  VerdictIsRight'
<1>1. CASE CheckHead
  <2> DEFINE p == reads + 1
             top == Top(known[p])
  <2>1. /\ step = "resume" /\ UNCHANGED <<survivors, lost>> /\ Runs("beacon", p)
        /\ step' = "passed" => HeadKept(p)
        /\ step' = "changed" => ~HeadKept(p)
    BY <1>1 DEF CheckHead, Reached, Fail, Stay, Begin, services, network
  <2>2. p \in Participants
    BY <2>1, ServicesByKind DEF IInv, TypeOK, Runs
  <2>3. survivors = {}
    BY <2>1 DEF IInv, RunInv
  <2>4. top \in known[p] /\ \A b \in known[p] : b <= top
    BY <2>2, TopIsLast DEF IInv, TypeOK, ChainInv
  <2>5. chain[top] \subseteq known[p]
    BY <2>2, <2>4 DEF IInv, ChainInv
  <2>6. ASSUME lost
        PROVE  ~HeadKept(p)
    <3>1. head \notin known[p]
      BY <2>1, <2>2, <2>6 DEF IInv, HeadInv, Agreed
    <3> QED
      BY <2>5, <3>1 DEF HeadKept
  <2>7. ASSUME ~lost
        PROVE  HeadKept(p)
    <3>1. head \in known[p] /\ \A b \in known[p] : b >= head => head \in chain[b]
      BY <2>1, <2>2, <2>7 DEF IInv, HeadInv, Agreed
    <3>2. head <= top
      BY <2>4, <3>1
    <3>3. head \in Nat /\ top \in Nat
      BY <2>2, <2>4 DEF IInv, TypeOK, Slots
    <3>4. top >= head
      BY <3>2, <3>3
    <3> QED
      BY <2>4, <3>1, <3>4 DEF HeadKept
  <2> QED
    BY <2>1, <2>3, <2>6, <2>7 DEF VerdictIsRight
<1>2. CASE NetworkMoves \/ UNCHANGED vars
  BY <1>2, NetworkOnly DEF IInv, VerdictIsRight, services, suite
<1>3. CASE StopValidators \/ StopNodes \/ StartParticipants
  <2>1. step' \notin {"passed", "changed"}
    BY <1>3, StopValidatorsIs, StopNodesIs, StartIs DEF IInv, Begin
  <2> QED
    BY <2>1 DEF VerdictIsRight
<1>4. CASE Connect \/ AwaitFinality \/ Pause \/ ReadHead \/ CheckSilence \/ WaitOutage
           \/ Inspect \/ Reconnect \/ SeeNewBlock \/ GiveUp
  <2>1. step' \notin {"passed", "changed"}
    BY <1>4 DEF Connect, Reconnect, Open, AwaitFinality, Pause, ReadHead, CheckSilence, WaitOutage,
                Inspect, SeeNewBlock, GiveUp, Move, Begin, Fail, Stay
  <2> QED
    BY <2>1 DEF VerdictIsRight
<1> QED
  BY <1>1, <1>2, <1>3, <1>4 DEF Next, NetworkMoves

(***************************************************************************)
(* The invariant holds at first, and every step keeps it.                  *)
(***************************************************************************)
LEMMA InitIInv == Init => IInv
<1> SUFFICES ASSUME Init
             PROVE  IInv
  OBVIOUS
<1>a. /\ Genesis = 0 /\ Genesis \in Slots /\ MaxSlot \in Nat /\ slot = 0
      /\ step = "connect" /\ script = {} /\ reads = 0 /\ inFlight = {} /\ survivors = {}
      /\ running = Services /\ environment = port /\ opened = {}
      /\ known = [p \in Participants |-> {Genesis}]
      /\ chain = [b \in Slots |-> IF b = Genesis THEN {Genesis} ELSE {}]
  BY RestartAssumption DEF Init, Genesis, Slots
<1>1. TypeOK
  <2>1. chain \in [Slots -> SUBSET Slots] /\ known \in [Participants -> SUBSET Slots]
    BY <1>a
  <2>2. port \in [Services -> Nat] /\ nodes \in [Participants -> Nat] /\ lost \in BOOLEAN
        /\ seen \in BOOLEAN /\ anchor = Genesis /\ head = Genesis
    BY DEF Init
  <2>3. "connect" \in Steps
    BY DEF Steps
  <2> QED
    BY <1>a, <2>1, <2>2, <2>3 DEF TypeOK
<1>2. RunInv
  <2>1. \A p \in Participants : Runs("beacon", p) /\ Runs("execution", p)
    BY <1>a DEF Runs, Services
  <2> QED
    BY <1>a, <2>1 DEF RunInv, DependenciesUp
<1>3. ConnectionsInv
  BY <1>a DEF ConnectionsInv, Participants
<1>4. ChainInv
  BY <1>a DEF ChainInv, Slots
<1>5. AgreeInv /\ HeadInv /\ VerdictIsRight
  BY <1>a DEF AgreeInv, HeadInv, Agreed, VerdictIsRight
<1> QED
  BY <1>1, <1>2, <1>3, <1>4, <1>5 DEF IInv

LEMMA NextIInv == IInv /\ [Next]_vars => IInv'
BY TypeStep, RunStep, ConnectionsStep, ChainStep, AgreeStep, HeadStep, VerdictStep DEF IInv

LEMMA AlwaysIInv == Spec => []IInv
BY InitIInv, NextIInv, PTL DEF Spec


-----------------------------------------------------------------------------
(***************************************************************************)
(* No running validator is ever without its beacon node, and no beacon     *)
(* node that the engine did stop outlives its execution client: the order  *)
(* of the scripts, whichever line of one of them fails.                    *)
(***************************************************************************)
THEOREM DependenciesHoldUp == Spec => []DependenciesUp
<1>1. IInv => DependenciesUp
  BY DEF IInv, RunInv
<1> QED
  BY <1>1, AlwaysIInv, PTL

(***************************************************************************)
(* "no later block can replace it": with the validators stopped and every  *)
(* signed block delivered before the comparison, the head all nodes were   *)
(* read with is the head of each until a validator signs again.            *)
(***************************************************************************)
THEOREM HeadIsKept == Spec => []AgreedHeadIsKept
<1>a. Slots \subseteq Nat
  BY RestartAssumption DEF Slots
<1>b. \A a, b \in Nat : a <= b /\ b <= a => a = b
  OBVIOUS
<1>1. ASSUME IInv
      PROVE  AgreedHeadIsKept
  <2> SUFFICES ASSUME step \in {"stop nodes", "answers", "outage", "start", "inspect"}, ~lost,
                      \A p \in Participants : ~Runs("validator", p), NEW p \in Participants
               PROVE  Top(known[p]) = head
    BY DEF AgreedHeadIsKept
  <2>1. Quiet
    <3>1. ASSUME NEW s \in running \cap Validators
          PROVE  FALSE
      <4>1. s = <<"validator", s[2]>> /\ s[2] \in Participants
        BY ServicesByKind
      <4> QED
        BY <4>1 DEF Runs
    <3> QED
      BY <3>1 DEF Quiet
  <2>2. head \in known[p] /\ \A b \in known[p] : b <= head
    BY <1>1, <2>1 DEF IInv, HeadInv, Agreed, Below
  <2>3. Top(known[p]) \in known[p] /\ \A b \in known[p] : b <= Top(known[p])
    BY <1>1, <2>2, TopIsLast DEF IInv, TypeOK
  <2>4. head <= Top(known[p]) /\ Top(known[p]) <= head
    BY <2>2, <2>3
  <2>5. head \in Nat /\ Top(known[p]) \in Nat
    <3>1. head \in Slots /\ Top(known[p]) \in Slots
      BY <1>1, <2>3 DEF IInv, TypeOK
    <3> QED
      BY <1>a, <3>1
  <2> QED
    BY <1>b, <2>4, <2>5
<1> QED
  BY <1>1, AlwaysIInv, PTL

(***************************************************************************)
(* The suite passes only on a network whose nodes were all down and kept   *)
(* their data, and reports another chain only of one that lost it.         *)
(***************************************************************************)
THEOREM VerdictsAreRight == Spec => []VerdictIsRight
<1>1. IInv => VerdictIsRight
  BY DEF IInv
<1> QED
  BY <1>1, AlwaysIInv, PTL

=============================================================================
