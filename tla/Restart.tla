------------------------------ MODULE Restart ------------------------------
(***************************************************************************)
(* e2e/suites/resilience/networkrestart over e2e/internal/live and the     *)
(* service instructions of the manager: stop the validators, agree on a    *)
(* head, stop every node, wait, start everything in the order of a         *)
(* recovery, connect again on the new ports, and see the old head kept.    *)
(*                                                                         *)
(* The network underneath is small: a validator signs a block on the head  *)
(* of its beacon node, the block reaches that node a little later and the  *)
(* other nodes at any time.  A block is its slot.                          *)
(***************************************************************************)
EXTENDS Naturals, Sequences, FiniteSets, FiniteSetsExt

CONSTANTS
  N,        \* participants of the network
  Signers,  \* those that run a validator client
  Outage,   \* slots the outage lasts
  Before,   \* bound: the last slot with a block before the outage
  MaxSlot,  \* bound: the last slot with a block
  Faults    \* "call": an engine call fails; "survivor": a stopped beacon node
            \* goes on; "loss": the nodes come back without their data

ASSUME RestartAssumption ==
  /\ N \in Nat \ {0} /\ Signers \subseteq 1 .. N
  /\ {Outage, Before, MaxSlot} \subseteq Nat /\ Before <= MaxSlot
  /\ Faults \subseteq {"call", "survivor", "loss"}

Participants == 1 .. N
Kinds == {"execution", "beacon", "validator"}
Services == ({"execution", "beacon"} \X Participants) \cup ({"validator"} \X Signers)

VARIABLES
  running,     \* the services that run
  port,        \* port[s]: the host port a service was last published on
  environment, \* the ports the runtime knows
  opened,      \* the connections the runtime owns: participants and ports
  nodes,       \* nodes[p]: the port the suite's handle of p talks to
  slot,        \* the slot of the last signed block, or of the end of the outage
  chain,       \* chain[b]: block b and the ones it is built on
  inFlight,    \* signed blocks that have not reached the beacon node of their signer
  known,       \* known[p]: the blocks in the database of p
  lost,        \* the nodes lose their data when they stop
  survivors,   \* beacon nodes the engine reported as stopped, and were not
  step,        \* where the suite is
  script,      \* the lines the script of the current instruction has left
  reads,       \* the nodes the current comparison has read
  seen,        \* the node being checked has shown a new block
  anchor,      \* the head of the first node in this comparison
  head         \* the agreed head

services == <<running, port, survivors>>
runtime == <<environment, opened, nodes>>
network == <<slot, chain, inFlight, known, lost>>
suite == <<step, script, reads, seen, anchor, head>>
vars == <<services, runtime, network, suite>>

Genesis == 0
Top(blocks) == Max(blocks)

\* services: the lines of one script, kind after kind, without the services
\* that are not run.
Named(kinds) == {line \in (DOMAIN kinds) \X Services : line[2][1] = kinds[line[1]]}

\* Of one kind, the lowest participant comes first.
IsFirst(line) ==
  line \in script /\ \A other \in script :
    line[1] < other[1] \/ (line[1] = other[1] /\ line[2][2] <= other[2][2])

Init ==
  /\ running = Services /\ survivors = {}
  /\ port = [s \in Services |-> 1] /\ environment = port
  /\ opened = {} /\ nodes = [p \in Participants |-> 0]
  /\ slot = Genesis /\ inFlight = {}
  /\ chain = [b \in 0 .. MaxSlot |-> IF b = Genesis THEN {Genesis} ELSE {}]
  /\ known = [p \in Participants |-> {Genesis}]
  /\ lost \in (IF "loss" \in Faults THEN BOOLEAN ELSE {FALSE})
  /\ step = "connect" /\ script = {} /\ reads = 0 /\ seen = FALSE
  /\ anchor = Genesis /\ head = Genesis

-----------------------------------------------------------------------------
(***************************************************************************)
(* The network.                                                            *)
(***************************************************************************)
Runs(kind, p) == <<kind, p>> \in running
Ended == step \in {"passed", "failed", "changed"}
OutageBegan == step \notin {"connect", "finalize", "stop validators", "pause", "agree"}

Sign(p) ==
  /\ ~Ended /\ \A kind \in Kinds : Runs(kind, p)
  /\ slot < IF OutageBegan THEN MaxSlot ELSE Before
  /\ slot' = slot + 1
  /\ chain' = [chain EXCEPT ![slot + 1] = chain[Top(known[p])] \cup {slot + 1}]
  /\ inFlight' = inFlight \cup {<<p, slot + 1>>}
  /\ UNCHANGED <<services, runtime, known, lost, suite>>

Arrive(p, b) ==
  /\ ~Ended /\ Runs("beacon", p) /\ b \notin known[p]
  /\ known' = [known EXCEPT ![p] = @ \cup chain[b]]
  /\ UNCHANGED <<services, runtime, slot, chain, lost, suite>>

Process(p, b) ==
  /\ <<p, b>> \in inFlight /\ inFlight' = inFlight \ {<<p, b>>}
  /\ Arrive(p, b)

Gossip(p, q, b) ==
  /\ Runs("beacon", q) /\ b \in known[q]
  /\ Arrive(p, b) /\ UNCHANGED inFlight

-----------------------------------------------------------------------------
(***************************************************************************)
(* The suite: one step after the other, and the first failure ends it.     *)
(***************************************************************************)
Begin(next, instructions) == step' = next /\ script' = instructions /\ reads' = 0
Stay == UNCHANGED <<step, script>>
Fail(why) == step' = why /\ UNCHANGED <<script, reads>>

\* Faulty: the validators are started first, as the slowest to be ready.
ValidatorsFirst == Named(<<"validator", "execution", "beacon">>)

ValidatorsDown == Named(<<"validator">>)
NodesDown == Named(<<"beacon", "execution">>)
AllUp == Named(<<"execution", "beacon", "validator">>)

\* A handle reaches the node it was opened for as long as its port is current.
Reached(p) ==
  Runs("beacon", p) /\ nodes[p] = port[<<"beacon", p>>] /\ <<p, nodes[p]>> \in opened

\* Nodes: every participant is opened, or the suite has none.
Open(at, next, instructions) ==
  /\ step = at
  /\ \/ /\ reads < N /\ reads' = reads + 1 /\ Stay
        /\ opened' = opened \cup {<<reads + 1, environment[<<"beacon", reads + 1>>]>>}
        /\ UNCHANGED nodes
     \/ /\ reads = N /\ Begin(next, instructions)
        /\ nodes' = [p \in Participants |-> environment[<<"beacon", p>>]]
        /\ UNCHANGED opened
     \/ "call" \in Faults /\ Fail("failed") /\ UNCHANGED <<opened, nodes>>
  /\ UNCHANGED <<services, environment, network, seen, anchor, head>>

Connect == Open("connect", "finalize", {})
Reconnect == Open("reconnect", "resume", {})

\* A service stops, and with a beacon node what was on its way to it.
StopOne(s) ==
  /\ running' = running \ {s} /\ UNCHANGED survivors
  /\ inFlight' = {m \in inFlight : s # <<"beacon", m[1]>>}
  /\ known' = IF lost /\ s[1] = "beacon" THEN [known EXCEPT ![s[2]] = {Genesis}] ELSE known
  /\ UNCHANGED <<port, slot, chain, lost>>

Survive(s) ==
  /\ "survivor" \in Faults /\ s[1] = "beacon" /\ survivors' = survivors \cup {s}
  /\ UNCHANGED <<running, port, network>>

Stop(s) == StopOne(s) \/ Survive(s)

\* The engine publishes a started service on a new port.
Start(s) ==
  /\ running' = running \cup {s} /\ port' = [port EXCEPT ![s] = @ + 1]
  /\ UNCHANGED <<survivors, network>>

\* What the instruction of the current step does to a service.
Effect(s) ==
  \/ step = "start" /\ Start(s)
  \/ step \in {"stop validators", "stop nodes"} /\ Stop(s)

\* One script for all services of an instruction, in order: it ends with its
\* first error, reported for an instruction that may have taken effect.
Instruct(at, next) ==
  /\ step = at
  /\ \/ script = {} /\ Begin(next, {}) /\ UNCHANGED <<services, network>>
     \/ \E line \in script :
          /\ IsFirst(line) /\ Effect(line[2]) /\ script' = script \ {line}
          /\ UNCHANGED <<step, reads>>
     \/ /\ "call" \in Faults /\ script # {} /\ Fail("failed")
        /\ \/ \E line \in script : IsFirst(line) /\ Effect(line[2])
           \/ UNCHANGED <<services, network>>
  /\ UNCHANGED <<runtime, seen, anchor, head>>

StopValidators == Instruct("stop validators", "pause")
StopNodes == Instruct("stop nodes", "answers")
StartParticipants == Instruct("start", "inspect")

Move(from, next, instructions) ==
  step = from /\ Begin(next, instructions) /\ UNCHANGED <<services, seen, anchor, head>>

\* The chain of the first node has left its genesis, and finalizes.
AwaitFinality ==
  /\ Reached(1) /\ Top(known[1]) > Genesis
  /\ Move("finalize", "stop validators", ValidatorsDown) /\ UNCHANGED <<runtime, network>>

\* Faulty: the heads are compared at once.
NoPause == Move("pause", "agree", {}) /\ UNCHANGED <<runtime, network>>

\* A slot passes: by then a signed block has reached its own beacon node.
Pause ==
  /\ inFlight = {}
  /\ Move("pause", "agree", {}) /\ UNCHANGED <<runtime, network>>

\* The poll of the heads, one node after the other; a difference or an error
\* ends the attempt, and the next begins with the first node again.
ReadHead ==
  /\ step = "agree"
  /\ LET p == reads + 1
         top == Top(known[p])
     IN /\ Reached(p)
        /\ anchor' = IF p = 1 THEN top ELSE anchor
        /\ \/ top # anchor' /\ reads' = 0 /\ Stay /\ UNCHANGED head
           \/ top = anchor' /\ p < N /\ reads' = p /\ Stay /\ UNCHANGED head
           \/ top = anchor' /\ p = N /\ head' = anchor' /\ Begin("stop nodes", NodesDown)
  /\ UNCHANGED <<services, runtime, network, seen>>

\* Faulty: the first node answers for all.
FirstIsSilent == ~Reached(1)

NodesAreSilent == \A p \in Participants : ~Reached(p)

CheckSilence ==
  /\ step = "answers"
  /\ IF NodesAreSilent THEN Begin("outage", {}) ELSE Fail("failed")
  /\ UNCHANGED <<services, runtime, network, seen, anchor, head>>

WaitOutage ==
  /\ Move("outage", "start", AllUp) /\ slot' = slot + Outage
  /\ UNCHANGED <<runtime, chain, inFlight, known, lost>>

\* The end of StartParticipants.
Inspect ==
  \/ /\ Move("inspect", "reconnect", {}) /\ environment' = port /\ opened' = {}
     /\ UNCHANGED <<nodes, network>>
  \/ /\ step = "inspect" /\ "call" \in Faults /\ Fail("failed")
     /\ UNCHANGED <<services, runtime, network, seen, anchor, head>>

\* A node shows a block of after the outage.
SeeNewBlock ==
  /\ step = "resume" /\ ~seen /\ reads < N /\ Reached(reads + 1)
  /\ Top(known[reads + 1]) > head + Outage
  /\ seen' = TRUE
  /\ Stay /\ UNCHANGED <<services, runtime, network, reads, anchor, head>>

\* Faulty: the new block is taken as the proof that the chain goes on.
AnyNewBlock(p) == TRUE

HeadKept(p) == head \in chain[Top(known[p])]

CheckHead ==
  /\ step = "resume" /\ seen /\ Reached(reads + 1)
  /\ seen' = FALSE
  /\ IF ~HeadKept(reads + 1) THEN Fail("changed")
     ELSE IF reads + 1 < N THEN reads' = reads + 1 /\ Stay
     ELSE Begin("passed", {})
  /\ UNCHANGED <<services, runtime, network, anchor, head>>

\* The timeout of a poll, or of its spec.
GiveUp ==
  /\ step \in {"finalize", "agree", "resume"} /\ Fail("failed")
  /\ UNCHANGED <<services, runtime, network, seen, anchor, head>>

Next ==
  \/ \E p \in Participants : Sign(p)
  \/ \E p, q \in Participants, b \in 1 .. MaxSlot : Process(p, b) \/ Gossip(p, q, b)
  \/ Connect \/ AwaitFinality \/ StopValidators \/ Pause \/ ReadHead \/ StopNodes \/ CheckSilence
  \/ WaitOutage \/ StartParticipants \/ Inspect \/ Reconnect \/ SeeNewBlock
  \/ CheckHead \/ GiveUp

Spec == Init /\ [][Next]_vars

-----------------------------------------------------------------------------
(***************************************************************************)
(* No client is left without the one below it: whenever a suite stops or   *)
(* starts services, and wherever an engine call breaks it off, a running   *)
(* validator has its beacon node and a beacon node its execution client.   *)
(***************************************************************************)
DependenciesUp ==
  \A p \in Participants :
    /\ Runs("validator", p) => Runs("beacon", p)
    /\ <<"beacon", p>> \in running \ survivors => Runs("execution", p)

(***************************************************************************)
(* "no later block can replace it" (networkrestart/e2e_test.go:77): the    *)
(* head the participants agreed on stays the head of every one of them,    *)
(* until a validator runs again, unless their data is lost.                *)
(***************************************************************************)
AgreedHeadIsKept ==
  /\ step \in {"stop nodes", "answers", "outage", "start", "inspect"} /\ ~lost
  /\ \A p \in Participants : ~Runs("validator", p)
  => \A p \in Participants : Top(known[p]) = head

(***************************************************************************)
(* The suite tells a chain that went on from one that did not: it passes   *)
(* only if every node was down, whatever the engine said of its stop, and  *)
(* the data survived; it reports another chain only if the data did not.   *)
(***************************************************************************)
VerdictIsRight ==
  /\ step = "passed" => survivors = {} /\ ~lost
  /\ step = "changed" => lost
=============================================================================
