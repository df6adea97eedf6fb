-------------------------------- MODULE Sync --------------------------------
(***************************************************************************)
(* e2e/suites/sync over e2e/internal/synccheck: write a history, start a   *)
(* node that syncs from a live source (from genesis or from a checkpoint), *)
(* wait until it has the source's head, compare the two, and do it again   *)
(* after the node was stopped while the source went on.                    *)
(*                                                                         *)
(* Every slot has a block, and a block is its slot.  The source imports a  *)
(* block up to a slot late, the node at any time, in jumps: its execution  *)
(* client is never ahead of its beacon node.  A block stands for its hash  *)
(* and with it for the state and the receipts under it.                    *)
(***************************************************************************)
EXTENDS Naturals, FiniteSets, FiniteSetsExt

CONSTANTS
  EpochLength, \* SlotsPerEpoch
  Samples,     \* comparedSamples
  KeptEpochs,  \* epochsKeepingHead
  WhileStopped,\* epochsFinalizedWhileStopped
  Written,     \* genesis: the block that has to be final before the sync
  Patience,    \* slots a retried check of the node lasts
  MaxLag,      \* bound: blocks a node that had the head is behind
  MaxBlock,    \* bound: the last block of the network
  Forks,       \* blocks from which a faulty node may have a chain of its own
  Holes        \* runs of slots whose blocks a faulty node may have lost

ASSUME SyncAssumption ==
  /\ {EpochLength, Samples} \subseteq Nat \ {0}
  /\ {KeptEpochs, WhileStopped, Written, Patience, MaxLag, MaxBlock} \subseteq Nat
  /\ EpochLength <= MaxBlock
  /\ Forks \subseteq 1 .. MaxBlock
  /\ Holes \subseteq {low .. high : low, high \in 1 .. MaxBlock}

VARIABLES
  tip,         \* the newest block of the network
  source,      \* the head of the source
  execution,   \* the head of the node's execution client
  beacon,      \* the head of its beacon node
  running,     \* the node runs
  origin,      \* the slot its beacon node has started from
  checkpoint,  \* the suite is the one that starts from a checkpoint
  fork,        \* the first block of the node that is not the source's
  hole,        \* slots whose blocks the node's database lacks
  lossy,       \* the execution client loses its last block when it stops
  step, deadline,  \* where the suite is, and the last block before it gives up
  written,     \* writtenBy: the source's head when the history was written
  before,      \* finalizedBefore, of the current spec
  first,       \* originSlot: the first slot the comparisons expect
  head,        \* the block read at the current or the last step
  epochs,      \* epochs whose head has been compared
  agreed,      \* the newest head of the node that was found on the source
  began,       \* the source's head when ExpectSynced began
  verdict      \* of the specs that have ended

network == <<tip, source>>
node == <<execution, beacon, running, origin>>
faults == <<checkpoint, fork, hole, lossy>>
reads == <<before, head, epochs, agreed, began>>
suite == <<step, deadline, written, first, reads, verdict>>
syncVars == <<network, node, faults, suite>>

Specs == {"history", "sync", "catch up"}
NoFork == MaxBlock + 1

\* Epoch: of a slot.
Epoch(slot) == slot \div EpochLength

\* The finalized slot of a chain with this head: finality is two epochs behind.
FinalizedSlot(block) == EpochLength * (IF Epoch(block) > 2 THEN Epoch(block) - 2 ELSE 0)

\* Nobody attests to the node's own branch.
NodeFinalized == Max({origin, FinalizedSlot(Min({beacon, fork - 1}))})

Same(block) == block < fork /\ block <= source
Serves(slot) == slot \in origin .. beacon /\ slot \notin hole

\* sampledRange
SampledRange(low, high) ==
  {n \in low .. high : n = high \/ (n - low) % Max({(high - low) \div Samples, 1}) = 0}

SyncInit ==
  /\ tip = EpochLength /\ source = EpochLength
  /\ execution = 0 /\ beacon = 0 /\ running = FALSE /\ origin = 0
  /\ checkpoint \in BOOLEAN
  /\ \/ fork \in Forks \cup {NoFork} /\ hole = {} /\ lossy = FALSE
     \/ fork = NoFork /\ hole \in Holes /\ lossy = FALSE
     \/ fork = NoFork /\ hole = {} /\ lossy = TRUE
  /\ step = "write" /\ deadline = 2 * EpochLength
  /\ written = 0 /\ before = 0 /\ first = 0 /\ head = 0 /\ epochs = 0 /\ agreed = 0 /\ began = 0
  /\ verdict = [s \in Specs |-> "none"]

-----------------------------------------------------------------------------
(***************************************************************************)
(* The network and the node.                                               *)
(***************************************************************************)

\* A slot: its proposer has the parent, and the source may see the block late.
Slot ==
  /\ tip < Min({deadline, MaxBlock}) /\ tip' = tip + 1
  /\ running => tip < execution + MaxLag \/ step \in {"origin", "checkpoint", "execution head", "resumed"}
  /\ source' \in {tip, tip + 1}
  /\ UNCHANGED <<node, faults, suite>>

SourceImports ==
  /\ step # "ended" /\ source < tip /\ source' = tip
  /\ UNCHANGED <<tip, node, faults, suite>>

\* The node's clients move to the newest block, together or one by one.
NodeImports ==
  /\ step # "ended" /\ running
  /\ beacon' \in {beacon, tip} /\ execution' \in {execution, beacon'}
  /\ <<execution', beacon'>> # <<execution, beacon>>
  /\ UNCHANGED <<network, running, origin, faults, suite>>

-----------------------------------------------------------------------------
(***************************************************************************)
(* The suite: ordered specs that go on after a failure.                    *)
(***************************************************************************)
Begin(next, slots) == step' = next /\ deadline' = tip + slots

SpecOf(at) ==
  IF at \in {"write", "history"} THEN "history"
  ELSE IF verdict["sync"] = "none" THEN "sync" ELSE "catch up"

\* What follows a spec: the catch-up needs the node of the sync.
NextSpec(spec, started) ==
  CASE spec = "history" -> Begin("start", 0)
    [] spec = "sync" /\ started -> Begin("stopping", 0)
    [] OTHER -> Begin("ended", 0)

\* A spec forgets what it read; without a node the catch-up fails too.
EndSpec(how, started) ==
  /\ verdict' = [s \in Specs |->
       IF s = SpecOf(step) THEN how
       ELSE IF s = "catch up" /\ ~started THEN "failed" ELSE verdict[s]]
  /\ NextSpec(SpecOf(step), started)
  /\ before' = 0 /\ head' = 0 /\ epochs' = 0 /\ agreed' = 0 /\ began' = 0

GoOn(next, slots) == Begin(next, slots) /\ UNCHANGED verdict

\* A check that is made once: the spec goes on, or fails.
CheckOr(holds, next, slots) ==
  IF holds
  THEN GoOn(next, slots) /\ before' = 0 /\ head' = 0 /\ UNCHANGED <<epochs, agreed, began>>
  ELSE EndSpec("failed", TRUE)

Watching == UNCHANGED <<network, node, faults, written, first>>

\* history.Write, and the block its transactions are in at the latest.
Write ==
  /\ step = "write" /\ GoOn("history", 3 * EpochLength)
  /\ written' = IF checkpoint THEN source ELSE Written
  /\ UNCHANGED <<network, node, faults, first, reads>>

\* Faulty: the history is taken as final when the chain has finalized at all.
FinalizedAtAll == FinalizedSlot(source) > 0

HistoryIsFinal == FinalizedSlot(source) >= written

AwaitHistory ==
  /\ step = "history" /\ HistoryIsFinal /\ EndSpec("passed", TRUE) /\ Watching

\* startNode: what the source has finalized before the node's containers run.
StartNode ==
  /\ step = "start" /\ before' = FinalizedSlot(source)
  /\ GoOn("boot", IF checkpoint THEN 2 * EpochLength ELSE 0)
  /\ Watching /\ UNCHANGED <<head, epochs, agreed, began>>

\* The beacon node asks the source for its checkpoint, or has the genesis.
Boot ==
  /\ step = "boot" /\ running' = TRUE
  /\ origin' = (IF checkpoint THEN FinalizedSlot(source) ELSE 0) /\ beacon' = origin'
  /\ IF checkpoint
     THEN step' = "origin" /\ UNCHANGED <<deadline, verdict, reads>>
     ELSE CheckOr(TRUE, "execution head", Patience)
  /\ UNCHANGED <<network, execution, faults, written, first>>

ReadOrigin ==
  /\ step = "origin" /\ step' = "checkpoint" /\ first' = NodeFinalized
  /\ UNCHANGED <<network, node, faults, deadline, written, reads, verdict>>

\* Faulty: the node must have what the source had finalized before it ran.
FromCheckpointBefore == Same(first) /\ first = before

FromCheckpoint == Same(first) /\ first \in {before, FinalizedSlot(source)}

\* The origin is a checkpoint of the source; the node is lost to the suite if not.
CheckOrigin ==
  /\ step = "checkpoint" /\ Watching
  /\ IF FromCheckpoint /\ first > 0
     THEN CheckOr(TRUE, "execution head", Patience)
     ELSE EndSpec("failed", FALSE)

-----------------------------------------------------------------------------
(***************************************************************************)
(* WaitForHead and ExpectSynced.  A check under Eventually is tried until  *)
(* its deadline; any other ends the spec.                                  *)
(***************************************************************************)

\* Within one block: the source may have just imported the next.
HasExecutionHead == execution + 1 >= source /\ Same(execution)

ReadExecutionHead ==
  /\ step = "execution head" /\ HasExecutionHead /\ step' = "beacon head"
  /\ Watching /\ UNCHANGED <<deadline, reads, verdict>>

\* The attempt begins again when the heads of the beacon nodes differ.
ReadBeaconHead ==
  /\ step = "beacon head"
  /\ IF beacon = source /\ Same(beacon) THEN GoOn("synced", Patience)
     ELSE step' = "execution head" /\ UNCHANGED <<deadline, verdict>>
  /\ Watching /\ UNCHANGED reads

\* Not syncing, and not optimistic: the execution client has every block.
ReportsSynced ==
  /\ step = "synced" /\ execution = beacon
  /\ GoOn("head", 1) /\ began' = source
  /\ Watching /\ UNCHANGED <<before, head, epochs, agreed>>

ReadHead ==
  /\ step = "head" /\ head' = execution /\ step' = "compare"
  /\ Watching /\ UNCHANGED <<deadline, before, epochs, agreed, began, verdict>>

HoldsChain == \A n \in SampledRange(0, head) : Same(n)

\* No second attempt: the source must have the node's head by now.
CompareChain ==
  /\ step = "compare" /\ CheckOr(HoldsChain, "finalized", 0) /\ Watching

ReadFinalized ==
  /\ step = "finalized" /\ Watching
  /\ IF NodeFinalized >= first
     THEN GoOn("blocks", Patience) /\ head' = NodeFinalized /\ UNCHANGED <<before, epochs, agreed, began>>
     ELSE EndSpec("failed", TRUE)

\* expectSameBlockAtSlot
SameBlockAtSlot(slot) ==
  IF slot <= source THEN Serves(slot) /\ Same(slot) ELSE ~Serves(slot)

\* expectNoOtherBlockAtSlot
NoOtherBlockAtSlot(slot) == Serves(slot) => Same(slot)

CompareBlocks ==
  /\ step = "blocks" /\ \A slot \in SampledRange(first, head) : SameBlockAtSlot(slot)
  /\ CheckOr(first > 0 => \A slot \in SampledRange(0, first - 1) : NoOtherBlockAtSlot(slot),
             "checkpoints", Patience)
  /\ Watching

\* The justified checkpoint is an epoch after the finalized one.
CompareCheckpoints ==
  /\ step = "checkpoints" /\ NodeFinalized = FinalizedSlot(source)
  /\ GoOn("epoch", 0) /\ Watching /\ UNCHANGED reads

\* Faulty: the head is compared in the epoch the source is in.
StartOfEpoch == Epoch(source) * EpochLength

StartOfNextEpoch == (Epoch(source) + 1) * EpochLength

NextEpoch ==
  /\ step = "epoch" /\ head' = StartOfNextEpoch
  /\ GoOn("next epoch", EpochLength + 1)
  /\ Watching /\ UNCHANGED <<before, epochs, agreed, began>>

AwaitEpoch ==
  /\ step = "next epoch" /\ source >= head /\ GoOn("keep", Patience) /\ head' = 0
  /\ Watching /\ UNCHANGED <<before, epochs, agreed, began>>

\* Faulty: the heads have the same number.
SameNumber == beacon = source

SameHead == beacon = source /\ Same(beacon)

KeepHead ==
  /\ step = "keep" /\ SameHead /\ agreed' = beacon /\ epochs' = epochs + 1
  /\ IF epochs' = KeptEpochs THEN GoOn("relay", 0) ELSE GoOn("epoch", 0)
  /\ Watching /\ UNCHANGED <<before, head, began>>

\* The source includes a transaction sent to the node.
Relay == step = "relay" /\ EndSpec("passed", TRUE) /\ Watching

-----------------------------------------------------------------------------
(***************************************************************************)
(* The catch-up: what the node had, and what it has after the stop.        *)
(***************************************************************************)
ReadStopped ==
  /\ step = "stopping" /\ head' = execution /\ before' = FinalizedSlot(source)
  /\ GoOn("stop", 0) /\ Watching /\ UNCHANGED <<epochs, agreed, began>>

Stop ==
  /\ step = "stop" /\ running' = FALSE
  /\ GoOn("stopped", WhileStopped * EpochLength + 1)
  /\ UNCHANGED <<network, execution, beacon, origin, faults, written, first, reads>>

AwaitFinalized ==
  /\ step = "stopped" /\ FinalizedSlot(source) >= before + WhileStopped * EpochLength
  /\ GoOn("resume", 0) /\ Watching /\ UNCHANGED reads

Resume ==
  /\ step = "resume" /\ running' = TRUE /\ GoOn("resumed", 0)
  /\ execution' = IF lossy /\ execution > 0 THEN execution - 1 ELSE execution
  /\ UNCHANGED <<network, beacon, origin, faults, written, first, reads>>

\* Faulty: the node must have moved on already.
HasMore == execution > head

KeptItsBlocks == execution >= head

CheckResumed ==
  /\ step = "resumed" /\ CheckOr(KeptItsBlocks, "execution head", Patience) /\ Watching

Waits == {"history", "execution head", "beacon head", "synced", "blocks", "checkpoints", "next epoch",
          "keep", "relay", "stopped"}

\* The deadline of an Eventually, or of the spec.
RunOut ==
  /\ step \in Waits /\ tip = deadline /\ EndSpec("timeout", TRUE) /\ Watching

SyncNext ==
  \/ Slot \/ SourceImports \/ NodeImports
  \/ Write \/ AwaitHistory \/ StartNode \/ Boot \/ ReadOrigin \/ CheckOrigin
  \/ ReadExecutionHead \/ ReadBeaconHead \/ ReportsSynced \/ ReadHead \/ CompareChain
  \/ ReadFinalized \/ CompareBlocks \/ CompareCheckpoints
  \/ NextEpoch \/ AwaitEpoch \/ KeepHead \/ Relay
  \/ ReadStopped \/ Stop \/ AwaitFinalized \/ Resume \/ CheckResumed \/ RunOut

SyncSpec == SyncInit /\ [][SyncNext]_syncVars

-----------------------------------------------------------------------------
Ends(spec, how) == verdict[spec] = "none" /\ verdict'[spec] = how

\* How far behind the source a node can be while it reports to be synced.
Behind == Max({MaxLag, 1})

(***************************************************************************)
(* A spec passes only for a node that followed the source: from the last   *)
(* check that it was synced it had the source's head in as many later      *)
(* epochs as promised (synccheck.go:196), its chain is the source's up to  *)
(* that head, and no run of blocks as long as the distance between two     *)
(* samples was missing when they were compared.                            *)
(***************************************************************************)
PassedMeansFollowed ==
  [][\A spec \in {"sync", "catch up"} : Ends(spec, "passed") =>
       /\ Epoch(agreed) >= Epoch(began) + KeptEpochs
       /\ fork > agreed
       /\ LET last == FinalizedSlot(began - Behind)
              distance == Max({(agreed - first) \div Samples, 1})
          IN hole \subseteq first .. last => Cardinality(hole) < distance]_syncVars

Healthy == fork = NoFork /\ hole = {} /\ ~lossy

(***************************************************************************)
(* A healthy node is failed without a second attempt only where the code   *)
(* races with the network: its head was read before the source imported    *)
(* that block (synccheck.go:133), or while the node started the source     *)
(* finalized twice, or had yet to finalize what the node already had.      *)
(* Everything else a healthy node may show for a moment is retried.        *)
(***************************************************************************)
HealthyFailsOnlyInRace ==
  [][\A spec \in Specs : Ends(spec, "failed") /\ Healthy =>
       \/ step = "compare" /\ head > source
       \/ /\ step = "checkpoint"
          /\ \/ FinalizedSlot(source) >= before + 2 * EpochLength
             \/ FinalizedSlot(source) < first]_syncVars

(***************************************************************************)
(* "The history must be behind the checkpoint, so a node starting from it  *)
(* has to download the chain" (checkpoint/e2e_test.go:83): it is, whenever *)
(* the specs on the history and on the sync have both passed.              *)
(***************************************************************************)
HistoryBehindCheckpoint ==
  checkpoint /\ verdict["history"] = "passed" /\ verdict["sync"] = "passed" => origin >= written
=============================================================================
