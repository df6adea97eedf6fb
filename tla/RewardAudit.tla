---------------------------- MODULE RewardAudit ----------------------------
(***************************************************************************)
(* The penalties suite and e2e/internal/rewards: a test stops a validator  *)
(* client, later starts it again, and compares the rewards and balances    *)
(* the beacon node reports with the ones it computes, epoch by epoch.  The *)
(* chain keeps moving meanwhile: slots can be empty, the head can lag the  *)
(* clock, a vote counts when it is included, up to an epoch later, and an  *)
(* epoch's rewards reach the balance two epochs later.                     *)
(*                                                                         *)
(* A defect is a chain that applies other rewards than it reports, which   *)
(* is what the suite exists to notice.                                     *)
(***************************************************************************)
EXTENDS Integers, FiniteSets, FiniteSetsExt

CONSTANTS
  SlotsPerEpoch,
  SourceWindow,     \* the largest inclusion delay of a timely source vote
  OfflineEpochs,    \* epochs the offline test audits
  MaxEmpty,         \* bound: the slots that stay empty
  MaxEpoch          \* bound: the last epoch of the chain

ASSUME AuditAssumption ==
  /\ {SlotsPerEpoch, SourceWindow, OfflineEpochs} \subseteq Nat \ {0}
  /\ SourceWindow <= SlotsPerEpoch
  /\ {MaxEmpty, MaxEpoch} \subseteq Nat

Epochs == 0 .. MaxEpoch
Slots == 0 .. (SlotsPerEpoch * (MaxEpoch + 1) - 1)
Epoch(slot) == slot \div SlotsPerEpoch
StartOf(epoch) == epoch * SlotsPerEpoch

VARIABLES
  clock,     \* the slot the wall clock is in
  blocks,    \* the slots with a block
  vote,      \* vote[e]: the validator's attestation of epoch e
  running,   \* a validator client runs the key
  since,     \* the slot it was started in
  defect,    \* the chain applies other rewards than it reports
  pc,        \* the step of the suite
  from,      \* the epoch of the head it read
  epoch,     \* the epoch it audits or scans
  last,      \* the last epoch of the audit
  target,    \* the epoch of the head, in the scan in progress
  audited    \* an audit has passed

chain == <<clock, blocks, vote, defect>>
client == <<running, since>>
test == <<pc, from, epoch, last, target, audited>>
auditVars == <<chain, client, test>>

Steps == {"up", "head", "clock", "awaitOffline", "checkOffline", "down", "start", "scan", "walk",
          "awaitNext", "checkNext", "done", "failed"}

\* The slot of an epoch the validator has to vote in: it differs by epoch.
Duty(e) == StartOf(e) + (e % SlotsPerEpoch)

\* An attestation: the block it votes for as the head, and the slot of the
\* block that includes it, 0 while none does.
NoVote == [head |-> 0, included |-> -1]
Votes == {NoVote} \cup [head : Slots, included : Slots]

AuditInit ==
  /\ clock = 0 /\ blocks = {0}
  /\ vote = [e \in Epochs |-> NoVote]
  /\ defect \in BOOLEAN
  /\ pc \in {"up", "down"}
  /\ running = (pc = "up") /\ since = 0
  /\ from = 0 /\ epoch = 0 /\ last = 0 /\ target = 0
  /\ audited = FALSE

-----------------------------------------------------------------------------
(***************************************************************************)
(* The chain and the validator client.                                     *)
(***************************************************************************)
HeadSlot == Max(blocks)
Voted(e) == vote[e] # NoVote
Included(e) == vote[e].included > 0

\* What the chain reports of an epoch.  The amounts differ, so that no two
\* combinations of timely and missed votes add up to the same.
SourceReward == 100
TargetReward == 1000
HeadReward == 10
MissedSource == 300
MissedTarget == 3000

HeadCorrect(e) == vote[e].head = Max(blocks \cap 0 .. Duty(e))

InclusionDelay(e) == vote[e].included - Duty(e)
Reward(e) ==
  [source |-> IF Included(e) /\ InclusionDelay(e) <= SourceWindow THEN SourceReward ELSE 0 - MissedSource,
   target |-> IF Included(e) THEN TargetReward ELSE 0 - MissedTarget,
   head   |-> IF Included(e) /\ InclusionDelay(e) = 1 /\ HeadCorrect(e) THEN HeadReward ELSE 0]
Total(reward) == reward.source + reward.target + reward.head

\* A block moves the balance by an amount of its own.  The rewards of an epoch
\* are applied when the epoch after the next starts.
BlockBalanceChange(slot) == IF slot \in blocks THEN 10000 * 2 ^ slot ELSE 0
AppliedReward(e) == Total(Reward(e)) + (IF defect THEN 1 ELSE 0)
SlotChange(slot) ==
  BlockBalanceChange(slot)
  + (IF slot = StartOf(Epoch(slot)) /\ Epoch(slot) >= 2 THEN AppliedReward(Epoch(slot) - 2) ELSE 0)

Balance[slot \in Slots] == IF slot = 0 THEN 0 ELSE Balance[slot - 1] + SlotChange(slot)

\* A client that runs through an epoch votes in it, and a vote of a client that
\* keeps running is included before the epoch after the next.
Healthy(e) ==
  running /\ since <= StartOf(e) => Voted(e)
HealthyBefore(e) ==
  running /\ since <= StartOf(e) => Included(e)

Tick ==
  /\ clock + 1 \in Slots
  /\ Cardinality((0 .. clock) \ blocks) <= MaxEmpty
  /\ clock + 1 = StartOf(Epoch(clock) + 1) =>
       /\ Healthy(Epoch(clock))
       /\ Epoch(clock) > 0 => HealthyBefore(Epoch(clock) - 1)
  /\ clock' = clock + 1
  /\ UNCHANGED <<blocks, vote, defect, client, test>>

Vote ==
  LET e == Epoch(clock) IN
  /\ running /\ ~Voted(e) /\ clock = Duty(e)
  /\ vote' = [vote EXCEPT ![e] = [head |-> HeadSlot, included |-> 0]]
  /\ UNCHANGED <<clock, blocks, defect, client, test>>

\* The votes a block of this slot can include.
Pending == {e \in Epochs : Voted(e) /\ ~Included(e) /\ Duty(e) < clock /\ Epoch(clock) <= e + 1}

Propose ==
  /\ clock \notin blocks
  /\ blocks' = blocks \cup {clock}
  /\ \E included \in SUBSET Pending :
       vote' = [e \in Epochs |-> IF e \in included THEN [vote[e] EXCEPT !.included = clock] ELSE vote[e]]
  /\ UNCHANGED <<clock, defect, client, test>>

-----------------------------------------------------------------------------
(***************************************************************************)
(* The reads of e2e/internal/rewards.                                      *)
(***************************************************************************)
\* Faulty: rewards are read as soon as the next epoch has started.
AvailableNextEpoch(head, e) == e + 1 <= head

RewardsAvailable(head, e) == e + 2 <= head

Attested(reward) == reward.source > 0 /\ reward.target > 0

\* The blocks between the balances at the starts of two epochs.
BlockBalanceChanges(e) ==
  LET change[n \in 0 .. SlotsPerEpoch] ==
        IF n = 0 THEN 0 ELSE change[n - 1] + BlockBalanceChange(StartOf(e) + n)
  IN change[SlotsPerEpoch]

\* The root of a slot, or of the first one with a block on the way back.
RootAtOrBefore(slot) == slot - Min({back \in 0 .. slot : slot - back \in blocks})
VotedHead(e) == vote[e].head = RootAtOrBefore(Duty(e))

\* TimelyVotes: the blocks after the duty slot, empty slots passed over.
TimelyVotes(e) ==
  LET including == {delay \in 1 .. SourceWindow :
                      Duty(e) + delay \in blocks /\ vote[e].included = Duty(e) + delay}
  IN [source |-> including # {}, head |-> 1 \in including /\ VotedHead(e)]

BalanceAt(slot) == Balance[slot]
BalanceChange(e) == BalanceAt(StartOf(e + 2)) - BalanceAt(StartOf(e + 1))

\* What the suite expects of an epoch without a vote, and of one with votes
\* of these delays.  A client that keeps running votes for the right target.
Missed == [source |-> 0 - MissedSource, target |-> 0 - MissedTarget, head |-> 0]

TimelyReward(votes) ==
  [source |-> IF votes.source THEN SourceReward ELSE 0 - MissedSource,
   target |-> TargetReward,
   head   |-> IF votes.head THEN HeadReward ELSE 0]

\* Faulty: only the reported reward is compared.
AuditOfReport(e, expected) == Reward(e) = expected

\* The comparisons of one epoch: its reward, and the balance over the next one.
AuditPasses(e, expected) ==
  /\ Reward(e) = expected
  /\ BalanceChange(e) = Total(expected) + BlockBalanceChanges(e + 1)

-----------------------------------------------------------------------------
(***************************************************************************)
(* The suite: stop the client and audit the epochs without it.             *)
(***************************************************************************)
Goto(step) == pc' = step

StopClient ==
  /\ pc = "up" /\ Goto("head")
  /\ running' = FALSE
  /\ UNCHANGED <<chain, since, from, epoch, last, target, audited>>

ReadHead ==
  /\ \/ pc = "head" /\ Goto("clock")
     \/ pc = "down" /\ Goto("start")
  /\ from' = Epoch(HeadSlot)
  /\ UNCHANGED <<chain, client, epoch, last, target, audited>>

\* Faulty: the epoch of the head is taken for the one the client stopped in.
FirstAfterHead == from + 1

\* The epoch after the one the client may have voted in, by clock or by head.
FirstOffline == Max({Epoch(clock), from}) + 1

ReadClock ==
  /\ pc = "clock"
  /\ FirstOffline + OfflineEpochs - 1 \in Epochs
  /\ Goto("awaitOffline")
  /\ epoch' = FirstOffline
  /\ last' = FirstOffline + OfflineEpochs - 1
  /\ UNCHANGED <<chain, client, from, target, audited>>

AwaitOffline ==
  /\ pc = "awaitOffline"
  /\ RewardsAvailable(Epoch(HeadSlot), last)
  /\ Goto("checkOffline")
  /\ UNCHANGED <<chain, client, from, epoch, last, target, audited>>

CheckOffline ==
  /\ pc = "checkOffline"
  /\ IF ~AuditPasses(epoch, Missed)
     THEN Goto("failed") /\ UNCHANGED <<epoch, audited>>
     ELSE IF epoch < last THEN epoch' = epoch + 1 /\ UNCHANGED <<pc, audited>>
     ELSE Goto("down") /\ audited' = TRUE /\ UNCHANGED epoch
  /\ UNCHANGED <<chain, client, from, last, target>>

(***************************************************************************)
(* Start it again, find the first epoch it attested, and audit the next.   *)
(***************************************************************************)
StartClient ==
  /\ pc = "start" /\ Goto("scan")
  /\ running' = TRUE /\ since' = clock
  /\ epoch' = from
  /\ UNCHANGED <<chain, from, last, target, audited>>

\* rewardScanner.scan
ScanHead ==
  /\ pc = "scan" /\ Goto("walk")
  /\ target' = Epoch(HeadSlot)
  /\ UNCHANGED <<chain, client, from, epoch, last, audited>>

FailedRead ==
  /\ pc = "walk" /\ RewardsAvailable(target, epoch)
  /\ Goto("scan")
  /\ UNCHANGED <<chain, client, from, epoch, last, target, audited>>

ScanEpoch ==
  /\ pc = "walk"
  /\ IF ~RewardsAvailable(target, epoch)
     THEN Goto("scan") /\ UNCHANGED <<epoch, last>>
     ELSE IF Attested(Reward(epoch))
     THEN epoch + 1 \in Epochs /\ Goto("awaitNext") /\ epoch' = epoch + 1 /\ last' = epoch + 1
     ELSE epoch' = epoch + 1 /\ UNCHANGED <<pc, last>>
  /\ UNCHANGED <<chain, client, from, target, audited>>

AwaitNext ==
  /\ pc = "awaitNext"
  /\ RewardsAvailable(Epoch(HeadSlot), epoch)
  /\ Goto("checkNext")
  /\ UNCHANGED <<chain, client, from, epoch, last, target, audited>>

CheckNext ==
  /\ pc = "checkNext"
  /\ Goto(IF AuditPasses(epoch, TimelyReward(TimelyVotes(epoch))) THEN "done" ELSE "failed")
  /\ UNCHANGED <<chain, client, from, epoch, last, target, audited>>

AuditNext ==
  \/ Tick \/ Vote \/ Propose
  \/ StopClient \/ ReadHead \/ ReadClock \/ AwaitOffline \/ CheckOffline
  \/ StartClient \/ ScanHead \/ ScanEpoch \/ FailedRead \/ AwaitNext \/ CheckNext

AuditSpec == AuditInit /\ [][AuditNext]_auditVars

-----------------------------------------------------------------------------
(***************************************************************************)
(* On a chain that applies the rewards it reports no audit fails, whenever *)
(* the client was stopped or started, with the head behind the clock and   *)
(* votes included late; and none passes on a chain that does not.          *)
(***************************************************************************)
AuditIsRight ==
  /\ ~defect => pc # "failed"
  /\ defect => ~audited /\ pc # "done"

(***************************************************************************)
(* A reward the suite can read is final: no block changes it any more.     *)
(***************************************************************************)
RewardsAreFinal ==
  [][\A e \in Epochs : RewardsAvailable(Epoch(HeadSlot), e) => Reward(e)' = Reward(e)]_auditVars
=============================================================================
