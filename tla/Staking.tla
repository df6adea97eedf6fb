------------------------------- MODULE Staking -------------------------------
(***************************************************************************)
(* The two staking suites: a deposit, sent through the contract            *)
(* ("automated") or by the deposit CLI ("operator"), is waited into the    *)
(* beacon state, its validator waited active, attesting, past the          *)
(* committee period and withdrawn.  Every wait has a deadline computed in  *)
(* advance, and the beacon chain decides whether it was long enough.  Time *)
(* is counted in slots of the wall clock.  What the last wait reads while  *)
(* it lasts is OperationScanner's.                                         *)
(*                                                                         *)
(* The chain is external, reduced to what the comments of DepositWait and  *)
(* of the timeouts say of it: blocks of a voting period vote for the       *)
(* deposits made a follow distance before it, a majority is needed, the    *)
(* effective balance follows, eligibility is finalized before the seed     *)
(* lookahead begins; an exit has a lookahead and a withdrawability delay.  *)
(* It can miss blocks, stop finalizing for an epoch, and lose an epoch's   *)
(* attestation.                                                            *)
(***************************************************************************)
EXTENDS OperationScanner

CONSTANTS
  SlotsPerEpoch, VotingEpochs,
  FollowDistance,         \* in slots
  CommitteePeriod,        \* SHARD_COMMITTEE_PERIOD, in epochs
  UpdateDelay,            \* epochs from a deposit's inclusion to its effective balance
  Sweep,                  \* slots from an exit's withdrawable epoch to its withdrawal
  DepositEventTimeout, ActivationQueueTimeout, AttestationTimeout, ExitTimeout,
  MaxStart,   \* bound: the slots before the deposit is sent
  MaxMissed,  \* bound: missed proposals
  MaxLapsed,  \* bound: epochs without finality or attestation
  None

\* As DepositWait assumes, only the first voting period begins less than two
\* follow distances after genesis.
ASSUME StakingAssumption ==
  /\ {SlotsPerEpoch, VotingEpochs} \subseteq Nat \ {0}
  /\ {FollowDistance, CommitteePeriod, Sweep, MaxStart, MaxMissed, MaxLapsed} \subseteq Nat
  /\ UpdateDelay \in {0, 1}
  /\ {DepositEventTimeout, ActivationQueueTimeout, AttestationTimeout, ExitTimeout} \subseteq Nat
  /\ VotingEpochs * SlotsPerEpoch >= 2 * FollowDistance
  /\ None \notin Nat

\* The timeouts of the suites in slots.  With slots of 5 seconds and epochs of 8
\* (parameters.go) the 1, 8, 4 and 8 minutes of the code are 12 slots and 12, 6
\* and 12 epochs, for a committee period of two.  ExitTimeout covers what is left
\* of that period, of which two epochs went by with the reward, and nine more
\* epochs and the sweep: at most 23 slots for that.
ASSUME TimeoutsAssumption ==
  /\ DepositEventTimeout > SlotsPerEpoch
  /\ ActivationQueueTimeout >= 11 * SlotsPerEpoch
  /\ AttestationTimeout >= 6 * SlotsPerEpoch
  /\ ExitTimeout > 9 * SlotsPerEpoch + Sweep
  /\ ExitTimeout > (CommitteePeriod + 7) * SlotsPerEpoch + Sweep

VARIABLES
  suite,
  stage,     \* what the suite does, or how it ended
  deadline,  \* the slot in which the present wait ends
  client,    \* the validator client: "off", "running", or "holding" the key
  sent,      \* the deposit transaction: "no", "sent", "lost" or "mined"
  known,     \* the activation epoch in the record the suite holds
  clock,     \* now, and the slots of the last block and of the deposit's
  beacon,    \* what the beacon state knows of the deposit and the validator
  lost       \* the missed proposals and the lapsed epochs since it was sent

harness == <<suite, stage, deadline, client, sent, known>>
outside == <<clock, beacon, lost>>
staking == <<harness, outside>>

NoDeposit ==
  [votes |-> 0, adopted |-> FALSE, included |-> None,
   finalized |-> 0, activation |-> None, rewarded |-> None, exited |-> None, withdrawn |-> None]

StakingInit ==
  /\ Init
  /\ suite \in {"automated", "operator"}
  /\ stage = "setup" /\ deadline = None /\ client = "off" /\ sent = "no" /\ known = None
  /\ clock = [now |-> 0, tip |-> 0, mined |-> None]
  /\ beacon = NoDeposit
  /\ lost = [blocks |-> 0, epochs |-> 0]

-----------------------------------------------------------------------------
(***************************************************************************)
(* chaininfo.Info, in slots.                                               *)
(***************************************************************************)
Epoch(slot) == slot \div SlotsPerEpoch
ExecutionVotingPeriod == VotingEpochs * SlotsPerEpoch

\* Faulty: nothing is added for missed proposals and inclusion.
WaitWithoutSlack == FollowDistance + (ExecutionVotingPeriod * 3) \div 2

DepositWait ==
  FollowDistance + (ExecutionVotingPeriod * 3) \div 2 + 4 * SlotsPerEpoch

-----------------------------------------------------------------------------
(***************************************************************************)
(* The chain.                                                              *)
(***************************************************************************)
\* A vote in this slot covers the deposit.
Covers(slot) ==
  LET period == slot - (slot % ExecutionVotingPeriod) IN
  /\ clock.mined # None
  /\ period >= 2 * FollowDistance
  /\ clock.mined + FollowDistance <= period

\* Votes and deposits, of a slot with or without a block.
Voted(b, slot, proposed) ==
  LET kept  == IF slot % ExecutionVotingPeriod = 0 THEN 0 ELSE b.votes
      count == IF proposed /\ ~b.adopted /\ Covers(slot) THEN kept + 1 ELSE kept
      won   == 2 * count > ExecutionVotingPeriod
  IN  [b EXCEPT
         !.votes = IF won THEN 0 ELSE count,
         !.adopted = @ \/ won,
         !.included = IF @ = None /\ b.adopted /\ proposed THEN slot ELSE @]

\* The end of an epoch, in which the chain finalized and the client attested,
\* or did not.  A deposit is eligible in the epoch after the one that brought its
\* effective balance, and activates five epochs after the one in which that is
\* final.
Closed(b, epoch, regular) ==
  LET finalized == IF regular /\ b.included # None /\ epoch > 0 THEN epoch - 1 ELSE b.finalized
      eligible  == /\ b.included # None /\ b.activation = None
                   /\ finalized >= Epoch(b.included) + UpdateDelay + 1
      attested  == /\ b.activation # None /\ b.rewarded = None /\ epoch >= b.activation
                   /\ regular /\ client = "holding"
  IN  [b EXCEPT !.finalized = IF b.activation = None THEN finalized ELSE 0,
                !.activation = IF eligible THEN epoch + 5 ELSE @,
                !.rewarded = IF attested THEN epoch ELSE @]

\* An exit that was submitted is in the next block.  The validator exits five
\* epochs after that, is withdrawable two epochs later, and the sweep comes by.
Left(b, slot, proposed) ==
  LET swept == b.exited # None /\ slot >= (Epoch(b.exited) + 7) * SlotsPerEpoch + Sweep IN
  [b EXCEPT
     !.exited = IF @ = None /\ proposed /\ stage = "leaving" THEN slot ELSE @,
     !.withdrawn = IF @ = None /\ proposed /\ swept THEN slot ELSE @]

-----------------------------------------------------------------------------
(***************************************************************************)
(* What the suites wait for, at the head of the chain.                     *)
(***************************************************************************)
\* The balance is there with the deposit, the effective balance follows.
Deposited ==
  beacon.included # None /\ Epoch(beacon.included) + UpdateDelay <= Epoch(clock.tip)

Active == beacon.activation # None /\ beacon.activation <= Epoch(clock.tip)

\* AwaitAttestationReward: rewards are served two epochs later.
Rewarded == beacon.rewarded # None /\ beacon.rewarded + 2 <= Epoch(clock.tip)

\* Faulty: the wait is one epoch short.
PeriodNearlyOver == Epoch(clock.tip) + 1 >= known + CommitteePeriod

PeriodOver == Epoch(clock.tip) >= known + CommitteePeriod

\* withdrawal_done: the end of an epoch took the effective balance as well.
Withdrawn == beacon.withdrawn # None /\ Epoch(beacon.withdrawn) < Epoch(clock.tip)

Waiting == {"mined", "event", "deposited", "queued", "attesting", "period", "leaving"}

Awaited ==
  CASE stage \in {"mined", "event"} -> sent = "mined"
    [] stage = "deposited" -> Deposited
    [] stage = "queued"    -> Active
    [] stage = "attesting" -> Rewarded
    [] stage = "period"    -> PeriodOver
    [] stage = "leaving"   -> Withdrawn
    [] OTHER               -> FALSE

\* Eventually polls several times in a slot and repeats a failed read: what is
\* there is seen before the next slot begins, and before a deadline passes.
TimePasses ==
  \/ stage = "deposit" /\ clock.now < MaxStart
  \/ stage \in Waiting /\ ~Awaited /\ deadline = None
  \/ stage \in Waiting /\ ~Awaited /\ deadline # None /\ clock.now < deadline

NextSlot(proposed, regular) ==
  LET slot == clock.now + 1
      ends == slot % SlotsPerEpoch = 0
      mined == proposed /\ sent = "sent"
      closed == IF ends THEN Closed(beacon, Epoch(slot) - 1, regular) ELSE beacon
  IN  /\ TimePasses
      /\ ~proposed => sent # "no" /\ lost.blocks < MaxMissed
      /\ ~regular => ends /\ beacon.included # None /\ lost.epochs < MaxLapsed
      /\ clock' = [now |-> slot, tip |-> IF proposed THEN slot ELSE clock.tip,
                   mined |-> IF mined THEN slot ELSE clock.mined]
      /\ sent' = IF mined THEN "mined" ELSE sent
      /\ beacon' = Left(Voted(closed, slot, proposed), slot, proposed)
      /\ lost' = [blocks |-> lost.blocks + (IF proposed THEN 0 ELSE 1),
                  epochs |-> lost.epochs + (IF regular THEN 0 ELSE 1)]
      /\ UNCHANGED <<suite, stage, deadline, client, known>>

-----------------------------------------------------------------------------
(***************************************************************************)
(* The suites.                                                             *)
(***************************************************************************)
Await(next, limit) == stage' = next /\ deadline' = clock.now + limit

\* A call that is not retried fails: the sidecar, the CLI or its data, the
\* transaction, the keymanager, a key that is a validator already, a record that
\* is not as deposited, the read of the committee period before the wait for its
\* end, or the baseline and the submission of the exit after it.
CallFails ==
  /\ \/ stage \in {"setup", "deposit", "mined", "keys"}
     \/ stage \in {"deposited", "period"} /\ Awaited
     \/ stage = "period" /\ deadline = clock.now + ExitTimeout
  /\ stage' = "failed"
  /\ UNCHANGED <<suite, deadline, client, sent, known, outside>>

\* BeforeAll: the automated suite starts its validator client here.
SetUp ==
  /\ stage = "setup" /\ stage' = "deposit"
  /\ client' = IF suite = "automated" THEN "running" ELSE "off"
  /\ UNCHANGED <<suite, deadline, sent, known, outside>>

\* Depositor.Deposit waits for the transaction without a deadline of its own.
SendDeposit ==
  /\ stage = "deposit" /\ suite = "automated"
  /\ stage' = "mined" /\ sent' = "sent"
  /\ UNCHANGED <<suite, deadline, client, known, outside>>

\* The CLI exits with 0 also when its send failed.
RunDepositCLI ==
  /\ stage = "deposit" /\ suite = "operator"
  /\ Await("event", DepositEventTimeout)
  /\ sent' \in {"sent", "lost"}
  /\ UNCHANGED <<suite, client, known, outside>>

DepositLogged ==
  /\ stage \in {"mined", "event"} /\ sent = "mined"
  /\ stage' = "keys" /\ deadline' = None
  /\ UNCHANGED <<suite, client, sent, known, outside>>

\* Faulty: the operator's client is started without the CLI's keystore.
StartWithoutKeystore ==
  /\ stage = "keys"
  /\ client' = IF suite = "automated" THEN "holding" ELSE "running"
  /\ Await("deposited", DepositWait)
  /\ UNCHANGED <<suite, sent, known, outside>>

\* ImportKeystore, or the start of a client with the keystore; ListKeystores.
HoldKey ==
  /\ stage = "keys"
  /\ client' = "holding"
  /\ Await("deposited", DepositWait)
  /\ UNCHANGED <<suite, sent, known, outside>>

ExpectDeposited ==
  /\ stage = "deposited" /\ Deposited
  /\ Await("queued", ActivationQueueTimeout)
  /\ UNCHANGED <<suite, client, sent, known, outside>>

ExpectActive ==
  /\ stage = "queued" /\ Active
  /\ known' = beacon.activation
  /\ Await("attesting", AttestationTimeout)
  /\ UNCHANGED <<suite, client, sent, outside>>

\* Faulty: the exit is given the time of an attestation.
ShortExitSpec ==
  /\ stage = "attesting" /\ Rewarded
  /\ Await("period", AttestationTimeout)
  /\ UNCHANGED <<suite, client, sent, known, outside>>

\* ExpectActiveAndAttesting returns, and the spec of the exit begins: its one
\* timeout is for both of its waits.
ExpectAttesting ==
  /\ stage = "attesting" /\ Rewarded
  /\ Await("period", ExitTimeout)
  /\ UNCHANGED <<suite, client, sent, known, outside>>

\* The node takes an exit only of a validator that has served its period.
ExitAccepted ==
  client = "holding" /\ Epoch(clock.tip) >= beacon.activation + CommitteePeriod

SubmitExit ==
  /\ stage = "period" /\ PeriodOver
  /\ stage' = IF ExitAccepted THEN "leaving" ELSE "refused"
  /\ UNCHANGED <<suite, deadline, client, sent, known, outside>>

\* The reads of the wait that SubmitExit began, from its baseline on, are
\* OperationScanner's: the clock and what led to them are forgotten.  Each poll
\* scans up to the head, so they take no time the wait for the chain does not.
ScanExit ==
  /\ stage = "leaving"
  /\ stage' = "exit"
  /\ deadline' = None /\ known' = None
  /\ clock' = [now |-> 0, tip |-> 0, mined |-> None]
  /\ beacon' = NoDeposit /\ lost' = [blocks |-> 0, epochs |-> 0]
  /\ UNCHANGED <<suite, client, sent>>

ExpectWithdrawn ==
  /\ stage = "leaving" /\ Withdrawn
  /\ stage' = "withdrawn" /\ deadline' = None
  /\ UNCHANGED <<suite, client, sent, known, outside>>

WaitExpires ==
  /\ stage \in Waiting /\ deadline # None
  /\ clock.now >= deadline /\ ~Awaited
  /\ stage' = "timeout"
  /\ UNCHANGED <<suite, deadline, client, sent, known, outside>>

Onboard ==
  \/ \E proposed, regular \in BOOLEAN : NextSlot(proposed, regular)
  \/ CallFails \/ SetUp \/ SendDeposit \/ RunDepositCLI \/ DepositLogged \/ HoldKey
  \/ ExpectDeposited \/ ExpectActive \/ ExpectAttesting \/ SubmitExit \/ ScanExit
  \/ ExpectWithdrawn \/ WaitExpires

StakingNext ==
  \/ stage # "exit" /\ Onboard /\ UNCHANGED vars
  \/ stage = "exit" /\ Next /\ UNCHANGED staking

StakingSpec == StakingInit /\ [][StakingNext]_<<vars, staking>>

-----------------------------------------------------------------------------
\* A healthy chain: few proposals missed, and never the majority of a voting
\* period; few epochs without finality or attestation.
Healthy ==
  /\ 2 * lost.blocks < ExecutionVotingPeriod
  /\ lost.blocks <= SlotsPerEpoch
  /\ lost.epochs <= 3

(***************************************************************************)
(* On a healthy chain no wait of a staking suite gives up, from the        *)
(* deposit to the withdrawal of the stake, and no exit is refused, in      *)
(* whatever slot of a voting period the deposit is made: the deadlines     *)
(* computed in advance, DepositWait first of all, cover what the chain     *)
(* takes, and ExitTimeout covers both waits of its spec.  Only a deposit   *)
(* the CLI failed to send runs into one, and that is the short wait for    *)
(* its event and never the long one.  The assumptions say how far the      *)
(* constants may grow: a follow distance of half a voting period, and a    *)
(* committee period and a sweep that ExitTimeout has room for.             *)
(***************************************************************************)
WaitsSuffice ==
  stage \in {"timeout", "refused"} =>
    \/ ~Healthy
    \/ sent = "lost" /\ client = "off"
=============================================================================
