---------------------------- MODULE StakingProofs ----------------------------
(***************************************************************************)
(* The staking suites.  The scanner that follows an exit and a withdrawal, *)
(* for chains of any length with any empty slots, any withdrawals and any  *)
(* failed reads; and the deadlines of all waits, for epochs and a voting   *)
(* period of any length, a follow distance of up to half that period, and  *)
(* a committee period and a sweep that ExitTimeout has room for.           *)
(***************************************************************************)
EXTENDS Staking, TLAPS

-----------------------------------------------------------------------------
(***************************************************************************)
(* The onboarding of a validator.                                          *)
(***************************************************************************)
Beacons == [votes : Nat, adopted : BOOLEAN, included : Nat \cup {None}, finalized : Nat,
            activation : Nat \cup {None}, rewarded : Nat \cup {None},
            exited : Nat \cup {None}, withdrawn : Nat \cup {None}]

\* The stages of a validator in the beacon state.
Served == {"queued", "attesting", "period", "leaving"}
Stages == {"setup", "deposit", "mined", "event", "keys", "deposited", "exit",
           "withdrawn", "failed", "timeout", "refused"} \cup Served

StakingTypeOK ==
  /\ suite \in {"automated", "operator"}
  /\ stage \in Stages
  /\ deadline \in Nat \cup {None}
  /\ client \in {"off", "running", "holding"}
  /\ sent \in {"no", "sent", "lost", "mined"}
  /\ known \in Nat \cup {None}
  /\ clock \in [now : Nat, tip : Nat, mined : Nat \cup {None}]
  /\ beacon \in Beacons
  /\ lost \in [blocks : Nat, epochs : Nat]

(***************************************************************************)
(* The chain so far.                                                       *)
(***************************************************************************)
ClockInv ==
  /\ clock.tip <= clock.now /\ clock.now <= clock.tip + lost.blocks
  /\ sent = "no" => lost.blocks = 0
  /\ sent = "mined" <=> clock.mined # None
  /\ clock.mined # None => 1 <= clock.mined /\ clock.mined <= clock.now

BeaconInv ==
  /\ clock.mined = None \/ clock.mined = clock.now => ~beacon.adopted /\ beacon.included = None
  /\ beacon.included = None =>
       beacon.activation = None /\ beacon.rewarded = None /\ lost.epochs = 0
  /\ beacon.included # None => beacon.adopted /\ beacon.included <= clock.now
  /\ beacon.activation = None => beacon.rewarded = None

(***************************************************************************)
(* The votes.  In the first voting period that begins late enough after    *)
(* the deposit every block votes for it, so a count behind the slots of    *)
(* the period is as far behind as proposals were missed.                   *)
(***************************************************************************)
PeriodStart(slot) == slot - (slot % ExecutionVotingPeriod)
LatePeriod(first) == first > clock.mined /\ first >= clock.mined + FollowDistance
FewMissed == 2 * lost.blocks < ExecutionVotingPeriod
LastStart == clock.mined + FollowDistance + ExecutionVotingPeriod

VotesInv ==
  /\ ~beacon.adopted => 2 * beacon.votes <= ExecutionVotingPeriod
  /\ clock.mined # None /\ FewMissed =>
       /\ ~beacon.adopted /\ LatePeriod(PeriodStart(clock.now)) =>
            /\ PeriodStart(clock.now) <= LastStart
            /\ beacon.votes + lost.blocks >= clock.now - PeriodStart(clock.now) + 1
       /\ beacon.adopted /\ beacon.included = None =>
            clock.now <= LastStart + (ExecutionVotingPeriod \div 2) + lost.blocks
       /\ beacon.included # None =>
            beacon.included <= LastStart + (ExecutionVotingPeriod \div 2) + lost.blocks + 1

(***************************************************************************)
(* The life of the validator: every epoch that delays it is a lapse.       *)
(***************************************************************************)
LifeInv ==
  stage \in {"deposited"} \cup Served /\ beacon.included # None =>
    /\ beacon.activation = None =>
         Epoch(clock.now) <= Epoch(beacon.included) + UpdateDelay + 2 + lost.epochs
    /\ beacon.activation # None =>
         /\ beacon.activation <= Epoch(beacon.included) + UpdateDelay + 7 + lost.epochs
         /\ beacon.rewarded = None => Epoch(clock.now) <= beacon.activation + lost.epochs
         /\ beacon.rewarded # None =>
              /\ beacon.activation <= beacon.rewarded
              /\ beacon.rewarded <= beacon.activation + lost.epochs

(***************************************************************************)
(* The suite, and when its present wait began.                             *)
(***************************************************************************)
HarnessInv ==
  /\ stage \in {"setup", "deposit"} => sent = "no"
  /\ suite = "operator" /\ stage \in {"deposit", "event"} => client = "off"
  /\ sent = "lost" => stage \in {"event", "timeout"} /\ client = "off"
  /\ stage \in {"setup", "deposit", "mined", "keys"} => deadline = None
  /\ stage = "mined" => sent \in {"sent", "mined"}
  /\ stage = "event" =>
       /\ suite = "operator" /\ sent # "no" /\ deadline # None
       /\ sent = "sent" => clock.now + DepositEventTimeout <= deadline + lost.blocks
  /\ stage \in {"mined", "event", "keys"} /\ sent = "mined" => clock.mined = clock.now
  /\ stage \in {"keys", "deposited"} \cup Served => sent = "mined"
  /\ stage \in {"deposited"} \cup Served => client = "holding"
  /\ stage = "deposited" => deadline = clock.mined + DepositWait
  /\ stage \in Served => beacon.included # None /\ deadline # None
  /\ stage = "queued" =>
       /\ deadline >= ActivationQueueTimeout
       /\ Epoch(deadline - ActivationQueueTimeout) >= Epoch(beacon.included) + UpdateDelay
  /\ stage \in {"attesting", "period", "leaving"} =>
       beacon.activation # None /\ known = beacon.activation
  /\ stage = "attesting" =>
       deadline >= AttestationTimeout /\ Epoch(deadline - AttestationTimeout) >= beacon.activation
  /\ stage \in {"period", "leaving"} =>
       /\ beacon.rewarded # None
       /\ deadline >= ExitTimeout /\ Epoch(deadline - ExitTimeout) >= beacon.activation + 2

(***************************************************************************)
(* The exit: what is left of the committee period when its spec begins,    *)
(* and then a slot at a time, of which only a missed block adds more.      *)
(***************************************************************************)
Remaining == IF CommitteePeriod > 2 THEN CommitteePeriod - 2 ELSE 0
ServedBy == deadline - ExitTimeout + SlotsPerEpoch * Remaining

ExitInv ==
  /\ stage \notin {"leaving", "withdrawn", "timeout"} =>
       beacon.exited = None /\ beacon.withdrawn = None
  /\ stage \in {"period", "leaving"} /\ beacon.exited = None =>
       beacon.withdrawn = None /\ clock.now <= ServedBy + lost.blocks
  /\ stage = "leaving" =>
       /\ beacon.exited # None => beacon.exited <= ServedBy + lost.blocks + 1
       /\ beacon.withdrawn = None =>
            clock.now <= ServedBy + 7 * SlotsPerEpoch + Sweep + lost.blocks
       /\ beacon.withdrawn # None =>
            beacon.withdrawn <= ServedBy + 7 * SlotsPerEpoch + Sweep + lost.blocks + 1
       /\ ~Withdrawn => clock.now <= ServedBy + 8 * SlotsPerEpoch + Sweep + lost.blocks

\* The inductive invariant.  When the scanner takes over, what led to it is
\* forgotten.
StakingInv ==
  /\ StakingTypeOK /\ WaitsSuffice /\ stage # "refused"
  /\ stage # "exit" => ClockInv /\ BeaconInv /\ VotesInv /\ LifeInv /\ HarnessInv /\ ExitInv

-----------------------------------------------------------------------------
(***************************************************************************)
(* Division: slots, epochs and voting periods of any length.               *)
(***************************************************************************)
LEMMA Division ==
  ASSUME NEW a \in Nat, NEW d \in Nat \ {0}
  PROVE  /\ a \div d \in Nat /\ a % d \in Nat /\ a % d < d
         /\ a = d * (a \div d) + (a % d)
  OBVIOUS

LEMMA NextNumber ==
  ASSUME NEW a \in Nat, NEW d \in Nat \ {0}
  PROVE  IF (a + 1) % d = 0 THEN a % d = d - 1 /\ (a + 1) \div d = (a \div d) + 1
         ELSE (a + 1) % d = (a % d) + 1 /\ (a + 1) \div d = a \div d
  OBVIOUS

LEMMA LaterQuotient ==
  ASSUME NEW a \in Nat, NEW b \in Nat, NEW d \in Nat \ {0}, NEW k \in Nat, b >= a + d * k
  PROVE  b \div d >= (a \div d) + k
  OBVIOUS

LEMMA Epochs ==
  ASSUME NEW slot \in Nat
  PROVE  /\ Epoch(slot) \in Nat
         /\ (slot + 1) % SlotsPerEpoch = 0 => Epoch(slot + 1) = Epoch(slot) + 1
         /\ (slot + 1) % SlotsPerEpoch # 0 => Epoch(slot + 1) = Epoch(slot)
<1>1. SlotsPerEpoch \in Nat \ {0}
  BY StakingAssumption
<1> QED
  BY <1>1, Division, NextNumber DEF Epoch

LEMMA EpochsLater ==
  ASSUME NEW s \in Nat, NEW t \in Nat, NEW k \in Nat, t >= s + SlotsPerEpoch * k
  PROVE  Epoch(t) >= Epoch(s) + k
<1>1. SlotsPerEpoch \in Nat \ {0}
  BY StakingAssumption
<1> QED
  BY <1>1, LaterQuotient DEF Epoch

LEMMA VotingPeriod ==
  /\ ExecutionVotingPeriod \in Nat \ {0}
  /\ ExecutionVotingPeriod >= 2 * FollowDistance
  /\ FollowDistance \in Nat
<1>1. VotingEpochs \in Nat \ {0} /\ SlotsPerEpoch \in Nat \ {0} /\ FollowDistance \in Nat
  BY StakingAssumption
<1>2. VotingEpochs * SlotsPerEpoch \in Nat \ {0}
  BY <1>1
<1> QED
  BY <1>1, <1>2, StakingAssumption DEF ExecutionVotingPeriod

\* A period starts with its slot, goes on or is followed by the next one, and
\* only the very first one starts before a whole period has passed.
LEMMA Periods ==
  ASSUME NEW slot \in Nat
  PROVE  /\ PeriodStart(slot) \in Nat
         /\ PeriodStart(slot) <= slot /\ slot < PeriodStart(slot) + ExecutionVotingPeriod
         /\ PeriodStart(slot) > 0 => PeriodStart(slot) >= ExecutionVotingPeriod
         /\ (slot + 1) % ExecutionVotingPeriod # 0 => PeriodStart(slot + 1) = PeriodStart(slot)
         /\ (slot + 1) % ExecutionVotingPeriod = 0 =>
              /\ PeriodStart(slot + 1) = slot + 1
              /\ slot + 1 = PeriodStart(slot) + ExecutionVotingPeriod
<1> DEFINE P == ExecutionVotingPeriod
<1>1. P \in Nat \ {0}
  BY VotingPeriod
<1>2. /\ slot \div P \in Nat /\ slot % P \in Nat /\ slot % P < P
      /\ slot = P * (slot \div P) + (slot % P)
  BY <1>1, Division
<1>3. IF (slot + 1) % P = 0 THEN slot % P = P - 1 ELSE (slot + 1) % P = (slot % P) + 1
  BY <1>1, NextNumber
<1>4. PeriodStart(slot) = slot - (slot % P) /\ PeriodStart(slot + 1) = slot + 1 - ((slot + 1) % P)
  BY <1>1 DEF PeriodStart
<1> HIDE DEF P
<1>5. ASSUME NEW q \in Nat, NEW product, product = P * q, product > 0
      PROVE  product >= P
  <2>1. q >= 1
    BY <1>1, <1>5
  <2> QED
    BY <1>1, <1>5, <2>1
<1>6. slot - (slot % P) = P * (slot \div P) /\ P * (slot \div P) \in Nat
  BY <1>1, <1>2
<1>7. P * (slot \div P) > 0 => P * (slot \div P) >= P
  BY <1>2, <1>5
<1> QED
  BY <1>1, <1>2, <1>3, <1>6, <1>7, <1>4 DEF P

-----------------------------------------------------------------------------
(***************************************************************************)
(* A slot of the wall clock.                                               *)
(***************************************************************************)
SlotStep(proposed, regular) ==
  /\ UNCHANGED <<suite, stage, deadline, client, known>>
  /\ clock'.now = clock.now + 1
  /\ clock'.tip = IF proposed THEN clock.now + 1 ELSE clock.tip
  /\ clock'.mined = IF proposed /\ sent = "sent" THEN clock.now + 1 ELSE clock.mined
  /\ sent' = IF proposed /\ sent = "sent" THEN "mined" ELSE sent
  /\ lost'.blocks = lost.blocks + (IF proposed THEN 0 ELSE 1)
  /\ lost'.epochs = lost.epochs + (IF regular THEN 0 ELSE 1)
  /\ ~proposed => sent # "no"
  /\ ~regular => (clock.now + 1) % SlotsPerEpoch = 0 /\ beacon.included # None

\* The votes and the inclusion.
VotesStep(proposed) ==
  /\ beacon'.included = IF beacon.included = None /\ beacon.adopted /\ proposed
                        THEN clock.now + 1 ELSE beacon.included
  /\ \E count \in Nat :
       /\ count = (IF (clock.now + 1) % ExecutionVotingPeriod = 0 THEN 0 ELSE beacon.votes)
                    + (IF proposed /\ ~beacon.adopted /\ Covers(clock.now + 1) THEN 1 ELSE 0)
       /\ beacon'.adopted <=> beacon.adopted \/ 2 * count > ExecutionVotingPeriod
       /\ beacon'.votes = IF 2 * count > ExecutionVotingPeriod THEN 0 ELSE count

\* The activation and the reward, at the end of an epoch.
LifeStep(regular) ==
  /\ (clock.now + 1) % SlotsPerEpoch # 0 =>
       beacon'.activation = beacon.activation /\ beacon'.rewarded = beacon.rewarded
  /\ beacon.included = None => beacon'.activation = beacon.activation
  /\ beacon.activation # None => beacon'.activation = beacon.activation
  /\ beacon'.activation # beacon.activation => beacon'.activation = Epoch(clock.now) + 5
  /\ (clock.now + 1) % SlotsPerEpoch = 0 =>
       /\ regular /\ Epoch(clock.now) > 0 /\ beacon.included # None /\ beacon.activation = None
            /\ Epoch(clock.now) >= Epoch(beacon.included) + UpdateDelay + 2 => beacon'.activation # None
       /\ beacon'.rewarded = IF /\ beacon.activation # None /\ beacon.rewarded = None
                                /\ Epoch(clock.now) >= beacon.activation
                                /\ regular /\ client = "holding"
                             THEN Epoch(clock.now) ELSE beacon.rewarded

\* The exit and the withdrawal.
ExitStep(proposed) ==
  /\ beacon'.exited = IF beacon.exited = None /\ proposed /\ stage = "leaving"
                      THEN clock.now + 1 ELSE beacon.exited
  /\ beacon'.withdrawn =
       IF /\ beacon.withdrawn = None /\ proposed /\ beacon.exited # None
          /\ clock.now + 1 >= (Epoch(beacon.exited) + 7) * SlotsPerEpoch + Sweep
       THEN clock.now + 1 ELSE beacon.withdrawn

\* The beacon state after the slot: first the end of an epoch, then the votes,
\* then the exit.
LEMMA SlotBeacon ==
  ASSUME StakingTypeOK, NEW proposed \in BOOLEAN, NEW regular \in BOOLEAN, NextSlot(proposed, regular)
  PROVE  beacon' \in Beacons /\ VotesStep(proposed) /\ LifeStep(regular) /\ ExitStep(proposed)
<1> DEFINE ends == (clock.now + 1) % SlotsPerEpoch = 0
<1>1. /\ clock.now \in Nat /\ beacon \in Beacons
      /\ beacon.votes \in Nat /\ beacon.adopted \in BOOLEAN /\ beacon.included \in Nat \cup {None}
      /\ beacon.finalized \in Nat /\ beacon.activation \in Nat \cup {None}
      /\ beacon.rewarded \in Nat \cup {None}
      /\ beacon.exited \in Nat \cup {None} /\ beacon.withdrawn \in Nat \cup {None}
  BY DEF StakingTypeOK, Beacons
<1>2. Epoch(clock.now) \in Nat /\ (ends => Epoch(clock.now + 1) - 1 = Epoch(clock.now))
  BY <1>1, Epochs
<1>3. PICK e \in Nat : e = Epoch(clock.now)
  BY <1>2
<1>4. PICK c : c = Closed(beacon, e, regular)
  OBVIOUS
<1>5. PICK b : b = IF ends THEN c ELSE beacon
  OBVIOUS
<1>6. PICK v : v = Voted(b, clock.now + 1, proposed)
  OBVIOUS
<1>7. beacon' = Left(v, clock.now + 1, proposed)
  BY <1>2, <1>3, <1>4, <1>5, <1>6 DEF NextSlot
<1>8. /\ c \in Beacons
      /\ c.votes = beacon.votes /\ c.adopted = beacon.adopted /\ c.included = beacon.included
      /\ c.exited = beacon.exited /\ c.withdrawn = beacon.withdrawn
      /\ beacon.included = None => c.activation = beacon.activation
      /\ beacon.activation # None => c.activation = beacon.activation
      /\ c.activation # beacon.activation => c.activation = e + 5
      /\ regular /\ e > 0 /\ beacon.included # None /\ beacon.activation = None
           /\ e >= Epoch(beacon.included) + UpdateDelay + 2 => c.activation # None
      /\ c.rewarded = IF /\ beacon.activation # None /\ beacon.rewarded = None
                         /\ e >= beacon.activation
                         /\ regular /\ client = "holding"
                      THEN e ELSE beacon.rewarded
  <2>1. PICK finalized \in Nat : finalized = IF regular /\ beacon.included # None /\ e > 0
                                            THEN e - 1 ELSE beacon.finalized
    BY <1>1
  <2>2. PICK eligible \in BOOLEAN : eligible <=> (/\ beacon.included # None /\ beacon.activation = None
                                              /\ finalized >= Epoch(beacon.included) + UpdateDelay + 1)
    OBVIOUS
  <2>3. PICK attested \in BOOLEAN : attested <=> (/\ beacon.activation # None /\ beacon.rewarded = None
                                              /\ e >= beacon.activation
                                              /\ regular /\ client = "holding")
    OBVIOUS
  <2>4. c = [beacon EXCEPT !.finalized = IF beacon.activation = None THEN finalized ELSE 0,
                           !.activation = IF eligible THEN e + 5 ELSE beacon.activation,
                           !.rewarded = IF attested THEN e ELSE beacon.rewarded]
    BY <1>4, <2>1, <2>2, <2>3 DEF Closed
  <2>5. regular /\ e > 0 /\ beacon.included # None /\ beacon.activation = None
          /\ e >= Epoch(beacon.included) + UpdateDelay + 2 => eligible
    <3>1. beacon.included # None => Epoch(beacon.included) \in Nat
      BY <1>1, Epochs
    <3>2. UpdateDelay \in Nat
      BY StakingAssumption
    <3> QED
      BY <2>1, <2>2, <3>1, <3>2
  <2>6. e + 5 \in Nat /\ e + 5 # None
    BY StakingAssumption
  <2>7. eligible => beacon.included # None /\ beacon.activation = None
    BY <2>2
  <2>8. /\ (IF beacon.activation = None THEN finalized ELSE 0) \in Nat
        /\ (IF eligible THEN e + 5 ELSE beacon.activation) \in Nat \cup {None}
        /\ (IF attested THEN e ELSE beacon.rewarded) \in Nat \cup {None}
    BY <1>1, <2>6
  <2>9. /\ c \in Beacons
        /\ c.votes = beacon.votes /\ c.adopted = beacon.adopted /\ c.included = beacon.included
        /\ c.exited = beacon.exited /\ c.withdrawn = beacon.withdrawn
        /\ c.activation = IF eligible THEN e + 5 ELSE beacon.activation
        /\ c.rewarded = IF attested THEN e ELSE beacon.rewarded
    BY ONLY <1>1, <2>4, <2>8, ZenonT(60) DEF Beacons
  <2> QED
    BY ONLY <2>3, <2>5, <2>6, <2>7, <2>9
<1>9. /\ b \in Beacons
      /\ b.votes = beacon.votes /\ b.adopted = beacon.adopted /\ b.included = beacon.included
      /\ b.exited = beacon.exited /\ b.withdrawn = beacon.withdrawn
      /\ b.activation = IF ends THEN c.activation ELSE beacon.activation
      /\ b.rewarded = IF ends THEN c.rewarded ELSE beacon.rewarded
  BY ONLY <1>1, <1>5, <1>8
<1>10. PICK covers \in BOOLEAN : covers <=> Covers(clock.now + 1)
  BY DEF Covers
<1>11. PICK count \in Nat : count = (IF (clock.now + 1) % ExecutionVotingPeriod = 0 THEN 0 ELSE b.votes)
                                      + (IF proposed /\ ~b.adopted /\ covers THEN 1 ELSE 0)
  BY <1>1, <1>9
<1>12. PICK won \in BOOLEAN : won <=> 2 * count > ExecutionVotingPeriod
  OBVIOUS
<1>13. v = [b EXCEPT !.votes = IF won THEN 0 ELSE count,
                           !.adopted = b.adopted \/ won,
                           !.included = IF b.included = None /\ b.adopted /\ proposed
                                        THEN clock.now + 1 ELSE b.included]
  <2> DEFINE kept == IF (clock.now + 1) % ExecutionVotingPeriod = 0 THEN 0 ELSE b.votes
             all == IF proposed /\ ~b.adopted /\ Covers(clock.now + 1) THEN kept + 1 ELSE kept
             wins == 2 * all > ExecutionVotingPeriod
  <2>1. v = [b EXCEPT !.votes = IF wins THEN 0 ELSE all,
                            !.adopted = b.adopted \/ wins,
                            !.included = IF b.included = None /\ b.adopted /\ proposed
                                         THEN clock.now + 1 ELSE b.included]
    BY <1>6 DEF Voted
  <2>2. all = count
    BY <1>1, <1>9, <1>10, <1>11
  <2> HIDE DEF all
  <2>3. wins <=> won
    BY <1>12, <2>2
  <2> HIDE DEF wins
  <2>4. (b.adopted \/ wins) = (b.adopted \/ won)
    BY <2>3
  <2> QED
    BY <2>1, <2>2, <2>3, <2>4
<1>14. /\ (IF won THEN 0 ELSE count) \in Nat /\ (b.adopted \/ won) \in BOOLEAN
       /\ (IF b.included = None /\ b.adopted /\ proposed THEN clock.now + 1 ELSE b.included)
             \in Nat \cup {None}
  BY <1>1, <1>9
<1>15. /\ v \in Beacons
       /\ v.activation = b.activation /\ v.rewarded = b.rewarded
       /\ v.included = IF b.included = None /\ b.adopted /\ proposed THEN clock.now + 1 ELSE b.included
       /\ v.adopted = (b.adopted \/ won) /\ v.votes = IF won THEN 0 ELSE count
       /\ v.exited = b.exited /\ v.withdrawn = b.withdrawn
  <2>1. PICK votes \in Nat : votes = IF won THEN 0 ELSE count
    BY ONLY <1>14
  <2>2. PICK adopted \in BOOLEAN : adopted = (b.adopted \/ won)
    BY ONLY <1>14
  <2>3. PICK included \in Nat \cup {None} :
          included = IF b.included = None /\ b.adopted /\ proposed THEN clock.now + 1 ELSE b.included
    BY ONLY <1>14
  <2>4. v = [b EXCEPT !.votes = votes, !.adopted = adopted, !.included = included]
    BY ONLY <1>13, <2>1, <2>2, <2>3
  <2>5. /\ v \in Beacons
        /\ v.activation = b.activation /\ v.rewarded = b.rewarded
        /\ v.included = included /\ v.adopted = adopted /\ v.votes = votes
        /\ v.exited = b.exited /\ v.withdrawn = b.withdrawn
    BY ONLY <1>9, <2>4 DEF Beacons
  <2> QED
    BY ONLY <2>1, <2>2, <2>3, <2>5
<1>16. PICK swept \in BOOLEAN :
         swept <=> /\ v.exited # None
                   /\ clock.now + 1 >= (Epoch(v.exited) + 7) * SlotsPerEpoch + Sweep
  OBVIOUS
<1>17. beacon' = [v EXCEPT !.exited = IF v.exited = None /\ proposed /\ stage = "leaving"
                                      THEN clock.now + 1 ELSE v.exited,
                           !.withdrawn = IF v.withdrawn = None /\ proposed /\ swept
                                         THEN clock.now + 1 ELSE v.withdrawn]
  BY <1>7, <1>16 DEF Left
<1>18. v.exited \in Nat \cup {None} /\ v.withdrawn \in Nat \cup {None} /\ clock.now + 1 \in Nat
  BY ONLY <1>1, <1>9, <1>15
<1>19. PICK exited \in Nat \cup {None} :
         exited = IF v.exited = None /\ proposed /\ stage = "leaving" THEN clock.now + 1 ELSE v.exited
  BY ONLY <1>18
<1>20. PICK paid \in Nat \cup {None} :
         paid = IF v.withdrawn = None /\ proposed /\ swept THEN clock.now + 1 ELSE v.withdrawn
  BY ONLY <1>18
<1>21. /\ beacon' \in Beacons
       /\ beacon'.activation = v.activation /\ beacon'.rewarded = v.rewarded
       /\ beacon'.included = v.included /\ beacon'.adopted = v.adopted /\ beacon'.votes = v.votes
       /\ beacon'.exited = exited /\ beacon'.withdrawn = paid
  BY ONLY <1>15, <1>17, <1>19, <1>20, ZenonT(60) DEF Beacons
<1>22. /\ beacon' \in Beacons
       /\ beacon'.activation = b.activation /\ beacon'.rewarded = b.rewarded
       /\ beacon'.included = IF b.included = None /\ b.adopted /\ proposed THEN clock.now + 1 ELSE b.included
       /\ beacon'.adopted = (b.adopted \/ won) /\ beacon'.votes = IF won THEN 0 ELSE count
  BY ONLY <1>15, <1>21
<1>23. VotesStep(proposed)
  <2>1. /\ count = (IF (clock.now + 1) % ExecutionVotingPeriod = 0 THEN 0 ELSE beacon.votes)
                     + (IF proposed /\ ~beacon.adopted /\ Covers(clock.now + 1) THEN 1 ELSE 0)
        /\ beacon'.adopted <=> beacon.adopted \/ 2 * count > ExecutionVotingPeriod
        /\ beacon'.votes = IF 2 * count > ExecutionVotingPeriod THEN 0 ELSE count
    BY ONLY <1>9, <1>10, <1>11, <1>12, <1>22
  <2> QED
    BY <1>9, <1>22, <2>1 DEF VotesStep
<1>24. LifeStep(regular)
  BY <1>3, <1>8, <1>9, <1>22 DEF LifeStep
<1>25. ExitStep(proposed)
  BY <1>9, <1>15, <1>16, <1>19, <1>20, <1>21 DEF ExitStep
<1> QED
  BY <1>22, <1>23, <1>24, <1>25

LEMMA SlotIs ==
  ASSUME StakingTypeOK, NEW proposed \in BOOLEAN, NEW regular \in BOOLEAN, NextSlot(proposed, regular)
  PROVE  /\ StakingTypeOK' /\ SlotStep(proposed, regular)
         /\ VotesStep(proposed) /\ LifeStep(regular) /\ ExitStep(proposed)
<1>1. clock.now \in Nat /\ clock.tip \in Nat /\ clock.mined \in Nat \cup {None}
      /\ lost.blocks \in Nat /\ lost.epochs \in Nat
  BY DEF StakingTypeOK
<1>2. /\ UNCHANGED <<suite, stage, deadline, client, known>>
      /\ clock' = [now |-> clock.now + 1, tip |-> IF proposed THEN clock.now + 1 ELSE clock.tip,
                   mined |-> IF proposed /\ sent = "sent" THEN clock.now + 1 ELSE clock.mined]
      /\ sent' = IF proposed /\ sent = "sent" THEN "mined" ELSE sent
      /\ lost' = [blocks |-> lost.blocks + (IF proposed THEN 0 ELSE 1),
                  epochs |-> lost.epochs + (IF regular THEN 0 ELSE 1)]
      /\ ~proposed => sent # "no"
      /\ ~regular => (clock.now + 1) % SlotsPerEpoch = 0 /\ beacon.included # None
  BY DEF NextSlot
<1>3. /\ clock' \in [now : Nat, tip : Nat, mined : Nat \cup {None}]
      /\ lost' \in [blocks : Nat, epochs : Nat]
  BY <1>1, <1>2
<1>4. beacon' \in Beacons /\ VotesStep(proposed) /\ LifeStep(regular) /\ ExitStep(proposed)
  BY SlotBeacon
<1>5. sent' \in {"no", "sent", "lost", "mined"}
  BY <1>2 DEF StakingTypeOK
<1>6. StakingTypeOK'
  BY <1>2, <1>3, <1>4, <1>5 DEF StakingTypeOK
<1>7. SlotStep(proposed, regular)
  BY <1>2 DEF SlotStep
<1> QED
  BY <1>4, <1>6, <1>7

\* Time, the tip and the deposit's slot; and what the beacon state has seen.
LEMMA SlotClock ==
  ASSUME StakingTypeOK, StakingTypeOK', ClockInv, NEW proposed \in BOOLEAN, NEW regular \in BOOLEAN,
         SlotStep(proposed, regular)
  PROVE  /\ ClockInv'
         /\ clock.mined # None => clock'.mined = clock.mined
         /\ clock.mined = None => clock'.mined \in {None, clock'.now}
<1>1. clock.now \in Nat /\ clock.tip \in Nat /\ clock.mined \in Nat \cup {None} /\ lost.blocks \in Nat
  BY DEF StakingTypeOK
<1>2. clock.now + 1 # None
  BY <1>1, StakingAssumption
<1> QED
  BY <1>1, <1>2 DEF ClockInv, SlotStep

LEMMA SlotSeen ==
  ASSUME StakingTypeOK, StakingTypeOK', ClockInv, BeaconInv, VotesInv,
         NEW proposed \in BOOLEAN, NEW regular \in BOOLEAN,
         SlotStep(proposed, regular), VotesStep(proposed), LifeStep(regular)
  PROVE  /\ BeaconInv'
         /\ beacon.included # None => beacon'.included = beacon.included
         /\ beacon.included = None => beacon'.included \in {None, clock'.now}
<1>1. /\ clock.now \in Nat /\ clock.tip \in Nat /\ clock.mined \in Nat \cup {None}
      /\ lost.blocks \in Nat /\ lost.epochs \in Nat
      /\ beacon.votes \in Nat /\ beacon.adopted \in BOOLEAN /\ beacon.included \in Nat \cup {None}
      /\ beacon.activation \in Nat \cup {None} /\ beacon.rewarded \in Nat \cup {None}
      /\ beacon'.adopted \in BOOLEAN
  BY DEF StakingTypeOK, Beacons
<1>2. clock.now + 1 # None /\ clock'.now = clock.now + 1
  BY <1>1, StakingAssumption DEF SlotStep
<1>3. clock'.mined = None \/ clock'.mined = clock'.now => ~beacon'.adopted /\ beacon'.included = None
  <2> SUFFICES ASSUME clock'.mined = None \/ clock'.mined = clock'.now
               PROVE  ~beacon'.adopted /\ beacon'.included = None
    OBVIOUS
  <2>1. clock.mined = None
    BY <1>1, <1>2, SlotClock DEF ClockInv
  <2>2. ~beacon.adopted /\ beacon.included = None /\ ~Covers(clock.now + 1)
    BY <2>1 DEF BeaconInv, Covers
  <2>3. PICK count \in Nat :
          /\ count = IF (clock.now + 1) % ExecutionVotingPeriod = 0 THEN 0 ELSE beacon.votes
          /\ beacon'.adopted <=> 2 * count > ExecutionVotingPeriod
    BY <1>1, <2>2 DEF VotesStep
  <2>4. 2 * count <= ExecutionVotingPeriod
    BY <1>1, <2>2, <2>3, VotingPeriod DEF VotesInv
  <2> QED
    BY <2>2, <2>3, <2>4, VotingPeriod DEF VotesStep
<1>4. beacon.adopted => beacon'.adopted
  BY DEF VotesStep
<1>5. /\ beacon.included # None => beacon'.included = beacon.included
      /\ beacon.included = None => beacon'.included \in {None, clock'.now}
      /\ beacon.included = None /\ beacon'.included # None => beacon.adopted /\ beacon'.included = clock'.now
  BY <1>2 DEF VotesStep
<1>6. beacon.activation = None => beacon'.rewarded = beacon.rewarded
  BY DEF LifeStep
<1>7. beacon'.included = None =>
        beacon'.activation = None /\ beacon'.rewarded = None /\ lost'.epochs = 0
  BY <1>1, <1>5, <1>6 DEF BeaconInv, SlotStep, LifeStep
<1>8. beacon'.included # None => beacon'.adopted /\ beacon'.included <= clock'.now
  BY <1>1, <1>2, <1>4, <1>5 DEF BeaconInv
<1>9. beacon'.activation = None => beacon'.rewarded = None
  BY <1>6 DEF BeaconInv, LifeStep
<1> QED
  BY <1>3, <1>5, <1>7, <1>8, <1>9 DEF BeaconInv

\* A period that begins late enough and votes in every slot but the missed ones
\* has its majority before it ends.
LEMMA NextPeriod ==
  ASSUME StakingTypeOK, VotesInv, clock.mined # None, FewMissed, ~beacon.adopted,
         (clock.now + 1) % ExecutionVotingPeriod = 0
  PROVE  clock.now + 1 <= LastStart
<1>1. /\ clock.now \in Nat /\ clock.mined \in Nat /\ lost.blocks \in Nat /\ beacon.votes \in Nat
  BY DEF StakingTypeOK, Beacons
<1>2. PICK P \in Nat \ {0} : P = ExecutionVotingPeriod
  BY VotingPeriod
<1>3. PICK first \in Nat : first = PeriodStart(clock.now)
  BY <1>1, Periods
<1>4. clock.now + 1 = first + P
  BY <1>1, <1>2, <1>3, Periods
<1>5. FollowDistance \in Nat
  BY VotingPeriod
<1>6. ASSUME clock.now + 1 > LastStart
      PROVE  FALSE
  <2>1. first > clock.mined /\ first >= clock.mined + FollowDistance
    BY <1>1, <1>2, <1>4, <1>5, <1>6 DEF LastStart
  <2>2. beacon.votes + lost.blocks >= clock.now - first + 1
    BY <1>3, <2>1 DEF VotesInv, LatePeriod
  <2>3. 2 * beacon.votes <= P /\ 2 * lost.blocks < P
    BY <1>2 DEF VotesInv, FewMissed
  <2> QED
    BY <1>1, <1>2, <1>3, <1>4, <2>2, <2>3
<1> QED
  BY <1>1, <1>2, <1>5, <1>6 DEF LastStart

LEMMA SlotVotes ==
  ASSUME StakingTypeOK, StakingTypeOK', ClockInv, BeaconInv, VotesInv,
         NEW proposed \in BOOLEAN, NEW regular \in BOOLEAN,
         SlotStep(proposed, regular), VotesStep(proposed), BeaconInv'
  PROVE  VotesInv'
<1>1. /\ clock.now \in Nat /\ clock.mined \in Nat \cup {None}
      /\ lost.blocks \in Nat /\ beacon.votes \in Nat /\ beacon.adopted \in BOOLEAN
      /\ beacon.included \in Nat \cup {None} /\ beacon'.adopted \in BOOLEAN
  BY DEF StakingTypeOK, Beacons
<1>2. PICK P \in Nat \ {0} : P = ExecutionVotingPeriod
  BY VotingPeriod
<1>3. FollowDistance \in Nat /\ P >= 2 * FollowDistance
  BY <1>2, VotingPeriod
<1>4. PICK half \in Nat : half = P \div 2 /\ P <= 2 * half + 1 /\ 2 * half <= P
  BY <1>2
<1>5. PICK slot \in Nat : slot = clock.now + 1
  BY <1>1
<1>6. PICK first \in Nat : /\ first = PeriodStart(clock.now) /\ first <= clock.now
                           /\ clock.now < first + P
  BY <1>1, <1>2, Periods
<1>7. PICK new \in Nat : /\ new = PeriodStart(slot) /\ new <= slot /\ slot < new + P
                         /\ new > 0 => new >= P
  BY <1>2, <1>5, Periods
<1>8. /\ slot % P # 0 => new = first
      /\ slot % P = 0 => new = slot
  BY <1>1, <1>2, <1>5, <1>6, <1>7, Periods
<1>9. PICK covers \in BOOLEAN : covers <=> Covers(slot)
  BY DEF Covers
<1>10. PICK count \in Nat :
         /\ count = (IF slot % P = 0 THEN 0 ELSE beacon.votes)
                      + (IF proposed /\ ~beacon.adopted /\ covers THEN 1 ELSE 0)
         /\ beacon'.adopted <=> beacon.adopted \/ 2 * count > P
         /\ beacon'.votes = IF 2 * count > P THEN 0 ELSE count
  BY <1>2, <1>5, <1>9 DEF VotesStep
<1>11. /\ clock'.now = slot /\ lost'.blocks = lost.blocks + (IF proposed THEN 0 ELSE 1)
       /\ lost'.blocks \in Nat
  BY <1>1, <1>5 DEF SlotStep
<1>12. clock'.now = slot /\ (clock'.mined # None /\ clock'.mined # slot => clock'.mined = clock.mined)
  BY <1>1, <1>5 DEF SlotStep
<1>13. covers <=> /\ clock.mined # None /\ new >= 2 * FollowDistance
                  /\ clock.mined + FollowDistance <= new
  BY <1>2, <1>7, <1>9 DEF Covers, PeriodStart
<1>14. ~beacon'.adopted => 2 * beacon'.votes <= P
  BY <1>1, <1>10
\* The votes of a period that begins late enough.
<1>15. ASSUME clock'.mined # None, 2 * lost'.blocks < P, ~beacon'.adopted,
              new > clock'.mined, new >= clock'.mined + FollowDistance
       PROVE  /\ new <= clock'.mined + FollowDistance + P
              /\ beacon'.votes + lost'.blocks >= slot - new + 1
  <2>1. clock'.mined \in Nat
    BY <1>15 DEF StakingTypeOK
  <2>2. clock.mined = clock'.mined /\ clock.mined \in Nat
    BY <1>7, <1>12, <1>15, <2>1
  <2>3. ~beacon.adopted /\ 2 * count <= P /\ beacon'.votes = count
    BY <1>10, <1>15
  <2>4. FewMissed
    BY <1>1, <1>2, <1>11, <1>15 DEF FewMissed
  <2>5. covers
    BY <1>3, <1>7, <1>13, <1>15, <2>1, <2>2
  <2>6. CASE slot % P = 0
    <3>1. slot <= LastStart
      BY <1>2, <1>5, <1>15, <2>2, <2>3, <2>4, <2>6, NextPeriod
    <3>2. count = (IF proposed THEN 1 ELSE 0)
      BY <1>10, <2>3, <2>5, <2>6
    <3> QED
      BY <1>1, <1>2, <1>7, <1>8, <1>11, <2>2, <2>3, <2>6, <3>1, <3>2 DEF LastStart
  <2>7. CASE slot % P # 0
    <3>1. new = first
      BY <1>8, <2>7
    <3>2. first <= LastStart /\ beacon.votes + lost.blocks >= clock.now - first + 1
      BY <1>6, <1>15, <2>2, <2>3, <2>4, <3>1 DEF VotesInv, LatePeriod
    <3>3. count = beacon.votes + (IF proposed THEN 1 ELSE 0)
      BY <1>1, <1>10, <2>3, <2>5, <2>7
    <3> QED
      BY <1>1, <1>2, <1>5, <1>11, <2>2, <2>3, <3>1, <3>2, <3>3 DEF LastStart
  <2> QED
    BY <2>6, <2>7
\* How late the votes can be adopted, and the deposit included.
<1>16. ASSUME clock'.mined # None, 2 * lost'.blocks < P, beacon'.adopted, beacon'.included = None
       PROVE  slot <= clock'.mined + FollowDistance + P + half + lost'.blocks
  <2>1. beacon.included = None /\ (beacon.adopted => ~proposed)
    <3>1. slot # None
      BY StakingAssumption
    <3> QED
      BY <1>5, <1>16, <3>1 DEF VotesStep
  <2>2. clock'.mined \in Nat /\ clock'.mined # slot
    BY <1>11, <1>16 DEF StakingTypeOK, BeaconInv
  <2>3. clock.mined = clock'.mined /\ clock.mined \in Nat
    BY <1>12, <1>16, <2>2
  <2>4. FewMissed
    BY <1>1, <1>2, <1>11, <1>16 DEF FewMissed
  <2>5. CASE beacon.adopted
    <3>1. clock.now <= LastStart + half + lost.blocks
      BY <1>2, <1>4, <2>1, <2>3, <2>4, <2>5, <1>16 DEF VotesInv
    <3> QED
      BY <1>1, <1>2, <1>3, <1>4, <1>5, <1>11, <2>1, <2>3, <2>5, <3>1 DEF LastStart
  <2>6. CASE ~beacon.adopted
    <3>1. 2 * count > P /\ 2 * beacon.votes <= P
      BY <1>2, <1>10, <1>16, <2>6 DEF VotesInv
    <3>2. covers
      BY <1>1, <1>2, <1>10, <3>1
    <3>3. clock.mined + FollowDistance <= new
      BY <1>13, <3>2
    <3>4. CASE new <= clock.mined
      BY <1>1, <1>3, <1>4, <1>7, <1>11, <2>3, <3>4
    <3>5. CASE new > clock.mined /\ slot % P = 0
      <4>1. slot <= LastStart
        BY <1>2, <1>5, <1>16, <2>3, <2>4, <2>6, <3>5, NextPeriod
      <4> QED
        BY <1>1, <1>2, <1>3, <1>4, <1>11, <2>3, <4>1 DEF LastStart
    <3>6. CASE new > clock.mined /\ slot % P # 0
      <4>1. new = first
        BY <1>8, <3>6
      <4>2. first <= LastStart /\ beacon.votes + lost.blocks >= clock.now - first + 1
        BY <1>3, <1>6, <1>16, <2>3, <2>4, <2>6, <3>3, <3>6, <4>1 DEF VotesInv, LatePeriod
      <4>3. beacon.votes <= half
        BY <1>1, <1>2, <1>4, <3>1
      <4> QED
        BY <1>1, <1>2, <1>3, <1>4, <1>5, <1>6, <1>11, <2>3, <4>2, <4>3 DEF LastStart
    <3> QED
      BY <1>7, <2>3, <3>4, <3>5, <3>6
  <2> QED
    BY <1>1, <2>5, <2>6
<1>17. ASSUME clock'.mined # None, 2 * lost'.blocks < P, beacon'.included # None
       PROVE  beacon'.included <= clock'.mined + FollowDistance + P + half + lost'.blocks + 1
  <2>1. clock'.mined \in Nat /\ clock'.mined # slot
    BY <1>11, <1>17 DEF StakingTypeOK, BeaconInv
  <2>2. clock.mined = clock'.mined /\ clock.mined \in Nat
    BY <1>12, <1>17, <2>1
  <2>3. FewMissed
    BY <1>1, <1>2, <1>11, <1>17 DEF FewMissed
  <2>4. CASE beacon.included # None
    <3>1. beacon'.included = beacon.included
      BY <2>4 DEF VotesStep
    <3>2. beacon.included <= LastStart + half + lost.blocks + 1
      BY <1>2, <1>4, <2>2, <2>3, <2>4, <1>17 DEF VotesInv
    <3> QED
      BY <1>1, <1>2, <1>3, <1>4, <1>11, <2>2, <2>4, <3>1, <3>2 DEF LastStart
  <2>5. CASE beacon.included = None
    <3>1. beacon'.included = slot /\ beacon.adopted
      BY <1>5, <1>17, <2>5 DEF VotesStep
    <3>2. clock.now <= LastStart + half + lost.blocks
      BY <1>2, <1>4, <2>2, <2>3, <2>5, <3>1, <1>17 DEF VotesInv
    <3> QED
      BY <1>1, <1>2, <1>3, <1>4, <1>5, <1>11, <2>2, <3>1, <3>2 DEF LastStart
  <2> QED
    BY <2>4, <2>5
<1> QED
  BY <1>2, <1>4, <1>5, <1>7, <1>11, <1>14, <1>15, <1>16, <1>17 DEF VotesInv, LatePeriod, LastStart, FewMissed

\* An epoch that passes without what the validator waits for is a lapse.
LEMMA SlotLife ==
  ASSUME StakingTypeOK, StakingTypeOK', BeaconInv, LifeInv, HarnessInv,
         NEW proposed \in BOOLEAN, NEW regular \in BOOLEAN,
         SlotStep(proposed, regular), LifeStep(regular),
         beacon.included # None => beacon'.included = beacon.included,
         beacon.included = None => beacon'.included \in {None, clock'.now}
  PROVE  LifeInv'
<1>1. CASE beacon.included = None
  <2>1. /\ clock.now + 1 \in Nat /\ clock'.now = clock.now + 1 /\ beacon'.activation = None
        /\ lost'.epochs \in Nat /\ UpdateDelay \in Nat
    BY <1>1, StakingAssumption DEF StakingTypeOK, BeaconInv, SlotStep, LifeStep
  <2>2. Epoch(clock'.now) \in Nat
    BY <2>1, Epochs
  <2> QED
    BY <1>1, <2>1, <2>2 DEF LifeInv
<1> SUFFICES ASSUME stage \in {"deposited"} \cup Served, beacon.included # None
             PROVE  LifeInv'
  BY <1>1 DEF LifeInv, SlotStep
<1>2. /\ clock.now \in Nat /\ lost.epochs \in Nat /\ beacon.included \in Nat
      /\ beacon.activation \in Nat \cup {None} /\ beacon.rewarded \in Nat \cup {None}
      /\ client = "holding" /\ beacon.included # None
  BY StakingAssumption DEF StakingTypeOK, Beacons, HarnessInv
<1>3. PICK old \in Nat : old = Epoch(clock.now)
  BY <1>2, Epochs
<1>4. PICK i \in Nat : i = Epoch(beacon.included) + UpdateDelay
  <2>1. Epoch(beacon.included) \in Nat /\ UpdateDelay \in Nat
    BY <1>2, Epochs, StakingAssumption
  <2> QED
    BY <2>1
<1>5. beacon'.included = beacon.included /\ stage' = stage
  BY <1>2 DEF SlotStep
<1>6. /\ beacon.activation = None => old <= i + 2 + lost.epochs /\ beacon.rewarded = None
      /\ beacon.activation # None =>
           /\ beacon.activation <= i + 7 + lost.epochs
           /\ beacon.rewarded = None => old <= beacon.activation + lost.epochs
           /\ beacon.rewarded # None =>
                /\ beacon.activation <= beacon.rewarded
                /\ beacon.rewarded <= beacon.activation + lost.epochs
  BY <1>3, <1>4 DEF LifeInv, BeaconInv
<1>7. old + 5 # None /\ old # None
  BY StakingAssumption
<1>8. lost'.epochs = lost.epochs + (IF regular THEN 0 ELSE 1) /\ clock'.now = clock.now + 1
  BY DEF SlotStep
<1> DEFINE Lives(new, e) ==
             /\ beacon'.activation = None => new <= i + 2 + e
             /\ beacon'.activation # None =>
                  /\ beacon'.activation <= i + 7 + e
                  /\ beacon'.rewarded = None => new <= beacon'.activation + e
                  /\ beacon'.rewarded # None =>
                       /\ beacon'.activation <= beacon'.rewarded
                       /\ beacon'.rewarded <= beacon'.activation + e
<1>9. CASE (clock.now + 1) % SlotsPerEpoch # 0
  <2>1. Epoch(clock'.now) = old
    BY <1>2, <1>3, <1>8, <1>9, Epochs
  <2>2. beacon'.activation = beacon.activation /\ beacon'.rewarded = beacon.rewarded
    BY <1>9 DEF LifeStep
  <2>3. Lives(old, lost'.epochs)
    BY <1>2, <1>6, <1>8, <2>2
  <2> QED
    BY <1>4, <1>5, <2>1, <2>3 DEF LifeInv
<1>10. CASE (clock.now + 1) % SlotsPerEpoch = 0
  <2>1. Epoch(clock'.now) = old + 1
    BY <1>2, <1>3, <1>8, <1>10, Epochs
  <2>2. /\ beacon.activation # None => beacon'.activation = beacon.activation
        /\ beacon'.activation # beacon.activation => beacon'.activation = old + 5
        /\ regular /\ old > 0 /\ beacon.activation = None /\ old >= i + 2 => beacon'.activation # None
        /\ beacon'.rewarded = IF /\ beacon.activation # None /\ beacon.rewarded = None
                                 /\ old >= beacon.activation /\ regular
                              THEN old ELSE beacon.rewarded
    BY <1>2, <1>3, <1>4, <1>10 DEF LifeStep
  <2>3. Lives(old + 1, lost'.epochs)
    BY <1>2, <1>6, <1>7, <1>8, <2>2
  <2> QED
    BY <1>4, <1>5, <2>1, <2>3 DEF LifeInv
<1> QED
  BY <1>9, <1>10

\* Whoever waits has not seen yet what is awaited.
LEMMA SlotHarness ==
  ASSUME StakingTypeOK, StakingTypeOK', ClockInv, BeaconInv, HarnessInv,
         NEW proposed \in BOOLEAN, NEW regular \in BOOLEAN,
         SlotStep(proposed, regular), LifeStep(regular), TimePasses,
         BeaconInv', beacon.included # None => beacon'.included = beacon.included,
         beacon.included = None => beacon'.included \in {None, clock'.now}
  PROVE  HarnessInv'
<1>1. /\ clock.now \in Nat /\ lost.blocks \in Nat /\ lost.epochs \in Nat /\ deadline \in Nat \cup {None}
      /\ lost'.blocks \in Nat /\ clock'.mined \in Nat \cup {None}
  BY DEF StakingTypeOK
<1>2. /\ stage' = stage /\ suite' = suite /\ deadline' = deadline /\ client' = client /\ known' = known
      /\ clock'.now = clock.now + 1
      /\ clock'.mined = IF proposed /\ sent = "sent" THEN clock.now + 1 ELSE clock.mined
      /\ sent' = IF proposed /\ sent = "sent" THEN "mined" ELSE sent
      /\ lost'.blocks = lost.blocks + (IF proposed THEN 0 ELSE 1)
      /\ ~proposed => sent # "no"
      /\ beacon.included = None => lost'.epochs = lost.epochs
  BY <1>1 DEF SlotStep
<1>3. /\ stage \in {"deposit"} \cup Waiting
      /\ stage \in {"mined", "event"} => sent # "mined"
  BY DEF TimePasses, Awaited, Waiting
<1>4. /\ beacon.included = None => beacon'.activation = beacon.activation
      /\ beacon.activation # None => beacon'.activation = beacon.activation
      /\ beacon.rewarded # None => beacon'.rewarded # None
  BY <1>1, StakingAssumption DEF LifeStep
<1>5. /\ stage' \in {"setup", "deposit"} => sent' = "no"
      /\ suite' = "operator" /\ stage' \in {"deposit", "event"} => client' = "off"
      /\ sent' = "lost" => stage' \in {"event", "timeout"} /\ client' = "off"
      /\ stage' \in {"setup", "deposit", "mined", "keys"} => deadline' = None
      /\ stage' = "mined" => sent' \in {"sent", "mined"}
  BY <1>2 DEF HarnessInv
<1>6. stage' = "event" =>
        /\ suite' = "operator" /\ sent' # "no" /\ deadline' # None
        /\ sent' = "sent" => clock'.now + DepositEventTimeout <= deadline' + lost'.blocks
  <2>1. DepositEventTimeout \in Nat
    BY StakingAssumption
  <2> QED
    BY <1>1, <1>2, <2>1 DEF HarnessInv
<1>7. stage' \in {"mined", "event", "keys"} /\ sent' = "mined" => clock'.mined = clock'.now
  BY <1>2, <1>3 DEF Waiting
<1>8. /\ stage' \in {"keys", "deposited"} \cup Served => sent' = "mined"
      /\ stage' \in {"deposited"} \cup Served => client' = "holding"
  BY <1>2 DEF HarnessInv, Served
<1>9. stage' = "deposited" => deadline' = clock'.mined + DepositWait
  BY <1>2 DEF HarnessInv
<1>10. /\ stage' \in Served => beacon'.included # None /\ deadline' # None
       /\ stage' = "queued" =>
            /\ deadline' >= ActivationQueueTimeout
            /\ Epoch(deadline' - ActivationQueueTimeout) >= Epoch(beacon'.included) + UpdateDelay
  BY <1>2 DEF HarnessInv, Served
<1>11. /\ stage' \in {"attesting", "period", "leaving"} =>
            beacon'.activation # None /\ known' = beacon'.activation
       /\ stage' = "attesting" =>
            /\ deadline' >= AttestationTimeout
            /\ Epoch(deadline' - AttestationTimeout) >= beacon'.activation
       /\ stage' \in {"period", "leaving"} =>
            /\ beacon'.rewarded # None
            /\ deadline' >= ExitTimeout /\ Epoch(deadline' - ExitTimeout) >= beacon'.activation + 2
  BY <1>2, <1>4 DEF HarnessInv
<1> QED
  BY <1>5, <1>6, <1>7, <1>8, <1>9, <1>10, <1>11 DEF HarnessInv

\* The exit is taken with the first block after the period is over, and each of
\* its epochs and the sweep begin with what preceded them.
LEMMA SlotExit ==
  ASSUME StakingTypeOK, StakingTypeOK', ClockInv, HarnessInv, ExitInv,
         NEW proposed \in BOOLEAN, NEW regular \in BOOLEAN,
         SlotStep(proposed, regular), ExitStep(proposed), TimePasses
  PROVE  ExitInv'
<1>1. /\ clock.now \in Nat /\ clock.tip \in Nat /\ lost.blocks \in Nat
      /\ clock.now <= clock.tip + lost.blocks /\ clock.now + 1 # None
      /\ beacon.exited \in Nat \cup {None} /\ beacon.withdrawn \in Nat \cup {None}
  BY StakingAssumption DEF StakingTypeOK, Beacons, ClockInv
<1>2. PICK S \in Nat \ {0} : S = SlotsPerEpoch
  BY StakingAssumption
<1>3. PICK k \in Nat : k = Remaining /\ k + 2 >= CommitteePeriod
  BY StakingAssumption DEF Remaining
<1>4. Sweep \in Nat /\ CommitteePeriod \in Nat /\ ExitTimeout \in Nat
  BY StakingAssumption
<1>5. /\ stage' = stage /\ deadline' = deadline /\ clock'.now = clock.now + 1
      /\ clock'.tip = IF proposed THEN clock.now + 1 ELSE clock.tip
      /\ lost'.blocks = lost.blocks + (IF proposed THEN 0 ELSE 1)
  BY DEF SlotStep
<1>6. CASE stage \notin {"period", "leaving"}
  <2>1. stage \notin {"withdrawn", "timeout"}
    BY DEF TimePasses, Waiting
  <2>2. beacon.exited = None /\ beacon.withdrawn = None
    BY <1>6, <2>1 DEF ExitInv
  <2>3. beacon'.exited = None /\ beacon'.withdrawn = None
    BY <1>6, <2>2 DEF ExitStep
  <2> QED
    BY <1>5, <1>6, <2>3 DEF ExitInv
<1>7. CASE stage \in {"period", "leaving"}
  <2>1. PICK s \in Nat : s = deadline - ExitTimeout /\ Epoch(s) >= beacon.activation + 2
    BY <1>4, <1>7 DEF HarnessInv, StakingTypeOK, Served
  <2>2. PICK by \in Nat : by = s + S * k
    BY <1>2, <1>3
  <2>3. ServedBy = by /\ ServedBy' = by
    BY <1>2, <1>3, <1>5, <2>1, <2>2 DEF ServedBy
  <2>4. CASE stage = "period"
    <3>1. beacon.exited = None /\ beacon.withdrawn = None /\ clock.now <= by + lost.blocks
      BY <2>3, <2>4 DEF ExitInv
    <3>2. ~PeriodOver
      BY <2>4 DEF TimePasses, Awaited
    <3>3. ASSUME clock.now >= by + lost.blocks
          PROVE  FALSE
      <4>1. clock.tip >= s + SlotsPerEpoch * k
        BY <1>1, <1>2, <1>3, <2>1, <2>2, <3>3
      <4>2. Epoch(clock.tip) >= Epoch(s) + k /\ Epoch(clock.tip) \in Nat /\ Epoch(s) \in Nat
        BY <1>1, <4>1, EpochsLater, Epochs
      <4>3. known = beacon.activation /\ beacon.activation \in Nat
        BY <2>4 DEF HarnessInv, StakingTypeOK, Beacons
      <4> QED
        BY <1>3, <1>4, <2>1, <3>2, <4>2, <4>3 DEF PeriodOver
    <3>4. clock.now + 1 <= by + lost'.blocks
      BY <1>1, <1>5, <3>3
    <3>5. beacon'.exited = None /\ beacon'.withdrawn = None
      BY <2>4, <3>1 DEF ExitStep
    <3> QED
      BY <1>5, <2>3, <2>4, <3>4, <3>5 DEF ExitInv
  <2>5. CASE stage = "leaving"
    <3>1. ~Withdrawn
      BY <2>5 DEF TimePasses, Awaited
    <3>2. /\ beacon.exited = None => beacon.withdrawn = None /\ clock.now <= by + lost.blocks
          /\ beacon.exited # None => beacon.exited <= by + lost.blocks + 1
          /\ beacon.withdrawn = None => clock.now <= by + 7 * S + Sweep + lost.blocks
          /\ beacon.withdrawn # None => beacon.withdrawn <= by + 7 * S + Sweep + lost.blocks + 1
          /\ clock.now <= by + 8 * S + Sweep + lost.blocks
      BY <1>2, <2>3, <2>5, <3>1 DEF ExitInv
    <3>3. /\ beacon'.exited = None => beacon'.withdrawn = None /\ clock.now + 1 <= by + lost'.blocks
          /\ beacon'.exited # None => beacon'.exited <= by + lost'.blocks + 1
      BY <1>1, <1>2, <1>5, <2>5, <3>2 DEF ExitStep
    <3>4. PICK due : due = (Epoch(beacon.exited) + 7) * SlotsPerEpoch + Sweep
      OBVIOUS
    <3>5. beacon.exited # None => due \in Nat /\ due <= by + lost.blocks + 1 + 7 * S + Sweep
      <4> SUFFICES ASSUME beacon.exited # None
                   PROVE  due \in Nat /\ due <= by + lost.blocks + 1 + 7 * S + Sweep
        OBVIOUS
      <4>1. PICK q \in Nat : q = Epoch(beacon.exited) /\ S * q <= beacon.exited
        <5>1. PICK x \in Nat : x = beacon.exited
          BY <1>1
        <5>2. PICK q \in Nat : q = x \div S
          BY <1>2, Division
        <5>3. PICK m \in Nat : x = S * q + m
          BY <1>2, <5>2, Division
        <5>4. S * q \in Nat
          BY <1>2
        <5>5. S * q <= x
          BY <5>3, <5>4
        <5> QED
          BY <1>2, <5>1, <5>2, <5>5 DEF Epoch
      <4>2. (q + 7) * S = S * q + 7 * S /\ S * q \in Nat
        BY <1>2, <4>1
      <4>3. due = S * q + 7 * S + Sweep
        BY <1>2, <3>4, <4>1, <4>2
      <4> QED
        BY <1>1, <1>2, <1>4, <2>2, <3>2, <4>1, <4>2, <4>3
    <3>6. beacon'.withdrawn = IF /\ beacon.withdrawn = None /\ proposed /\ beacon.exited # None
                                 /\ clock.now + 1 >= due
                              THEN clock.now + 1 ELSE beacon.withdrawn
      BY <3>4 DEF ExitStep
    <3>7. beacon'.withdrawn = None => clock.now + 1 <= by + 7 * S + Sweep + lost'.blocks
      BY <1>1, <1>2, <1>4, <1>5, <2>2, <3>2, <3>5, <3>6
    <3>8. beacon'.withdrawn # None => /\ beacon'.withdrawn \in Nat
                                      /\ beacon'.withdrawn <= by + 7 * S + Sweep + lost'.blocks + 1
      BY <1>1, <1>2, <1>4, <1>5, <2>2, <3>2, <3>6
    <3>9. ~Withdrawn' => clock.now + 1 <= by + 8 * S + Sweep + lost'.blocks
      <4>1. CASE ~proposed
        BY <1>1, <1>2, <1>4, <1>5, <3>2, <4>1
      <4>2. CASE beacon'.withdrawn = None
        BY <1>1, <1>2, <1>4, <1>5, <2>2, <3>7, <4>2
      <4>3. CASE proposed /\ beacon'.withdrawn # None
        <5> SUFFICES ASSUME ~Withdrawn'
                     PROVE  clock.now + 1 <= by + 8 * S + Sweep + lost'.blocks
          OBVIOUS
        <5>1. PICK w \in Nat : w = beacon'.withdrawn
          BY <3>8, <4>3
        <5>2. clock'.tip = clock.now + 1
          BY <1>5, <4>3
        <5>3. ~(Epoch(w) < Epoch(clock.now + 1))
          BY <4>3, <5>1, <5>2 DEF Withdrawn
        <5>4. ASSUME clock.now + 1 >= w + S
              PROVE  FALSE
          <6>1. clock.now + 1 >= w + SlotsPerEpoch * 1
            BY <1>2, <5>4
          <6>2. Epoch(clock.now + 1) >= Epoch(w) + 1 /\ Epoch(w) \in Nat /\ Epoch(clock.now + 1) \in Nat
            BY <1>1, <6>1, EpochsLater, Epochs
          <6> QED
            BY <5>3, <6>2
        <5> QED
          BY <1>1, <1>2, <1>4, <1>5, <2>2, <3>8, <4>3, <5>1, <5>4
      <4> QED
        BY <4>1, <4>2, <4>3
    <3> QED
      BY <1>2, <1>5, <2>3, <2>5, <3>3, <3>7, <3>8, <3>9 DEF ExitInv
  <2> QED
    BY <1>7, <2>4, <2>5
<1> QED
  BY <1>6, <1>7

Linked == ClockInv /\ BeaconInv /\ VotesInv /\ LifeInv /\ HarnessInv /\ ExitInv

LEMMA SlotKeeps ==
  ASSUME StakingTypeOK, Linked, NEW proposed \in BOOLEAN, NEW regular \in BOOLEAN,
         NextSlot(proposed, regular)
  PROVE  StakingTypeOK' /\ Linked' /\ UNCHANGED stage
<1> USE DEF Linked
<1>1. /\ StakingTypeOK' /\ SlotStep(proposed, regular)
      /\ VotesStep(proposed) /\ LifeStep(regular) /\ ExitStep(proposed)
  BY SlotIs
<1>2. TimePasses
  BY DEF NextSlot
<1>3. ClockInv'
  BY <1>1, SlotClock
<1>4. /\ BeaconInv'
      /\ beacon.included # None => beacon'.included = beacon.included
      /\ beacon.included = None => beacon'.included \in {None, clock'.now}
  BY <1>1, SlotSeen
<1>5. VotesInv'
  BY <1>1, <1>4, SlotVotes
<1>6. LifeInv'
  BY <1>1, <1>4, SlotLife
<1>7. HarnessInv'
  BY <1>1, <1>2, <1>4, SlotHarness
<1>8. ExitInv'
  BY <1>1, <1>2, SlotExit
<1> QED
  BY <1>1, <1>3, <1>4, <1>5, <1>6, <1>7, <1>8 DEF SlotStep

-----------------------------------------------------------------------------
(***************************************************************************)
(* The other steps leave the chain alone.                                  *)
(***************************************************************************)
ChainFacts == ClockInv /\ BeaconInv /\ VotesInv

\* Time, beacon state and losses as before, and a deposit that is sent now.
LEMMA ChainStays ==
  ASSUME ChainFacts, UNCHANGED outside, sent' = sent \/ (sent = "no" /\ sent' \in {"sent", "lost"})
  PROVE  ChainFacts'
<1>1. clock' = clock /\ beacon' = beacon /\ lost' = lost
  BY DEF outside
<1>2. ClockInv'
  BY <1>1 DEF ChainFacts, ClockInv
<1>3. BeaconInv'
  BY <1>1 DEF ChainFacts, BeaconInv
<1>4. VotesInv'
  BY <1>1 DEF ChainFacts, VotesInv, LatePeriod, FewMissed, LastStart
<1> QED
  BY <1>2, <1>3, <1>4 DEF ChainFacts

\* Until the exit is submitted nothing of it is in the beacon state.
LEMMA ExitStays ==
  ASSUME ExitInv, UNCHANGED outside, stage \notin {"leaving", "withdrawn", "timeout"},
         stage' \notin {"period", "leaving"}
  PROVE  ExitInv'
  BY DEF ExitInv, outside

LEMMA EpochsOrdered ==
  ASSUME StakingTypeOK, ClockInv
  PROVE  Epoch(clock.tip) \in Nat /\ Epoch(clock.now) \in Nat /\ Epoch(clock.tip) <= Epoch(clock.now)
<1>1. clock.tip \in Nat /\ clock.now \in Nat /\ clock.now >= clock.tip
  BY DEF StakingTypeOK, ClockInv
<1>2. SlotsPerEpoch \in Nat \ {0}
  BY StakingAssumption
<1>3. clock.now >= clock.tip + SlotsPerEpoch * 0
  BY <1>1, <1>2
<1>4. Epoch(clock.now) >= Epoch(clock.tip) + 0
  BY <1>1, <1>3, EpochsLater
<1> QED
  BY <1>1, <1>4, Epochs

LEMMA EarlyStages ==
  ASSUME StakingTypeOK, Linked, stage # "exit", CallFails \/ SetUp \/ SendDeposit \/ RunDepositCLI \/ DepositLogged
  PROVE  StakingTypeOK' /\ Linked' /\ stage' \notin {"timeout", "refused", "exit"}
<1> USE DEF Linked
<1>1. clock.now \in Nat /\ lost.blocks \in Nat /\ clock.now + DepositEventTimeout \in Nat
      /\ clock.now + DepositEventTimeout # None
  BY StakingAssumption DEF StakingTypeOK
<1>2. CASE CallFails
  <2>1. /\ stage \in {"setup", "deposit", "mined", "keys", "deposited", "period"} /\ stage' = "failed"
        /\ UNCHANGED <<suite, deadline, client, sent, known, outside>>
    BY <1>2 DEF CallFails
  <2>2. ClockInv' /\ BeaconInv' /\ VotesInv'
    BY <2>1, ChainStays DEF ChainFacts
  <2>3. StakingTypeOK' /\ LifeInv'
    BY <2>1 DEF StakingTypeOK, LifeInv, Stages, Served, outside
  <2>4. HarnessInv'
    BY <2>1 DEF HarnessInv, Served
  <2>5. ExitInv'
    BY <2>1, ExitStays
  <2> QED
    BY <2>1, <2>2, <2>3, <2>4, <2>5
<1>3. CASE SetUp
  <2>1. /\ stage = "setup" /\ stage' = "deposit"
        /\ client' = IF suite = "automated" THEN "running" ELSE "off"
        /\ UNCHANGED <<suite, deadline, sent, known, outside>>
    BY <1>3 DEF SetUp
  <2>2. ClockInv' /\ BeaconInv' /\ VotesInv'
    BY <2>1, ChainStays DEF ChainFacts
  <2>3. StakingTypeOK' /\ LifeInv'
    BY <2>1 DEF StakingTypeOK, LifeInv, Stages, Served, outside
  <2>4. HarnessInv'
    BY <2>1 DEF HarnessInv, Served
  <2>5. ExitInv'
    BY <2>1, ExitStays
  <2> QED
    BY <2>1, <2>2, <2>3, <2>4, <2>5
<1>4. CASE SendDeposit
  <2>1. /\ stage = "deposit" /\ suite = "automated" /\ stage' = "mined" /\ sent' = "sent"
        /\ UNCHANGED <<suite, deadline, client, known, outside>> /\ sent = "no"
    BY <1>4 DEF SendDeposit, HarnessInv
  <2>2. ClockInv' /\ BeaconInv' /\ VotesInv'
    BY <2>1, ChainStays DEF ChainFacts
  <2>3. StakingTypeOK' /\ LifeInv'
    BY <2>1 DEF StakingTypeOK, LifeInv, Stages, Served, outside
  <2>4. HarnessInv'
    BY <2>1 DEF HarnessInv, Served
  <2>5. ExitInv'
    BY <2>1, ExitStays
  <2> QED
    BY <2>1, <2>2, <2>3, <2>4, <2>5
<1>5. CASE RunDepositCLI
  <2>1. /\ stage = "deposit" /\ suite = "operator" /\ stage' = "event" /\ sent' \in {"sent", "lost"}
        /\ deadline' = clock.now + DepositEventTimeout
        /\ UNCHANGED <<suite, client, known, outside>> /\ sent = "no" /\ client = "off"
    BY <1>5 DEF RunDepositCLI, Await, HarnessInv
  <2>2. ClockInv' /\ BeaconInv' /\ VotesInv'
    BY <2>1, ChainStays DEF ChainFacts
  <2>3. StakingTypeOK' /\ LifeInv'
    BY <1>1, <2>1 DEF StakingTypeOK, LifeInv, Stages, Served, outside
  <2>4. HarnessInv'
    BY <1>1, <2>1 DEF HarnessInv, Served, outside
  <2>5. ExitInv'
    BY <2>1, ExitStays
  <2> QED
    BY <2>1, <2>2, <2>3, <2>4, <2>5
<1>6. CASE DepositLogged
  <2>1. /\ stage \in {"mined", "event"} /\ sent = "mined" /\ stage' = "keys" /\ deadline' = None
        /\ UNCHANGED <<suite, client, sent, known, outside>>
    BY <1>6 DEF DepositLogged
  <2>2. ClockInv' /\ BeaconInv' /\ VotesInv'
    BY <2>1, ChainStays DEF ChainFacts
  <2>3. StakingTypeOK' /\ LifeInv'
    BY <2>1 DEF StakingTypeOK, LifeInv, Stages, Served, outside
  <2>4. HarnessInv'
    BY <2>1 DEF HarnessInv, Served, outside
  <2>5. ExitInv'
    BY <2>1, ExitStays
  <2> QED
    BY <2>1, <2>2, <2>3, <2>4, <2>5
<1> QED
  BY <1>2, <1>3, <1>4, <1>5, <1>6

LEMMA Limits ==
  /\ DepositWait \in Nat /\ ActivationQueueTimeout \in Nat /\ AttestationTimeout \in Nat /\ ExitTimeout \in Nat
  /\ DepositEventTimeout \in Nat /\ SlotsPerEpoch \in Nat \ {0} /\ CommitteePeriod \in Nat
  /\ Sweep \in Nat /\ UpdateDelay \in {0, 1}
  /\ DepositWait = FollowDistance + ExecutionVotingPeriod + (ExecutionVotingPeriod \div 2) + 4 * SlotsPerEpoch
<1>1. /\ ActivationQueueTimeout \in Nat /\ AttestationTimeout \in Nat /\ ExitTimeout \in Nat
      /\ DepositEventTimeout \in Nat /\ SlotsPerEpoch \in Nat \ {0} /\ CommitteePeriod \in Nat
      /\ Sweep \in Nat /\ UpdateDelay \in {0, 1}
  BY StakingAssumption
<1>2. PICK P \in Nat \ {0} : P = ExecutionVotingPeriod
  BY VotingPeriod
<1>3. (P * 3) \div 2 = P + (P \div 2) /\ (P * 3) \div 2 \in Nat
  BY <1>2
<1>4. FollowDistance \in Nat
  BY VotingPeriod
<1> QED
  BY <1>1, <1>2, <1>3, <1>4 DEF DepositWait

LEMMA HoldKeyKeeps ==
  ASSUME StakingTypeOK, Linked, HoldKey
  PROVE  StakingTypeOK' /\ Linked' /\ stage' = "deposited"
<1> USE DEF Linked
<1>1. /\ stage = "keys" /\ stage' = "deposited" /\ client' = "holding"
      /\ deadline' = clock.now + DepositWait
      /\ UNCHANGED <<suite, sent, known, outside>>
  BY DEF HoldKey, Await
<1>2. clock.now \in Nat /\ clock.now + DepositWait \in Nat
  BY Limits DEF StakingTypeOK
<1>3. ClockInv' /\ BeaconInv' /\ VotesInv'
  BY <1>1, ChainStays DEF ChainFacts
<1>4. sent = "mined" /\ clock.mined = clock.now
  BY <1>1 DEF HarnessInv
<1>5. beacon.included = None
  BY <1>4 DEF BeaconInv
<1>6. StakingTypeOK' /\ LifeInv'
  BY <1>1, <1>2, <1>5 DEF StakingTypeOK, LifeInv, Stages, Served, outside
<1>7. HarnessInv'
  BY <1>1, <1>4 DEF HarnessInv, Served, outside
<1>8. ExitInv'
  BY <1>1, ExitStays
<1> QED
  BY <1>1, <1>3, <1>6, <1>7, <1>8

LEMMA ExpectDepositedKeeps ==
  ASSUME StakingTypeOK, Linked, ExpectDeposited
  PROVE  StakingTypeOK' /\ Linked' /\ stage' = "queued"
<1> USE DEF Linked
<1>1. /\ stage = "deposited" /\ stage' = "queued" /\ beacon.included # None
      /\ Epoch(beacon.included) + UpdateDelay <= Epoch(clock.tip)
      /\ deadline' = clock.now + ActivationQueueTimeout
      /\ UNCHANGED <<suite, client, sent, known, outside>>
  BY DEF ExpectDeposited, Await, Deposited
<1>2. /\ clock.now \in Nat /\ clock.now + ActivationQueueTimeout \in Nat
      /\ clock.now + ActivationQueueTimeout # None
      /\ clock.now + ActivationQueueTimeout >= ActivationQueueTimeout
      /\ clock.now + ActivationQueueTimeout - ActivationQueueTimeout = clock.now
      /\ beacon.included \in Nat /\ UpdateDelay \in Nat
  BY <1>1, Limits, StakingAssumption DEF StakingTypeOK, Beacons
<1>3. ClockInv' /\ BeaconInv' /\ VotesInv'
  BY <1>1, ChainStays DEF ChainFacts
<1>4. StakingTypeOK'
  BY <1>1, <1>2 DEF StakingTypeOK, Stages, Served, outside
<1>5. sent = "mined" /\ client = "holding"
  BY <1>1 DEF HarnessInv
<1>6. Epoch(beacon.included) + UpdateDelay <= Epoch(clock.now)
  BY <1>1, <1>2, EpochsOrdered, Epochs
<1>7. LifeInv'
  BY <1>1 DEF LifeInv, outside, Served
<1>8. beacon' = beacon /\ clock' = clock /\ deadline' - ActivationQueueTimeout = clock.now
  BY <1>1, <1>2, Limits DEF outside
<1>9. /\ deadline' # None /\ deadline' >= ActivationQueueTimeout
      /\ Epoch(deadline' - ActivationQueueTimeout) >= Epoch(beacon'.included) + UpdateDelay
  BY <1>1, <1>2, <1>6, <1>8, EpochsOrdered, Epochs
<1>10. HarnessInv'
  BY <1>1, <1>5, <1>8, <1>9 DEF HarnessInv, Served
<1>11. ExitInv'
  BY <1>1, ExitStays
<1> QED
  BY <1>1, <1>3, <1>4, <1>7, <1>10, <1>11

LEMMA ExpectActiveKeeps ==
  ASSUME StakingTypeOK, Linked, ExpectActive
  PROVE  StakingTypeOK' /\ Linked' /\ stage' = "attesting"
<1> USE DEF Linked
<1>1. /\ stage = "queued" /\ stage' = "attesting" /\ known' = beacon.activation
      /\ beacon.activation # None /\ beacon.activation <= Epoch(clock.tip)
      /\ deadline' = clock.now + AttestationTimeout
      /\ UNCHANGED <<suite, client, sent, outside>>
  BY DEF ExpectActive, Await, Active
<1>2. /\ clock.now \in Nat /\ clock.now + AttestationTimeout \in Nat /\ beacon.activation \in Nat
      /\ clock.now + AttestationTimeout # None
      /\ clock.now + AttestationTimeout >= AttestationTimeout
      /\ clock.now + AttestationTimeout - AttestationTimeout = clock.now
  BY <1>1, Limits, StakingAssumption DEF StakingTypeOK, Beacons
<1>3. ClockInv' /\ BeaconInv' /\ VotesInv'
  BY <1>1, ChainStays DEF ChainFacts
<1>4. StakingTypeOK' /\ LifeInv'
  BY <1>1, <1>2 DEF StakingTypeOK, LifeInv, Stages, Served, outside
<1>5. sent = "mined" /\ client = "holding" /\ beacon.included # None
  BY <1>1 DEF HarnessInv, Served
<1>6. Epoch(clock.now) >= beacon.activation
  BY <1>1, <1>2, EpochsOrdered
<1>7. beacon' = beacon /\ clock' = clock /\ deadline' - AttestationTimeout = clock.now
  <2>1. beacon' = beacon /\ clock' = clock
    BY <1>1 DEF outside
  <2>2. deadline' - AttestationTimeout = clock.now
    BY <1>1, <1>2, Limits
  <2> QED
    BY <2>1, <2>2
<1>8. deadline' # None /\ deadline' >= AttestationTimeout
      /\ Epoch(deadline' - AttestationTimeout) >= beacon'.activation
  BY <1>1, <1>2, <1>6, <1>7
<1>9. HarnessInv'
  BY <1>1, <1>5, <1>7, <1>8 DEF HarnessInv, Served
<1>10. ExitInv'
  BY <1>1, ExitStays
<1> QED
  BY <1>1, <1>3, <1>4, <1>9, <1>10

LEMMA ExpectAttestingKeeps ==
  ASSUME StakingTypeOK, Linked, ExpectAttesting
  PROVE  StakingTypeOK' /\ Linked' /\ stage' = "period"
<1> USE DEF Linked
<1>1. /\ stage = "attesting" /\ stage' = "period"
      /\ beacon.rewarded # None /\ beacon.rewarded + 2 <= Epoch(clock.tip)
      /\ deadline' = clock.now + ExitTimeout
      /\ UNCHANGED <<suite, client, sent, known, outside>>
  BY DEF ExpectAttesting, Await, Rewarded
<1>2. /\ clock.now \in Nat /\ clock.now + ExitTimeout \in Nat /\ beacon.rewarded \in Nat
      /\ clock.now + ExitTimeout # None
      /\ clock.now + ExitTimeout >= ExitTimeout
      /\ clock.now + ExitTimeout - ExitTimeout = clock.now
  BY <1>1, Limits, StakingAssumption DEF StakingTypeOK, Beacons
<1>3. ClockInv' /\ BeaconInv' /\ VotesInv'
  BY <1>1, ChainStays DEF ChainFacts
<1>4. StakingTypeOK' /\ LifeInv'
  BY <1>1, <1>2 DEF StakingTypeOK, LifeInv, Stages, Served, outside
<1>5. /\ sent = "mined" /\ client = "holding" /\ beacon.included # None
      /\ beacon.activation # None /\ known = beacon.activation /\ beacon.activation \in Nat
  BY <1>1 DEF HarnessInv, Served, StakingTypeOK, Beacons
<1>6. beacon.activation <= beacon.rewarded
  BY <1>1, <1>5 DEF LifeInv, Served
<1>7. Epoch(clock.now) >= beacon.activation + 2
  BY <1>1, <1>2, <1>5, <1>6, EpochsOrdered
<1>8. beacon' = beacon /\ clock' = clock /\ deadline' - ExitTimeout = clock.now
  <2>1. beacon' = beacon /\ clock' = clock
    BY <1>1 DEF outside
  <2>2. deadline' - ExitTimeout = clock.now
    BY <1>1, <1>2, Limits
  <2> QED
    BY <2>1, <2>2
<1>9. deadline' # None /\ deadline' >= ExitTimeout
      /\ Epoch(deadline' - ExitTimeout) >= beacon'.activation + 2
  BY <1>1, <1>2, <1>7, <1>8
<1>10. HarnessInv'
  BY <1>1, <1>5, <1>8, <1>9 DEF HarnessInv, Served
<1>11. ExitInv'
  <2>1. SlotsPerEpoch * Remaining \in Nat
    <3>1. PICK S \in Nat : S = SlotsPerEpoch
      BY Limits
    <3>2. PICK k \in Nat : k = Remaining
      BY Limits DEF Remaining
    <3> QED
      BY <3>1, <3>2
  <2>2. clock.now <= ServedBy' + lost.blocks
    BY <1>2, <1>8, <2>1 DEF ServedBy, StakingTypeOK
  <2>3. beacon.exited = None /\ beacon.withdrawn = None
    BY <1>1 DEF ExitInv
  <2> QED
    BY <1>1, <2>2, <2>3 DEF ExitInv, outside
<1> QED
  BY <1>1, <1>3, <1>4, <1>10, <1>11

\* The exit is taken: the period is over for the activation epoch on record.
LEMMA SubmitExitKeeps ==
  ASSUME StakingTypeOK, Linked, SubmitExit
  PROVE  StakingTypeOK' /\ Linked' /\ stage' = "leaving"
<1> USE DEF Linked
<1>1. stage = "period" /\ Epoch(clock.tip) >= known + CommitteePeriod
  BY DEF SubmitExit, PeriodOver
<1>2. client = "holding" /\ known = beacon.activation
  BY <1>1 DEF HarnessInv, Served
<1>3. ExitAccepted
  BY <1>1, <1>2 DEF ExitAccepted
<1>4. stage' = "leaving" /\ UNCHANGED <<suite, deadline, client, sent, known, outside>>
  BY <1>3 DEF SubmitExit
<1>5. ClockInv' /\ BeaconInv' /\ VotesInv'
  BY <1>4, ChainStays DEF ChainFacts
<1>6. StakingTypeOK' /\ LifeInv'
  BY <1>1, <1>4 DEF StakingTypeOK, LifeInv, Stages, Served, outside
<1>7. HarnessInv'
  BY <1>1, <1>4 DEF HarnessInv, Served, outside
<1>8. ExitInv'
  <2>1. PICK by : by = ServedBy /\ by = ServedBy'
    BY <1>4 DEF ServedBy
  <2>2. /\ beacon.exited = None /\ beacon.withdrawn = None
        /\ clock.now <= by + lost.blocks
    BY <1>1, <2>1 DEF ExitInv
  <2>3. by \in Int /\ clock.now \in Nat /\ lost.blocks \in Nat /\ SlotsPerEpoch \in Nat /\ Sweep \in Nat
    <3>1. PICK S \in Nat : S = SlotsPerEpoch
      BY Limits
    <3>2. PICK k \in Nat : k = Remaining
      BY Limits DEF Remaining
    <3>3. deadline \in Nat /\ ExitTimeout \in Nat
      BY <1>1, Limits DEF HarnessInv, Served, StakingTypeOK
    <3> QED
      BY <2>1, <3>1, <3>2, <3>3, Limits DEF ServedBy, StakingTypeOK
  <2>4. /\ clock.now <= by + 7 * SlotsPerEpoch + Sweep + lost.blocks
        /\ clock.now <= by + 8 * SlotsPerEpoch + Sweep + lost.blocks
    BY <2>2, <2>3
  <2>5. beacon' = beacon /\ clock' = clock /\ lost' = lost
    BY <1>4 DEF outside
  <2> QED
    BY <1>4, <2>1, <2>2, <2>4, <2>5 DEF ExitInv
<1> QED
  BY <1>4, <1>5, <1>6, <1>7, <1>8

\* The scanner takes over, or the stake is there.
LEMMA LeavingEnds ==
  ASSUME StakingTypeOK, Linked, ScanExit \/ ExpectWithdrawn
  PROVE  StakingTypeOK' /\ stage' \in {"exit", "withdrawn"} /\ (stage' = "withdrawn" => Linked')
<1> USE DEF Linked
<1>1. CASE ScanExit
  <2>1. /\ stage' = "exit" /\ deadline' = None /\ known' = None
        /\ clock' = [now |-> 0, tip |-> 0, mined |-> None]
        /\ beacon' = NoDeposit /\ lost' = [blocks |-> 0, epochs |-> 0]
        /\ UNCHANGED <<suite, client, sent>>
    BY <1>1 DEF ScanExit
  <2> QED
    BY <2>1 DEF StakingTypeOK, Stages, NoDeposit, Beacons
<1>2. CASE ExpectWithdrawn
  <2>1. /\ stage = "leaving" /\ stage' = "withdrawn" /\ deadline' = None
        /\ UNCHANGED <<suite, client, sent, known, outside>>
    BY <1>2 DEF ExpectWithdrawn
  <2>2. ClockInv' /\ BeaconInv' /\ VotesInv'
    BY <2>1, ChainStays DEF ChainFacts
  <2>3. StakingTypeOK' /\ LifeInv' /\ ExitInv'
    BY <2>1 DEF StakingTypeOK, LifeInv, ExitInv, Stages, Served, outside
  <2>4. HarnessInv'
    BY <2>1 DEF HarnessInv, Served
  <2> QED
    BY <2>1, <2>2, <2>3, <2>4
<1> QED
  BY <1>1, <1>2

-----------------------------------------------------------------------------
(***************************************************************************)
(* On a healthy chain no deadline is reached: each wait began late enough  *)
(* that the chain has had the time for what is awaited.                    *)
(***************************************************************************)
LEMMA EpochsBehind ==
  ASSUME NEW s \in Nat, NEW t \in Nat, NEW j \in Nat, NEW k \in Nat,
         t + SlotsPerEpoch * j >= s + SlotsPerEpoch * k
  PROVE  Epoch(t) + j >= Epoch(s) + k
<1>1. PICK S \in Nat \ {0} : S = SlotsPerEpoch
  BY StakingAssumption
<1>2. PICK r \in Nat : r < S /\ t = S * Epoch(t) + r /\ Epoch(t) \in Nat
  BY <1>1, Division DEF Epoch
<1>3. PICK q \in Nat : q < S /\ s = S * Epoch(s) + q /\ Epoch(s) \in Nat
  BY <1>1, Division DEF Epoch
<1>4. ASSUME NEW a \in Nat, NEW b \in Nat, S * a + r >= S * b + q, a < b
      PROVE  FALSE
  <2>1. PICK d \in Nat \ {0} : b = a + d
    BY <1>4
  <2>2. S * b = S * a + S * d /\ S * d >= S
    BY <1>1, <1>4, <2>1
  <2> QED
    BY <1>1, <1>2, <1>3, <1>4, <2>2
<1>5. S * (Epoch(t) + j) = S * Epoch(t) + S * j /\ S * (Epoch(s) + k) = S * Epoch(s) + S * k
  BY <1>1, <1>2, <1>3
<1>6. Epoch(t) + j \in Nat /\ Epoch(s) + k \in Nat
  BY <1>2, <1>3
<1>7. S * (Epoch(t) + j) + r >= S * (Epoch(s) + k) + q
  BY <1>1, <1>2, <1>3, <1>5
<1> QED
  <2>1. PICK a \in Nat : a = Epoch(t) + j
    BY <1>6
  <2>2. PICK b \in Nat : b = Epoch(s) + k
    BY <1>6
  <2>3. S * a + r >= S * b + q
    BY <1>7, <2>1, <2>2
  <2>4. ~(a < b)
    BY <1>4, <2>3
  <2> QED
    BY <2>1, <2>2, <2>4

\* What a healthy chain lost.
LEMMA HealthyLosses ==
  ASSUME StakingTypeOK, ClockInv, Healthy
  PROVE  /\ clock.now \in Nat /\ clock.tip \in Nat /\ lost.blocks \in Nat /\ lost.epochs \in Nat
         /\ FewMissed /\ lost.blocks <= SlotsPerEpoch /\ lost.epochs <= 3
         /\ clock.now <= clock.tip + SlotsPerEpoch
<1>1. clock.now \in Nat /\ clock.tip \in Nat /\ lost.blocks \in Nat /\ lost.epochs \in Nat
  BY DEF StakingTypeOK
<1>2. SlotsPerEpoch \in Nat
  BY Limits
<1> QED
  BY <1>1, <1>2 DEF Healthy, FewMissed, ClockInv

LEMMA InclusionInTime ==
  ASSUME StakingTypeOK, Linked, Healthy, stage = "deposited", ~Deposited
  PROVE  clock.now < deadline
<1> USE DEF Linked
<1>1. deadline = clock.mined + DepositWait /\ sent = "mined"
  BY DEF HarnessInv
<1>2. clock.mined # None /\ clock.mined \in Nat /\ beacon.votes \in Nat /\ beacon.adopted \in BOOLEAN
  BY <1>1 DEF ClockInv, StakingTypeOK, Beacons
<1>3. PICK P \in Nat \ {0} : P = ExecutionVotingPeriod
  BY VotingPeriod
<1>4. PICK half \in Nat : half = P \div 2 /\ P <= 2 * half + 1 /\ 2 * half <= P
  BY <1>3
<1>5. /\ FollowDistance \in Nat /\ SlotsPerEpoch \in Nat \ {0}
      /\ DepositWait = FollowDistance + P + half + 4 * SlotsPerEpoch
  BY <1>3, <1>4, Limits, VotingPeriod
<1>6. /\ clock.now \in Nat /\ lost.blocks \in Nat /\ FewMissed /\ lost.blocks <= SlotsPerEpoch
  BY HealthyLosses
<1>7. CASE beacon.included = None /\ beacon.adopted
  <2>1. clock.now <= LastStart + half + lost.blocks
    BY <1>1, <1>2, <1>3, <1>4, <1>6, <1>7 DEF VotesInv
  <2> QED
    BY <1>1, <1>2, <1>3, <1>5, <1>6, <2>1 DEF LastStart
<1>8. CASE beacon.included = None /\ ~beacon.adopted
  <2>1. PICK first \in Nat : first = PeriodStart(clock.now) /\ clock.now < first + P
    BY <1>3, <1>6, Periods
  <2>2. CASE first > clock.mined /\ first >= clock.mined + FollowDistance
    <3>1. first <= LastStart /\ beacon.votes + lost.blocks >= clock.now - first + 1
      BY <1>2, <1>6, <1>8, <2>1, <2>2 DEF VotesInv, LatePeriod
    <3>2. beacon.votes <= half
      BY <1>2, <1>3, <1>4, <1>8 DEF VotesInv
    <3> QED
      BY <1>1, <1>2, <1>3, <1>4, <1>5, <1>6, <2>1, <3>1, <3>2 DEF LastStart
  <2>3. CASE ~(first > clock.mined /\ first >= clock.mined + FollowDistance)
    BY <1>1, <1>2, <1>3, <1>5, <1>6, <2>1, <2>3
  <2> QED
    BY <2>2, <2>3
<1>9. CASE beacon.included # None
  <2>1. PICK i \in Nat : i = beacon.included /\ i <= LastStart + half + lost.blocks + 1
    BY <1>2, <1>3, <1>4, <1>6, <1>9 DEF VotesInv, StakingTypeOK, Beacons
  <2>2. clock.tip \in Nat /\ clock.now <= clock.tip + SlotsPerEpoch
    BY HealthyLosses
  <2>3. clock.tip < i + SlotsPerEpoch
    <3>1. Epoch(i) \in Nat /\ Epoch(clock.tip) \in Nat /\ UpdateDelay \in {0, 1}
      BY <2>2, Epochs, Limits
    <3>2. Epoch(clock.tip) < Epoch(i) + 1
      BY <1>9, <2>1, <3>1 DEF Deposited
    <3>3. ASSUME clock.tip >= i + SlotsPerEpoch
          PROVE  FALSE
      <4>1. clock.tip >= i + SlotsPerEpoch * 1
        BY <1>5, <3>3
      <4> QED
        BY <2>1, <2>2, <3>1, <3>2, <4>1, EpochsLater
    <3> QED
      BY <1>5, <2>1, <2>2, <3>3
  <2> QED
    BY <1>1, <1>2, <1>3, <1>4, <1>5, <1>6, <2>1, <2>2, <2>3 DEF LastStart
<1> QED
  BY <1>2, <1>7, <1>8, <1>9

LEMMA ActivationInTime ==
  ASSUME StakingTypeOK, Linked, Healthy, stage = "queued", ~Active
  PROVE  clock.now < deadline
<1> USE DEF Linked
<1>1. /\ deadline \in Nat /\ deadline >= ActivationQueueTimeout
      /\ Epoch(deadline - ActivationQueueTimeout) >= Epoch(beacon.included) + UpdateDelay
      /\ beacon.included \in Nat /\ beacon.included # None /\ beacon.activation \in Nat \cup {None}
  BY StakingAssumption DEF HarnessInv, Served, StakingTypeOK, Beacons
<1>2. PICK S \in Nat \ {0} : S = SlotsPerEpoch
  BY Limits
<1>3. /\ clock.now \in Nat /\ clock.tip \in Nat /\ lost.epochs \in Nat
      /\ lost.epochs <= 3 /\ clock.now <= clock.tip + S
  BY <1>2, HealthyLosses
<1>4. ActivationQueueTimeout \in Nat /\ ActivationQueueTimeout >= 11 * S
  BY <1>2, Limits, TimeoutsAssumption
<1>5. PICK s \in Nat : s = deadline - ActivationQueueTimeout
  BY <1>1, <1>4
<1>6. PICK i \in Nat : /\ i = Epoch(beacon.included) + UpdateDelay
                        /\ Epoch(beacon.included) \in Nat /\ UpdateDelay \in Nat
  <2>1. Epoch(beacon.included) \in Nat /\ UpdateDelay \in Nat
    BY <1>1, Epochs, Limits
  <2> QED
    BY <2>1
<1>7. ASSUME clock.now >= deadline
      PROVE  FALSE
  <2>1. /\ clock.now >= s + SlotsPerEpoch * 11
        /\ clock.tip >= s + SlotsPerEpoch * 10
    BY <1>1, <1>2, <1>3, <1>4, <1>5, <1>7
  <2>2. /\ Epoch(s) \in Nat /\ Epoch(clock.now) \in Nat /\ Epoch(clock.tip) \in Nat
        /\ Epoch(clock.now) >= Epoch(s) + 11 /\ Epoch(clock.tip) >= Epoch(s) + 10
    BY <1>3, <2>1, Epochs, EpochsLater
  <2>3. Epoch(s) >= i
    BY <1>1, <1>5, <1>6
  <2>4. CASE beacon.activation = None
    <3>1. Epoch(clock.now) <= i + 2 + lost.epochs
      BY <1>1, <1>3, <1>6, <2>4 DEF LifeInv, Served
    <3> QED
      BY <1>3, <2>2, <2>3, <3>1
  <2>5. CASE beacon.activation # None
    <3>1. beacon.activation <= i + 7 + lost.epochs
      BY <1>1, <1>3, <1>6, <2>5 DEF LifeInv, Served
    <3>2. beacon.activation > Epoch(clock.tip)
      BY <1>1, <2>2, <2>5 DEF Active
    <3> QED
      BY <1>1, <1>3, <2>2, <2>3, <2>5, <3>1, <3>2
  <2> QED
    BY <2>4, <2>5
<1> QED
  BY <1>1, <1>3, <1>7

LEMMA AttestationInTime ==
  ASSUME StakingTypeOK, Linked, Healthy, stage = "attesting", ~Rewarded
  PROVE  clock.now < deadline
<1> USE DEF Linked
<1>1. /\ deadline \in Nat /\ deadline >= AttestationTimeout
      /\ Epoch(deadline - AttestationTimeout) >= beacon.activation
      /\ beacon.activation \in Nat /\ beacon.activation # None /\ beacon.rewarded \in Nat \cup {None}
      /\ beacon.included # None
  BY DEF HarnessInv, Served, StakingTypeOK, Beacons
<1>2. PICK S \in Nat \ {0} : S = SlotsPerEpoch
  BY Limits
<1>3. /\ clock.now \in Nat /\ clock.tip \in Nat /\ lost.epochs \in Nat
      /\ lost.epochs <= 3 /\ clock.now <= clock.tip + S
  BY <1>2, HealthyLosses
<1>4. AttestationTimeout \in Nat /\ AttestationTimeout >= 6 * S
  BY <1>2, Limits, TimeoutsAssumption
<1>5. PICK s \in Nat : s = deadline - AttestationTimeout
  BY <1>1, <1>4
<1>6. ASSUME clock.now >= deadline
      PROVE  FALSE
  <2>1. clock.now >= s + SlotsPerEpoch * 6 /\ clock.tip >= s + SlotsPerEpoch * 5
    BY <1>1, <1>2, <1>3, <1>4, <1>5, <1>6
  <2>2. /\ Epoch(s) \in Nat /\ Epoch(clock.now) \in Nat /\ Epoch(clock.tip) \in Nat
        /\ Epoch(clock.now) >= Epoch(s) + 6 /\ Epoch(clock.tip) >= Epoch(s) + 5
    BY <1>3, <2>1, Epochs, EpochsLater
  <2>3. Epoch(s) >= beacon.activation
    BY <1>1, <1>5
  <2>4. CASE beacon.rewarded = None
    <3>1. Epoch(clock.now) <= beacon.activation + lost.epochs
      BY <1>1, <2>4 DEF LifeInv, Served
    <3> QED
      BY <1>1, <1>3, <2>2, <2>3, <3>1
  <2>5. CASE beacon.rewarded # None
    <3>1. beacon.rewarded <= beacon.activation + lost.epochs /\ beacon.rewarded \in Nat
      BY <1>1, <2>5 DEF LifeInv, Served
    <3>2. beacon.rewarded + 2 > Epoch(clock.tip)
      BY <2>2, <2>5, <3>1 DEF Rewarded
    <3> QED
      BY <1>1, <1>3, <2>2, <2>3, <3>1, <3>2
  <2> QED
    BY <2>4, <2>5
<1> QED
  BY <1>1, <1>3, <1>6

LEMMA ExitInTime ==
  ASSUME StakingTypeOK, Linked, Healthy,
         (stage = "period" /\ ~PeriodOver) \/ (stage = "leaving" /\ ~Withdrawn)
  PROVE  clock.now < deadline
<1> USE DEF Linked
<1>1. /\ deadline \in Nat /\ deadline >= ExitTimeout
  BY DEF HarnessInv, Served, StakingTypeOK
<1>2. PICK S \in Nat \ {0} : S = SlotsPerEpoch
  BY Limits
<1>3. clock.now \in Nat /\ lost.blocks \in Nat /\ lost.blocks <= S
  BY <1>2, HealthyLosses
<1>4. ExitTimeout \in Nat /\ CommitteePeriod \in Nat /\ Sweep \in Nat
  BY Limits
<1>5. PICK s \in Nat : s = deadline - ExitTimeout
  BY <1>1, <1>4
<1>6. PICK k \in Nat : k = Remaining
  BY <1>4 DEF Remaining
<1>7. PICK rest \in Nat : rest = S * k
  BY <1>2, <1>6
<1>8. ServedBy = s + rest
  BY <1>2, <1>5, <1>6, <1>7 DEF ServedBy
<1>9. ExitTimeout > rest + 9 * S + Sweep
  <2>1. CASE CommitteePeriod > 2
    <3>1. CommitteePeriod = k + 2
      BY <1>4, <1>6, <2>1 DEF Remaining
    <3>2. (CommitteePeriod + 7) * S = S * k + 9 * S
      BY <1>2, <3>1
    <3> QED
      BY <1>2, <1>7, <3>2, TimeoutsAssumption
  <2>2. CASE ~(CommitteePeriod > 2)
    <3>1. rest = 0
      BY <1>2, <1>6, <1>7, <2>2 DEF Remaining
    <3> QED
      BY <1>2, <3>1, TimeoutsAssumption
  <2> QED
    BY <2>1, <2>2
<1>10. clock.now <= s + rest + 8 * S + Sweep + lost.blocks
  <2>1. CASE stage = "period"
    <3>1. clock.now <= s + rest + lost.blocks
      BY <1>8, <2>1 DEF ExitInv
    <3> QED
      BY <1>2, <1>3, <1>4, <3>1
  <2>2. CASE stage = "leaving" /\ ~Withdrawn
    BY <1>2, <1>8, <2>2 DEF ExitInv
  <2> QED
    BY <2>1, <2>2
<1> QED
  BY <1>1, <1>2, <1>3, <1>4, <1>5, <1>9, <1>10

\* The event is awaited from the transaction on, and gone only if that is.
LEMMA EventInTime ==
  ASSUME StakingTypeOK, Linked, Healthy, stage = "event", sent = "sent"
  PROVE  clock.now < deadline
<1> USE DEF Linked
<1>1. deadline \in Nat /\ clock.now + DepositEventTimeout <= deadline + lost.blocks
  BY DEF HarnessInv, StakingTypeOK
<1>2. clock.now \in Nat /\ lost.blocks \in Nat /\ lost.blocks <= SlotsPerEpoch
  BY HealthyLosses
<1>3. /\ DepositEventTimeout \in Nat /\ SlotsPerEpoch \in Nat
      /\ DepositEventTimeout > SlotsPerEpoch
  BY Limits, TimeoutsAssumption
<1> QED
  BY <1>1, <1>2, <1>3

LEMMA ExpiryIsEarned ==
  ASSUME StakingTypeOK, Linked, stage # "exit", WaitExpires
  PROVE  StakingTypeOK' /\ Linked' /\ WaitsSuffice' /\ stage' = "timeout"
<1> USE DEF Linked
<1>1. /\ stage \in Waiting /\ deadline # None /\ clock.now >= deadline /\ ~Awaited
      /\ stage' = "timeout" /\ UNCHANGED <<suite, deadline, client, sent, known, outside>>
  BY DEF WaitExpires
<1>2. ClockInv' /\ BeaconInv' /\ VotesInv'
  BY <1>1, ChainStays DEF ChainFacts
<1>3. StakingTypeOK' /\ LifeInv'
  BY <1>1 DEF StakingTypeOK, LifeInv, Stages, Served, outside
<1>4. HarnessInv'
  BY <1>1 DEF HarnessInv, Served
<1>5. ASSUME Healthy
      PROVE  sent = "lost" /\ client = "off"
  <2>1. deadline \in Nat /\ clock.now \in Nat /\ ~(clock.now < deadline)
    BY <1>1 DEF StakingTypeOK
  <2>2. stage # "mined"
    BY <1>1 DEF HarnessInv
  <2>3. stage # "deposited"
    BY <1>1, <1>5, <2>1, InclusionInTime DEF Awaited
  <2>4. stage # "queued"
    BY <1>1, <1>5, <2>1, ActivationInTime DEF Awaited
  <2>5. stage # "attesting"
    BY <1>1, <1>5, <2>1, AttestationInTime DEF Awaited
  <2>6. stage # "period" /\ stage # "leaving"
    BY <1>1, <1>5, <2>1, ExitInTime DEF Awaited
  <2>7. stage = "event"
    BY <1>1, <2>2, <2>3, <2>4, <2>5, <2>6 DEF Waiting
  <2>8. sent # "mined" /\ sent # "no"
    BY <1>1, <2>7 DEF Awaited, HarnessInv
  <2>9. sent # "sent"
    BY <1>5, <2>1, <2>7, EventInTime
  <2>10. sent = "lost"
    BY <2>8, <2>9 DEF StakingTypeOK
  <2> QED
    BY <2>10 DEF HarnessInv
<1>6. WaitsSuffice'
  BY <1>1, <1>5 DEF WaitsSuffice, Healthy, outside
<1>7. ExitInv'
  BY <1>1 DEF ExitInv
<1> QED
  BY <1>1, <1>2, <1>3, <1>4, <1>6, <1>7

-----------------------------------------------------------------------------
(***************************************************************************)
(* The theorems.                                                           *)
(***************************************************************************)
LEMMA StakingInitInv == StakingInit => StakingInv
<1> SUFFICES ASSUME StakingInit
             PROVE  StakingInv
  OBVIOUS
<1>1. /\ suite \in {"automated", "operator"} /\ stage = "setup" /\ deadline = None
      /\ client = "off" /\ sent = "no" /\ known = None
      /\ clock = [now |-> 0, tip |-> 0, mined |-> None]
      /\ beacon = [votes |-> 0, adopted |-> FALSE, included |-> None,
                   finalized |-> 0, activation |-> None, rewarded |-> None,
                   exited |-> None, withdrawn |-> None]
      /\ lost = [blocks |-> 0, epochs |-> 0]
  BY DEF StakingInit, NoDeposit
<1>2. StakingTypeOK
  BY <1>1 DEF StakingTypeOK, Stages, Beacons
<1>3. ClockInv /\ BeaconInv
  BY <1>1 DEF ClockInv, BeaconInv
<1>4. VotesInv
  BY <1>1, VotingPeriod DEF VotesInv
<1>5. LifeInv /\ HarnessInv /\ ExitInv /\ WaitsSuffice
  BY <1>1 DEF LifeInv, HarnessInv, ExitInv, Served, WaitsSuffice
<1> QED
  BY <1>1, <1>2, <1>3, <1>4, <1>5 DEF StakingInv

LEMMA OnboardKeeps ==
  ASSUME StakingInv, stage # "exit", Onboard
  PROVE  StakingInv'
<1>1. StakingTypeOK /\ Linked /\ WaitsSuffice /\ stage # "refused"
  BY DEF StakingInv, Linked
<1>2. CASE \E proposed, regular \in BOOLEAN : NextSlot(proposed, regular)
  <2>1. StakingTypeOK' /\ Linked' /\ stage' = stage
    BY <1>1, <1>2, SlotKeeps
  <2>2. stage \notin {"timeout", "refused"}
    BY <1>2 DEF NextSlot, TimePasses, Waiting
  <2> QED
    BY <2>1, <2>2 DEF StakingInv, Linked, WaitsSuffice
<1>3. CASE CallFails \/ SetUp \/ SendDeposit \/ RunDepositCLI \/ DepositLogged
  <2>1. StakingTypeOK' /\ Linked' /\ stage' \notin {"timeout", "refused", "exit"}
    BY <1>1, <1>3, EarlyStages
  <2> QED
    BY <2>1 DEF StakingInv, Linked, WaitsSuffice
<1>4. CASE HoldKey \/ ExpectDeposited \/ ExpectActive \/ ExpectAttesting
  <2>1. StakingTypeOK' /\ Linked' /\ stage' \notin {"timeout", "refused"}
    BY <1>1, <1>4, HoldKeyKeeps, ExpectDepositedKeeps, ExpectActiveKeeps, ExpectAttestingKeeps
  <2> QED
    BY <2>1 DEF StakingInv, Linked, WaitsSuffice
<1>5. CASE SubmitExit \/ ScanExit \/ ExpectWithdrawn
  <2>1. /\ StakingTypeOK' /\ stage' \in {"leaving", "exit", "withdrawn"}
        /\ stage' # "exit" => Linked'
    BY <1>1, <1>5, SubmitExitKeeps, LeavingEnds
  <2> QED
    BY <2>1 DEF StakingInv, Linked, WaitsSuffice
<1>6. CASE WaitExpires
  <2>1. StakingTypeOK' /\ Linked' /\ WaitsSuffice' /\ stage' = "timeout"
    BY <1>1, <1>6, ExpiryIsEarned
  <2> QED
    BY <2>1 DEF StakingInv, Linked
<1> QED
  BY <1>2, <1>3, <1>4, <1>5, <1>6 DEF Onboard

LEMMA StakingStays ==
  ASSUME StakingInv, UNCHANGED staking
  PROVE  StakingInv'
<1>1. /\ UNCHANGED <<suite, stage, deadline, client, sent, known>>
      /\ UNCHANGED <<clock, beacon, lost>>
  BY DEF staking, harness, outside
<1>2. StakingTypeOK' /\ WaitsSuffice' /\ stage' # "refused"
  BY <1>1 DEF StakingInv, StakingTypeOK, WaitsSuffice, Healthy
<1>3. stage' # "exit" => ClockInv' /\ BeaconInv'
  BY <1>1 DEF StakingInv, ClockInv, BeaconInv
<1>4. stage' # "exit" => VotesInv'
  BY <1>1 DEF StakingInv, VotesInv, LatePeriod, FewMissed, LastStart
<1>5. stage' # "exit" => LifeInv' /\ HarnessInv' /\ ExitInv'
  BY <1>1 DEF StakingInv, LifeInv, HarnessInv, ExitInv, ServedBy, Withdrawn
<1> QED
  BY <1>2, <1>3, <1>4, <1>5 DEF StakingInv

(***************************************************************************)
(* On a healthy chain no wait of a staking suite gives up, the one for the *)
(* withdrawal included, and no exit is refused, in whatever slot the       *)
(* deposit is made: for epochs and voting periods of any length, a follow  *)
(* distance of at most half a voting period, timeouts that are as long in  *)
(* epochs as those of staking.go, and any committee period and sweep for   *)
(* which ExitTimeout leaves room.                                          *)
(***************************************************************************)
THEOREM WaitsAreLongEnough == StakingSpec => []WaitsSuffice
<1>1. StakingInit => StakingInv
  BY StakingInitInv
<1>2. StakingInv /\ [StakingNext]_<<vars, staking>> => StakingInv'
  <2> SUFFICES ASSUME StakingInv, [StakingNext]_<<vars, staking>>
               PROVE  StakingInv'
    OBVIOUS
  <2>1. CASE stage # "exit" /\ Onboard
    BY <2>1, OnboardKeeps
  <2>2. CASE UNCHANGED staking
    BY <2>2, StakingStays
  <2> QED
    BY <2>1, <2>2 DEF StakingNext
<1>3. StakingInv => WaitsSuffice
  BY DEF StakingInv
<1> QED
  BY <1>1, <1>2, <1>3, PTL DEF StakingSpec

-----------------------------------------------------------------------------
(***************************************************************************)
(* The scan of an exit and a withdrawal.                                   *)
(***************************************************************************)
USE DEF walk, found, vars

(***************************************************************************)
(* Every variable keeps its type.                                          *)
(***************************************************************************)
LEMMA TypeInit == Init => TypeOK
<1> SUFFICES ASSUME Init PROVE TypeOK
  OBVIOUS
<1>1. 0 .. 0 = {0}
  OBVIOUS
<1>2. Genesis \in SlotData
  BY DEF Genesis, SlotData
<1>3. chain \in [0 .. head -> SlotData]
  BY <1>1, <1>2 DEF Init
<1> QED
  BY <1>3 DEF Init, TypeOK, Steps

\* A longer chain has the type of a chain.
LEMMA GrownType ==
  ASSUME head \in Nat, chain \in [0 .. head -> SlotData],
         NEW h \in Nat, h > head, NEW exit \in BOOLEAN, NEW amount \in Nat
  PROVE  Grown(h, exit, amount) \in [0 .. h -> SlotData]
<1>1. chain[head] \in SlotData
  OBVIOUS
<1>2. [chain[head] EXCEPT !.block = FALSE, !.exit = FALSE, !.amount = 0] \in SlotData
  BY <1>1 DEF SlotData
<1>3. [block |-> TRUE, exit |-> exit, amount |-> amount, number |-> chain[head].number + 1,
       balance |-> chain[head].balance + amount] \in SlotData
  BY <1>1 DEF SlotData
<1> QED
  BY <1>2, <1>3 DEF Grown

\* Every step of the scan and of the chain keeps the types.
LEMMA TypeStep == TypeOK /\ [Next]_vars => TypeOK'
<1> SUFFICES ASSUME TypeOK, [Next]_vars PROVE TypeOK'
  OBVIOUS
<1> USE ScannerAssumption DEF TypeOK, Steps
<1>1. CASE Extend
  <2>1. PICK h \in (head + 1) .. MaxSlot, exit \in BOOLEAN, amount \in Amounts :
          chain' = Grown(h, exit, amount) /\ head' = h
    BY <1>1 DEF Extend
  <2>2. chain' \in [0 .. head' -> SlotData]
    BY <2>1, GrownType
  <2> QED
    BY <1>1, <2>1, <2>2 DEF Extend
<1>2. CASE Baseline
  <2>1. chain[head] \in SlotData
    OBVIOUS
  <2> QED
    BY <1>2, <2>1 DEF Baseline, SlotData
<1>3. CASE ReadHead \/ EmptySlot \/ FailedRead
  <2>1. CASE ReadHead
    BY <2>1 DEF ReadHead
  <2>2. CASE EmptySlot
    BY <2>2 DEF EmptySlot
  <2>3. CASE FailedRead
    BY <2>3 DEF FailedRead
  <2> QED
    BY <1>3, <2>1, <2>2, <2>3
<1>4. CASE ScanDone \/ Check \/ Expire
  BY <1>4 DEF ScanDone, Check, Expire
<1>5. CASE VisitBlock
  <2>1. lastSlot + 1 \in 0 .. head /\ chain[lastSlot + 1] \in SlotData
    BY <1>5 DEF VisitBlock
  <2>2. chain' = chain /\ head' = head /\ pc' = pc /\ start' = start /\ target' = target
        /\ before' = before /\ lastSlot' = lastSlot + 1
    BY <1>5 DEF VisitBlock, walk
  <2>3. lastSlot' \in 0 .. head /\ visited' \subseteq Nat
    BY <1>5, <2>1 DEF VisitBlock
  <2>4. lastBlock' \in Nat /\ exitIncluded' \in BOOLEAN /\ withdrawn' \in Nat
    <3>1. /\ lastBlock' = chain[lastSlot + 1].number
          /\ withdrawn' = withdrawn + chain[lastSlot + 1].amount
          /\ exitIncluded' = (exitIncluded \/ chain[lastSlot + 1].exit)
      BY <1>5 DEF VisitBlock
    <3> QED
      BY <2>1, <3>1 DEF SlotData
  <2> QED
    BY <2>2, <2>3, <2>4
<1>6. CASE UNCHANGED vars
  BY <1>6
<1> QED
  BY <1>1, <1>2, <1>3, <1>4, <1>5, <1>6 DEF Next, Scan

\* The scanner stays on the chain: its slots never pass the head.
THEOREM TypeCorrect == Spec => []TypeOK
  BY TypeInit, TypeStep, PTL DEF Spec

-----------------------------------------------------------------------------
(***************************************************************************)
(* The chain: what the numbers and balances of two of its slots have to do *)
(* with each other.  Stated for pairs, so that growing preserves it.       *)
(***************************************************************************)
Ordered ==
  \A s, t \in 0 .. head :
    s < t => /\ chain[s].number <= chain[t].number
             /\ chain[t].block => chain[s].number < chain[t].number

SameNumberSameBalance ==
  \A s, t \in 0 .. head :
    chain[s].number = chain[t].number => chain[s].balance = chain[t].balance

NumbersHaveBlocks ==
  \A s \in 0 .. head :
    \E t \in 0 .. head : chain[t].block /\ chain[t].number = chain[s].number

PaidInBlocks ==
  \A s \in 0 .. head : s + 1 <= head =>
    IF chain[s + 1].block
    THEN chain[s + 1].balance = chain[s].balance + chain[s + 1].amount
    ELSE chain[s + 1].balance = chain[s].balance /\ chain[s + 1].number = chain[s].number

ChainInv == Ordered /\ SameNumberSameBalance /\ NumbersHaveBlocks /\ PaidInBlocks

\* What the visits accumulated is the difference of two states of the chain.
WalkInv ==
  pc # "baseline" =>
    /\ start <= lastSlot
    /\ before = chain[start].balance
    /\ lastBlock = chain[lastSlot].number
    /\ withdrawn = chain[lastSlot].balance - chain[start].balance
    /\ visited = {s \in (start + 1) .. lastSlot : chain[s].block}
    /\ exitIncluded <=> \E s \in visited : chain[s].exit

NothingFoundYet ==
  pc = "baseline" => ~exitIncluded /\ withdrawn = 0 /\ visited = {}

DoneInv == pc = "done" => Covered

IInv == ChainInv /\ WalkInv /\ NothingFoundYet /\ DoneInv

\* The inductive invariant holds before the baseline is read.
LEMMA InvInit == Init => IInv
<1> SUFFICES ASSUME Init PROVE IInv
  OBVIOUS
<1>1. \A s \in 0 .. head : s = 0 /\ chain[s] = Genesis
  BY DEF Init
<1> QED
  BY <1>1 DEF Init, IInv, ChainInv, Ordered, SameNumberSameBalance, NumbersHaveBlocks,
              PaidInBlocks, WalkInv, NothingFoundYet, DoneInv, Genesis

\* The slots of the grown chain.
LEMMA GrownSlots ==
  ASSUME TypeOK, NEW h \in (head + 1) .. MaxSlot, NEW exit \in BOOLEAN, NEW amount \in Nat,
         chain' = Grown(h, exit, amount), head' = h
  PROVE  /\ \A t \in 0 .. head : chain'[t] = chain[t]
         /\ \A t \in (head + 1) .. (h - 1) :
              /\ ~chain'[t].block
              /\ chain'[t].number = chain[head].number /\ chain'[t].balance = chain[head].balance
         /\ chain'[h].block /\ chain'[h].number = chain[head].number + 1
         /\ chain'[h].amount = amount /\ chain'[h].balance = chain[head].balance + amount
<1>1. head \in Nat /\ h \in Nat /\ h > head
  BY ScannerAssumption DEF TypeOK
<1>2. chain[head] \in SlotData
  BY <1>1 DEF TypeOK
<1> QED
  BY <1>1, <1>2 DEF Grown, SlotData

\* The growth of the chain disturbs nothing that was already there.
LEMMA ChainStep ==
  ASSUME TypeOK, TypeOK', ChainInv, NEW h \in (head + 1) .. MaxSlot,
         NEW exit \in BOOLEAN, NEW amount \in Nat,
         chain' = Grown(h, exit, amount), head' = h
  PROVE  ChainInv'
<1>1. head \in Nat /\ h \in Nat /\ h > head
  BY ScannerAssumption DEF TypeOK
<1>2. \A t \in 0 .. head : chain[t].number \in Nat /\ chain[t].balance \in Nat
  BY DEF TypeOK, SlotData
<1>3. Ordered'
  BY <1>1, <1>2, GrownSlots DEF ChainInv, Ordered
<1>4. SameNumberSameBalance'
  BY <1>1, <1>2, GrownSlots DEF ChainInv, SameNumberSameBalance, Ordered
<1>5. NumbersHaveBlocks'
  <2> SUFFICES ASSUME NEW s \in 0 .. h
               PROVE  \E t \in 0 .. h : chain'[t].block /\ chain'[t].number = chain'[s].number
    BY DEF NumbersHaveBlocks
  <2>1. \A u \in 0 .. head : \E t \in 0 .. h : chain'[t].block /\ chain'[t].number = chain[u].number
    <3> TAKE u \in 0 .. head
    <3>1. PICK t \in 0 .. head : chain[t].block /\ chain[t].number = chain[u].number
      BY DEF ChainInv, NumbersHaveBlocks
    <3>2. t \in 0 .. h /\ chain'[t] = chain[t]
      BY <1>1, GrownSlots
    <3> QED
      BY <3>1, <3>2
  <2>2. CASE s \in 0 .. head
    BY <2>1, <2>2, GrownSlots
  <2>3. CASE s \in (head + 1) .. (h - 1)
    <3>1. head \in 0 .. head /\ chain'[s].number = chain[head].number
      BY <1>1, <2>3, GrownSlots
    <3> QED
      BY <2>1, <3>1
  <2>4. CASE s = h
    BY <1>1, <2>4, GrownSlots
  <2> QED
    BY <1>1, <2>2, <2>3, <2>4
<1>6. PaidInBlocks'
  <2> SUFFICES ASSUME NEW s \in 0 .. h, s + 1 <= h
               PROVE  IF chain'[s + 1].block
                      THEN chain'[s + 1].balance = chain'[s].balance + chain'[s + 1].amount
                      ELSE /\ chain'[s + 1].balance = chain'[s].balance
                           /\ chain'[s + 1].number = chain'[s].number
    BY DEF PaidInBlocks
  <2>1. /\ \A t \in 0 .. head : chain'[t] = chain[t]
        /\ \A t \in (head + 1) .. (h - 1) :
             /\ ~chain'[t].block
             /\ chain'[t].number = chain[head].number /\ chain'[t].balance = chain[head].balance
        /\ chain'[h].block /\ chain'[h].amount = amount
        /\ chain'[h].balance = chain[head].balance + amount
    BY GrownSlots
  <2>2. CASE s + 1 <= head
    BY <1>1, <2>1, <2>2 DEF ChainInv, PaidInBlocks
  <2>3. s >= head => chain'[s].number = chain[head].number /\ chain'[s].balance = chain[head].balance
    BY <1>1, <2>1
  <2>4. CASE s + 1 > head /\ s + 1 < h
    BY <1>1, <2>1, <2>3, <2>4
  <2>5. CASE s + 1 = h
    BY <1>1, <2>1, <2>3, <2>5
  <2> QED
    BY <1>1, <2>2, <2>4, <2>5
<1> QED
  BY <1>3, <1>4, <1>5, <1>6 DEF ChainInv

\* Every step of the scan preserves the inductive invariant.
LEMMA InvStep == TypeOK /\ TypeOK' /\ IInv /\ [Next]_vars => IInv'
<1> SUFFICES ASSUME TypeOK, TypeOK', IInv, [Next]_vars PROVE IInv'
  OBVIOUS
<1> USE ScannerAssumption
<1>0. /\ head \in Nat /\ start \in 0 .. head /\ lastSlot \in 0 .. head /\ target \in 0 .. head
      /\ \A t \in 0 .. head : chain[t].number \in Nat /\ chain[t].balance \in Nat
                              /\ chain[t].amount \in Nat
  BY DEF TypeOK, SlotData
<1>1. CASE Extend
  <2>1. PICK h \in (head + 1) .. MaxSlot, exit \in BOOLEAN, amount \in Amounts :
          chain' = Grown(h, exit, amount) /\ head' = h
    BY <1>1 DEF Extend
  <2>2. ChainInv'
    BY <2>1, ChainStep DEF IInv
  <2>3. \A t \in 0 .. head : chain'[t] = chain[t]
    BY <2>1, GrownSlots
  <2>4. UNCHANGED <<pc, walk, target, lastSlot, lastBlock, found>>
    BY <1>1 DEF Extend
  <2>5. WalkInv'
    <3> SUFFICES ASSUME pc # "baseline" PROVE WalkInv'
      BY <2>4 DEF WalkInv
    <3>1. {s \in (start + 1) .. lastSlot : chain'[s].block}
            = {s \in (start + 1) .. lastSlot : chain[s].block}
      BY <1>0, <2>3
    <3>2. visited \subseteq 0 .. head
      BY <1>0 DEF IInv, WalkInv
    <3> QED
      BY <1>0, <2>3, <2>4, <3>1, <3>2 DEF IInv, WalkInv
  <2> QED
    BY <2>2, <2>4, <2>5 DEF IInv, NothingFoundYet, DoneInv, Covered
<1>2. CASE Baseline
  <2>1. ChainInv' /\ DoneInv' /\ NothingFoundYet'
    BY <1>2 DEF Baseline, IInv, ChainInv, Ordered, SameNumberSameBalance, NumbersHaveBlocks,
                PaidInBlocks, DoneInv, NothingFoundYet
  <2>2. WalkInv'
    BY <1>0, <1>2 DEF Baseline, IInv, WalkInv, NothingFoundYet
  <2> QED
    BY <2>1, <2>2 DEF IInv
<1>3. CASE ReadHead \/ FailedRead \/ ScanDone \/ Check \/ Expire
  <2>1. /\ UNCHANGED <<chain, head, walk, lastSlot, lastBlock, found>>
        /\ pc # "baseline" /\ pc' # "baseline" /\ (pc' = "done" => Covered)
    BY <1>3 DEF ReadHead, FailedRead, ScanDone, Check, Expire
  <2> QED
    BY <2>1 DEF IInv, ChainInv, Ordered, SameNumberSameBalance, NumbersHaveBlocks,
                PaidInBlocks, WalkInv, DoneInv, NothingFoundYet, Covered
<1>4. CASE EmptySlot \/ VisitBlock
  <2>1. /\ UNCHANGED <<chain, head, pc, walk, target>>
        /\ pc = "walk" /\ lastSlot < target /\ lastSlot' = lastSlot + 1
    BY <1>4 DEF EmptySlot, VisitBlock
  <2>2. ChainInv' /\ DoneInv' /\ NothingFoundYet'
    BY <2>1 DEF IInv, ChainInv, Ordered, SameNumberSameBalance, NumbersHaveBlocks,
                PaidInBlocks, DoneInv, NothingFoundYet
  <2>3. lastSlot \in 0 .. head /\ lastSlot + 1 <= head /\ start <= lastSlot
    BY <1>0, <2>1 DEF IInv, WalkInv
  <2>4. CASE EmptySlot
    <3>1. /\ ~chain[lastSlot + 1].block /\ UNCHANGED <<lastBlock, found>>
      BY <2>4 DEF EmptySlot
    <3>2. {s \in (start + 1) .. (lastSlot + 1) : chain[s].block}
            = {s \in (start + 1) .. lastSlot : chain[s].block}
      BY <1>0, <2>3, <3>1
    <3>3. /\ chain[lastSlot + 1].balance = chain[lastSlot].balance
          /\ chain[lastSlot + 1].number = chain[lastSlot].number
      BY <2>3, <3>1 DEF IInv, ChainInv, PaidInBlocks
    <3>4. WalkInv'
      BY <1>0, <2>1, <2>3, <3>1, <3>2, <3>3 DEF IInv, WalkInv
    <3> QED
      BY <2>2, <3>4 DEF IInv
  <2>5. CASE VisitBlock
    <3>1. /\ chain[lastSlot + 1].block
          /\ exitIncluded' = (exitIncluded \/ chain[lastSlot + 1].exit)
          /\ withdrawn' = withdrawn + chain[lastSlot + 1].amount
          /\ visited' = visited \cup {lastSlot + 1}
          /\ lastBlock' = chain[lastSlot + 1].number
      BY <2>5 DEF VisitBlock
    <3>2. {s \in (start + 1) .. (lastSlot + 1) : chain[s].block}
            = {s \in (start + 1) .. lastSlot : chain[s].block} \cup {lastSlot + 1}
      BY <1>0, <2>3, <3>1
    <3>3. chain[lastSlot + 1].balance = chain[lastSlot].balance + chain[lastSlot + 1].amount
      BY <2>3, <3>1 DEF IInv, ChainInv, PaidInBlocks
    <3>4. withdrawn' = chain[lastSlot + 1].balance - chain[start].balance
      BY <1>0, <2>1, <2>3, <3>1, <3>3 DEF IInv, WalkInv
    <3>5. exitIncluded' <=> \E s \in visited' : chain[s].exit
      BY <2>1, <3>1 DEF IInv, WalkInv
    <3>6. WalkInv'
      BY <1>0, <2>1, <2>3, <3>1, <3>2, <3>4, <3>5 DEF IInv, WalkInv
    <3> QED
      BY <2>2, <3>6 DEF IInv
  <2> QED
    BY <1>4, <2>4, <2>5
<1>5. CASE UNCHANGED vars
  BY <1>5 DEF IInv, ChainInv, Ordered, SameNumberSameBalance, NumbersHaveBlocks,
              PaidInBlocks, WalkInv, DoneInv, NothingFoundYet, Covered
<1> QED
  BY <1>1, <1>2, <1>3, <1>4, <1>5 DEF Next, Scan

\* The inductive invariant holds throughout.
LEMMA InvCorrect == Spec => []IInv
  BY TypeCorrect, InvInit, InvStep, PTL DEF Spec

(***************************************************************************)
(* No block after the starting slot is missed or visited before its turn.  *)
(***************************************************************************)
THEOREM BlocksAreVisited == Spec => []EveryBlockVisited
<1>1. IInv => EveryBlockVisited
  BY DEF IInv, WalkInv, EveryBlockVisited
<1> QED
  BY <1>1, InvCorrect, PTL

(***************************************************************************)
(* The wallet comparison is exact at every poll.                           *)
(***************************************************************************)
THEOREM WalletIsExact == Spec => []WalletMatches
<1>1. TypeOK /\ IInv => WalletMatches
  <2> SUFFICES ASSUME TypeOK, IInv, pc = "check" PROVE Gained = withdrawn
    BY DEF WalletMatches
  <2> DEFINE numbered(t) == chain[t].block /\ chain[t].number = lastBlock
             s == CHOOSE t \in 0 .. head : numbered(t)
  <2>1. lastSlot \in 0 .. head /\ lastBlock = chain[lastSlot].number
    BY DEF TypeOK, IInv, WalkInv
  <2>2. \E t \in 0 .. head : numbered(t)
    BY <2>1 DEF IInv, ChainInv, NumbersHaveBlocks
  <2>3. s \in 0 .. head /\ numbered(s)
    BY <2>2
  <2>4. chain[s].balance = chain[lastSlot].balance
    BY <2>1, <2>3 DEF IInv, ChainInv, SameNumberSameBalance
  <2>5. BalanceAt(lastBlock) = chain[lastSlot].balance
    BY <2>4 DEF BalanceAt
  <2> QED
    BY <2>5 DEF Gained, IInv, WalkInv
<1> QED
  BY <1>1, TypeCorrect, InvCorrect, PTL

(***************************************************************************)
(* Success is reported only for an exit and a stake that the chain has     *)
(* really paid out after the baseline.                                     *)
(***************************************************************************)
THEOREM DoneIsWithdrawn == Spec => []DoneMeansWithdrawn
<1>1. IInv => DoneMeansWithdrawn
  BY DEF IInv, WalkInv, DoneInv, Covered, DoneMeansWithdrawn
<1> QED
  BY <1>1, InvCorrect, PTL

-----------------------------------------------------------------------------
(***************************************************************************)
(* The suites leave the scanner alone until the exit is submitted, and are *)
(* left alone by it: what holds of every scan holds of theirs.             *)
(***************************************************************************)
THEOREM SuitesScan == StakingSpec => Spec
<1>1. StakingInit => Init
  BY DEF StakingInit
<1>2. [StakingNext]_<<vars, staking>> => [Next]_vars
  <2> SUFFICES ASSUME [StakingNext]_<<vars, staking>>
               PROVE  Next \/ UNCHANGED vars
    OBVIOUS
  <2>1. CASE stage # "exit" /\ UNCHANGED vars
    BY <2>1
  <2>2. CASE stage = "exit" /\ Next
    BY <2>2
  <2>3. CASE UNCHANGED <<vars, staking>>
    BY <2>3
  <2> QED
    BY <2>1, <2>2, <2>3 DEF StakingNext
<1> QED
  BY <1>1, <1>2, PTL DEF StakingSpec, Spec
=============================================================================
