-------------------------- MODULE OperationScanner --------------------------
(***************************************************************************)
(* e2e/internal/staking: ExpectExitAndWithdrawal follows a growing beacon  *)
(* chain through an operationScanner, over a client whose reads can fail,  *)
(* and compares what the withdrawals of the validator paid with what their *)
(* recipient gained.                                                       *)
(*                                                                         *)
(* A slot of the chain carries what the code reads of it: whether it has a *)
(* block, that block's exit and withdrawal for the validator, and, carried *)
(* along over empty slots, the number of the last execution block and the  *)
(* recipient's balance in it.  The chain grows at its head and is never    *)
(* reorganised: the code has no provision for that either.                 *)
(***************************************************************************)
EXTENDS Integers

CONSTANTS
  MaxSlot,   \* bound: the last slot the chain grows to
  Amounts,   \* what a block can withdraw for the validator; 0 is nothing
  Stake      \* the effective balance that has to be covered

ASSUME ScannerAssumption ==
  /\ MaxSlot \in Nat
  /\ Amounts \subseteq Nat
  /\ Stake \in Nat

VARIABLES
  chain,      \* chain[s]: what the canonical branch has at slot s
  head,       \* the slot of the head block
  pc,         \* where the polled function is
  start,      \* the slot of the head block the baseline was read at
  before,     \* balanceBefore
  target,     \* the head slot this scan walks up to
  lastSlot, lastBlock,       \* the scanner's fields
  exitIncluded, withdrawn,   \* what the visits accumulated
  visited     \* the slots whose block was visited

walk == <<start, before>>
found == <<exitIncluded, withdrawn, visited>>
vars == <<chain, head, pc, walk, target, lastSlot, lastBlock, found>>

SlotData == [block : BOOLEAN, exit : BOOLEAN, amount : Nat, number : Nat, balance : Nat]
Genesis == [block |-> TRUE, exit |-> FALSE, amount |-> 0, number |-> 0, balance |-> 0]

Steps == {"baseline", "poll", "walk", "check", "done", "expired"}

Init ==
  /\ chain = [s \in {0} |-> Genesis]
  /\ head = 0
  /\ pc = "baseline"
  /\ start = 0 /\ before = 0
  /\ target = 0
  /\ lastSlot = 0 /\ lastBlock = 0
  /\ exitIncluded = FALSE /\ withdrawn = 0
  /\ visited = {}

-----------------------------------------------------------------------------
\* The chain with empty slots after its head and then a new head block at h.
Grown(h, exit, amount) ==
  [t \in 0 .. h |->
     IF t <= head THEN chain[t]
     ELSE IF t < h
     THEN [chain[head] EXCEPT !.block = FALSE, !.exit = FALSE, !.amount = 0]
     ELSE [block |-> TRUE, exit |-> exit, amount |-> amount,
           number |-> chain[head].number + 1, balance |-> chain[head].balance + amount]]

Extend ==
  \E h \in (head + 1) .. MaxSlot, exit \in BOOLEAN, amount \in Amounts :
    /\ chain' = Grown(h, exit, amount)
    /\ head' = h
    /\ UNCHANGED <<pc, walk, target, lastSlot, lastBlock, found>>

-----------------------------------------------------------------------------
\* The head block's operations and the recipient's balance at its execution
\* block; the exit is submitted afterwards.
Baseline ==
  /\ pc = "baseline"
  /\ start' = head
  /\ before' = chain[head].balance
  /\ lastSlot' = head
  /\ lastBlock' = chain[head].number
  /\ pc' = "poll"
  /\ UNCHANGED <<chain, head, target, found>>

\* HeadSlot; a failed read fails this attempt, and Eventually polls again.
ReadHead ==
  /\ pc = "poll"
  /\ target' = head
  /\ pc' = "walk"
  /\ UNCHANGED <<chain, head, walk, lastSlot, lastBlock, found>>

\* One turn of the loop of scan: the slot after lastSlot, if the head is there.
EmptySlot ==
  /\ pc = "walk" /\ lastSlot < target
  /\ ~chain[lastSlot + 1].block
  /\ lastSlot' = lastSlot + 1
  /\ UNCHANGED <<chain, head, pc, walk, target, lastBlock, found>>

VisitBlock ==
  /\ pc = "walk" /\ lastSlot < target
  /\ chain[lastSlot + 1].block
  /\ LET operations == chain[lastSlot + 1] IN
     /\ exitIncluded' = (exitIncluded \/ operations.exit)
     /\ withdrawn' = withdrawn + operations.amount
     /\ visited' = visited \cup {lastSlot + 1}
     /\ lastBlock' = operations.number
  /\ lastSlot' = lastSlot + 1
  /\ UNCHANGED <<chain, head, pc, walk, target>>

\* Faulty: every failed read is taken for an empty slot.
FailedReadSkipsSlot ==
  /\ pc = "walk" /\ lastSlot < target
  /\ lastSlot' = lastSlot + 1
  /\ UNCHANGED <<chain, head, pc, walk, target, lastBlock, found>>

\* A read that failed for another reason leaves the slot to the next poll.
FailedRead ==
  /\ pc = "walk" /\ lastSlot < target
  /\ pc' = "poll"
  /\ UNCHANGED <<chain, head, walk, target, lastSlot, lastBlock, found>>

ScanDone ==
  /\ pc = "walk" /\ lastSlot >= target
  /\ pc' = "check"
  /\ UNCHANGED <<chain, head, walk, target, lastSlot, lastBlock, found>>

\* Faulty: the wallet is read at the head of the chain.
BalanceAtHead(number) == chain[head].balance

\* BalanceAt(recipient, lastBlock): the balance in the state of that block.
BalanceAt(number) ==
  LET s == CHOOSE t \in 0 .. head : chain[t].block /\ chain[t].number = number
  IN  chain[s].balance

\* Faulty: the stake alone is waited for.
CoveredByAmount == withdrawn >= Stake

Covered == exitIncluded /\ withdrawn >= Stake
Gained == BalanceAt(lastBlock) - before

\* The remaining expectations: the validator's record and the wallet's balance
\* are read, or a read fails; any mismatch is retried at the next poll.
Check ==
  /\ pc = "check"
  /\ \/ Covered /\ Gained = withdrawn /\ pc' = "done"
     \/ pc' = "poll"
  /\ UNCHANGED <<chain, head, walk, target, lastSlot, lastBlock, found>>

\* Eventually gives up when ExitTimeout has passed: here at any moment, the clock
\* of that wait is Staking's (stage leaving).
Expire ==
  /\ pc \in {"poll", "walk", "check"}
  /\ pc' = "expired"
  /\ UNCHANGED <<chain, head, walk, target, lastSlot, lastBlock, found>>

Scan == ReadHead \/ EmptySlot \/ VisitBlock \/ FailedRead \/ ScanDone \/ Check

Next == Extend \/ Baseline \/ Scan \/ Expire

Spec == Init /\ [][Next]_vars

-----------------------------------------------------------------------------
TypeOK ==
  /\ head \in Nat
  /\ chain \in [0 .. head -> SlotData]
  /\ pc \in Steps
  /\ start \in 0 .. head /\ target \in 0 .. head /\ lastSlot \in 0 .. head
  /\ before \in Nat /\ lastBlock \in Nat
  /\ exitIncluded \in BOOLEAN /\ withdrawn \in Nat
  /\ visited \subseteq Nat

(***************************************************************************)
(* However often reads fail and the head moves, the scanner has visited    *)
(* exactly the blocks of the canonical chain after the starting slot.      *)
(***************************************************************************)
EveryBlockVisited ==
  pc # "baseline" =>
    visited = {s \in (start + 1) .. lastSlot : chain[s].block}

(***************************************************************************)
(* On a chain that pays what it withdraws, the comparison of the wallet    *)
(* with the withdrawals holds at every poll: it is taken at one block, and *)
(* neither the empty slots after it nor payments made later disturb it.     *)
(***************************************************************************)
WalletMatches == pc = "check" => Gained = withdrawn

(***************************************************************************)
(* The wait ends with success only if the chain has included the exit and  *)
(* paid out the stake after the baseline.                                  *)
(***************************************************************************)
DoneMeansWithdrawn ==
  pc = "done" =>
    /\ \E s \in (start + 1) .. lastSlot : chain[s].block /\ chain[s].exit
    /\ chain[lastSlot].balance - chain[start].balance >= Stake
=============================================================================
