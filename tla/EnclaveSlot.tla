---------------------------- MODULE EnclaveSlot ----------------------------
(***************************************************************************)
(* What devnet.Manager promises its callers about the deterministic slot   *)
(* an enclave name stands for: it is claimed by one start at a time, given *)
(* up on behalf of a stop or of the start that claimed it, a successful    *)
(* start holds it and a successful stop has seen it free.                  *)
(***************************************************************************)
CONSTANTS Callers, Names, NameOf, NoOne

VARIABLES
  holder,   \* holder[n]: who claimed the slot n, NoOne when it is free
  doomed,   \* doomed[n]: the slot was given up and is being freed
  status,   \* status[c]: what caller c does, or the answer it received
  freed     \* freed[c]: the slot was free at some moment of the operation

vars == <<holder, doomed, status, freed>>

Answers == {"none", "started", "stopped", "failed"}
Running == {"starting", "stopping"}

Init ==
  /\ holder = [n \in Names |-> NoOne]
  /\ doomed = [n \in Names |-> FALSE]
  /\ status = [c \in Callers |-> "none"]
  /\ freed = [c \in Callers |-> FALSE]

Begin(c) ==
  /\ status[c] \in Answers
  /\ \E s \in Running \cup {"failed"} : status' = [status EXCEPT ![c] = s]
  /\ freed' = [freed EXCEPT ![c] = holder[NameOf[c]] = NoOne]
  /\ UNCHANGED <<holder, doomed>>

\* A claim whose acknowledgement is lost ends the start as a failure.
Claim(c) ==
  /\ status[c] = "starting"
  /\ holder[NameOf[c]] = NoOne
  /\ holder' = [holder EXCEPT ![NameOf[c]] = c]
  /\ status' \in {status, [status EXCEPT ![c] = "failed"]}
  /\ UNCHANGED <<doomed, freed>>

GiveUp(c) ==
  /\ \/ status[c] = "stopping"
     \/ status[c] = "starting" /\ holder[NameOf[c]] = c
  /\ ~doomed[NameOf[c]]
  /\ doomed' = [doomed EXCEPT ![NameOf[c]] = TRUE]
  /\ UNCHANGED <<holder, status, freed>>

Free(n) ==
  /\ doomed[n]
  /\ holder' = [holder EXCEPT ![n] = NoOne]
  /\ doomed' = [doomed EXCEPT ![n] = FALSE]
  /\ freed' = [c \in Callers |-> freed[c] \/ NameOf[c] = n]
  /\ UNCHANGED status

Answer(c) ==
  /\ status[c] \in Running
  /\ \/ status' = [status EXCEPT ![c] = "failed"]
     \/ /\ status[c] = "starting"
        /\ holder[NameOf[c]] = c /\ ~doomed[NameOf[c]]
        /\ status' = [status EXCEPT ![c] = "started"]
     \/ /\ status[c] = "stopping"
        /\ freed[c]
        /\ status' = [status EXCEPT ![c] = "stopped"]
  /\ UNCHANGED <<holder, doomed, freed>>

Next ==
  \/ \E c \in Callers : Begin(c) \/ Claim(c) \/ GiveUp(c) \/ Answer(c)
  \/ \E n \in Names : Free(n)

Spec == Init /\ [][Next]_vars
=============================================================================
