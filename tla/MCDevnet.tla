------------------------------ MODULE MCDevnet ------------------------------
(* Instances of Devnet: two callers that share one enclave name.           *)
EXTENDS Devnet

CONSTANTS c1, c2, n1

TwoCallers == {c1, c2}
OneName == {n1}
SameName2 == [c \in TwoCallers |-> n1]
=============================================================================
