--------------------------- MODULE MCDiagnostics ---------------------------
(* Instances of Diagnostics: two services, of one enclave or of two.        *)
EXTENDS Diagnostics

TwoServices == {"a", "z"}
OwnNames == [u \in TwoServices |-> u]

\* A service that was removed and added again keeps its name.
SharedName == [u \in TwoServices |-> "gamma"]
=============================================================================
