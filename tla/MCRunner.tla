------------------------------ MODULE MCRunner ------------------------------
(* Instances of Runner.                                                     *)
EXTENDS Runner

\* Suites are selected where that is refused; an accepted selection only
\* narrows a lane.
AllRequests ==
  {r \in [command : {"test", "run", "run-all"}, invalid : BOOLEAN, customParameters : BOOLEAN,
          selectsSuites : BOOLEAN, restartsServices : BOOLEAN] :
     r.selectsSuites => r.command = "run-all"}

OneRequest == {[command |-> "run-all", invalid |-> FALSE, customParameters |-> FALSE,
                selectsSuites |-> FALSE, restartsServices |-> FALSE]}

Report(states) == [specs |-> {It(s) : s \in states}, timeoutReason |-> FALSE, succeeded |-> TRUE]
Failing(states) == [Report(states) EXCEPT !.succeeded = FALSE]

\* One that passes and one that fails an assertion.
TwoReports == {<<Report({"passed"})>>, <<Failing({"passed", "failed"})>>}

\* One result for each branch of the classification; "node" is a setup or
\* teardown node, whose failure counts although it is no spec.
Results == {It("passed"), It("skipped"), It("timedout"), [leaf |-> "node", state |-> "failed"]}
SmallReports == [specs : SUBSET Results, timeoutReason : {FALSE}, succeeded : BOOLEAN]
OtherReports == {[Report({"passed"}) EXCEPT !.timeoutReason = TRUE], Failing({"passed", "interrupted"})}

\* No report, one, and the lanes of two suites: a suite passes, fails an
\* assertion, hangs, or ran nothing.
AllReports ==
  LET few == {Report({"passed"}), Failing({"passed", "failed"}), Failing({"timedout"}), Report({})}
  IN  {<<>>} \cup {<<r>> : r \in SmallReports \cup OtherReports} \cup (few \X few)
=============================================================================
