------------------------------- MODULE Verdict -------------------------------
(***************************************************************************)
(* internal/results: how the outcome of a lane is classified.              *)
(*                                                                         *)
(* An outcome keeps the errors of the lane's lifecycle (err), those of the *)
(* test process (executionErr), and the captured Ginkgo reports.  A report *)
(* is the set of its spec results (only whether a kind of result occurs    *)
(* matters to the verdict), whether a special failure reason mentions a    *)
(* timeout, and whether the suite succeeded.                               *)
(***************************************************************************)
EXTENDS Naturals, Sequences

FailureStates == {"failed", "panicked", "aborted", "timedout", "interrupted"}
SpecStates == FailureStates \cup {"passed", "pending", "skipped"}
SpecResults == [leaf : {"It", "node"}, state : SpecStates]
Reports == [specs : SUBSET SpecResults, timeoutReason : BOOLEAN, succeeded : BOOLEAN]

Verdicts == {"bootstrap", "infrastructure", "timeout", "canceled",
             "assertion", "skipped", "passed"}

It(state) == [leaf |-> "It", state |-> state]

-----------------------------------------------------------------------------
\* summarizeSuite and tally, over one report or over all those of a lane.
Failures(specs) == {s \in specs : s.state \in FailureStates}
UnexpectedSkips(specs) == specs \cap {It("pending"), It("skipped")}
PassedSpecs(specs) == specs \cap {It("passed")}

AnyReportTimedOut(reports) == \E i \in DOMAIN reports : reports[i].timeoutReason
AnyReportFailed(reports) == \E i \in DOMAIN reports : ~reports[i].succeeded

AllSpecs(reports) == UNION {reports[i].specs : i \in DOMAIN reports}

\* The first evidence in this order decides.
ClassifyReports(reports, runErr) ==
  LET specs == AllSpecs(reports)
      failedAs(state) == \E s \in specs : s.state = state
  IN  IF AnyReportTimedOut(reports) \/ failedAs("timedout") THEN "timeout"
      ELSE IF failedAs("interrupted") THEN "infrastructure"
      ELSE IF Failures(specs) # {} THEN "assertion"
      ELSE IF UnexpectedSkips(specs) # {} THEN "skipped"
      ELSE IF AnyReportFailed(reports) THEN "infrastructure"
      ELSE IF runErr THEN "infrastructure"
      ELSE IF PassedSpecs(specs) = {} THEN "infrastructure"
      ELSE "passed"

SuiteVerdict(report) == ClassifyReports(<<report>>, FALSE)

\* Faulty: the totals of the lane are taken to speak for every suite.
TotalsSpeakForSuites(reports) == "passed"

\* The verdict of the first suite that did not pass, "passed" if all did.
FirstFailingSuite(reports) ==
  LET failing == {i \in DOMAIN reports : SuiteVerdict(reports[i]) # "passed"}
  IN  IF failing = {} THEN "passed"
      ELSE SuiteVerdict(reports[CHOOSE i \in failing : \A j \in failing : i <= j])

Classify(outcome) ==
  IF outcome.bootstrapFailed THEN "bootstrap"
  ELSE IF "canceled" \in outcome.executionErr THEN "canceled"
  ELSE IF "deadline" \in outcome.executionErr THEN "timeout"
  ELSE IF outcome.reportErr \/ outcome.reports = <<>> THEN "infrastructure"
  ELSE LET verdict == ClassifyReports(outcome.reports, outcome.err # {})
       IN  IF verdict = "passed" THEN FirstFailingSuite(outcome.reports) ELSE verdict

Passed(outcome) == Classify(outcome) = "passed"

-----------------------------------------------------------------------------
(***************************************************************************)
(* summary.md: the result of every suite, or of a lane without suites, and *)
(* the error of a lane whose verdict the suites do not explain.            *)
(***************************************************************************)
FailingRow(report) == SuiteVerdict(report) # "passed"

\* Faulty: the suites are thought to show a timeout.
ShowsUnexplainedError(outcome) ==
  /\ outcome.err # {} \/ outcome.reportErr
  /\ Classify(outcome) \notin {"assertion", "skipped", "timeout"}

\* showLaneError
ShowsLaneError(outcome) ==
  /\ outcome.err # {} \/ outcome.reportErr
  /\ Classify(outcome) \notin {"assertion", "skipped"}

MarkdownFails(outcome) ==
  \/ outcome.reports = <<>> /\ ~Passed(outcome)
  \/ \E i \in DOMAIN outcome.reports : FailingRow(outcome.reports[i])
  \/ ShowsLaneError(outcome)

-----------------------------------------------------------------------------
(***************************************************************************)
(* What a passing verdict promises: nothing went wrong in the lifecycle,   *)
(* and every suite of the lane succeeded and really passed a spec.         *)
(***************************************************************************)
Clean(outcome) ==
  /\ ~outcome.bootstrapFailed /\ ~outcome.reportErr
  /\ outcome.err = {}
  /\ outcome.executionErr \cap {"canceled", "deadline"} = {}
  /\ outcome.reports # <<>>
  /\ \A i \in DOMAIN outcome.reports :
       LET report == outcome.reports[i] IN
       /\ report.succeeded /\ ~report.timeoutReason
       /\ It("passed") \in report.specs
       /\ \A s \in report.specs :
            s.state \notin FailureStates /\ s \notin {It("pending"), It("skipped")}
=============================================================================
