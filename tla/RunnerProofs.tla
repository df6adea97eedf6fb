---------------------------- MODULE RunnerProofs ----------------------------
(***************************************************************************)
(* Runner is correct for any number of lanes, any parallelism, any reports *)
(* a test process can leave, and any set of steps that may fail.           *)
(*                                                                         *)
(* The inductive invariant has four parts: the types, what holds of a lane *)
(* at the step it is at, who holds a place in the semaphore, and what the  *)
(* files on disk may say at the step the main goroutine is at.             *)
(* Before it come the facts about the classification of one outcome.       *)
(***************************************************************************)
EXTENDS Runner, NaturalsInduction, WellFoundedInduction, FiniteSetTheorems, TLAPS

-----------------------------------------------------------------------------
(***************************************************************************)
(* A set of positions that is not empty has a first one, so the loop over  *)
(* the suites in classify finds a failing suite if there is one.           *)
(***************************************************************************)
LEMMA FirstPosition ==
  ASSUME NEW T \in SUBSET Nat, T # {}
  PROVE  \E i \in T : \A j \in T : i <= j
<1>1. PICK i \in T : \A j \in T : <<j, i>> \notin OpToRel(<, Nat)
  BY NatLessThanWellFounded, WFMin
<1>2. \A j \in T : ~(j < i)
  BY <1>1 DEF OpToRel
<1> QED
  BY <1>2

(***************************************************************************)
(* The result of classify is "passed" for the suites exactly if none of    *)
(* them failed.                                                            *)
(***************************************************************************)
LEMMA FirstFailingSuiteSpeaksForAll ==
  ASSUME NEW reports \in Seq(Reports)
  PROVE  /\ FirstFailingSuite(reports) = "passed" <=>
              \A i \in DOMAIN reports : SuiteVerdict(reports[i]) = "passed"
         /\ FirstFailingSuite(reports) # "passed" =>
              \E i \in DOMAIN reports : SuiteVerdict(reports[i]) = FirstFailingSuite(reports)
<1> DEFINE failing == {i \in DOMAIN reports : SuiteVerdict(reports[i]) # "passed"}
           first == CHOOSE i \in failing : \A j \in failing : i <= j
<1>1. CASE failing = {}
  BY <1>1 DEF FirstFailingSuite
<1>2. CASE failing # {}
  <2>1. failing \in SUBSET Nat
    OBVIOUS
  <2>2. first \in failing
    BY <1>2, <2>1, FirstPosition
  <2>3. FirstFailingSuite(reports) = SuiteVerdict(reports[first])
    BY <1>2 DEF FirstFailingSuite
  <2> QED
    BY <2>2, <2>3
<1> QED
  BY <1>1, <1>2

(***************************************************************************)
(* What the reports of a passing lane, or of a passing suite, look like.   *)
(***************************************************************************)
Sound(report) ==
  /\ report.succeeded /\ ~report.timeoutReason
  /\ \A s \in report.specs :
       s.state \notin FailureStates /\ s \notin {It("pending"), It("skipped")}

NothingWrong(reports) == \A i \in DOMAIN reports : Sound(reports[i])

\* Reports in which nothing went wrong leave the verdict open.
LEMMA ReportsPass ==
  ASSUME NEW reports, NEW runErr \in BOOLEAN
  PROVE  ClassifyReports(reports, runErr) = "passed" <=>
           /\ NothingWrong(reports) /\ ~runErr
           /\ \E i \in DOMAIN reports : It("passed") \in reports[i].specs
<1> DEFINE specs == AllSpecs(reports)
<1>1. ClassifyReports(reports, runErr) = "passed" <=>
        /\ ~AnyReportTimedOut(reports) /\ ~AnyReportFailed(reports) /\ ~runErr
        /\ \A s \in specs : s.state # "timedout" /\ s.state # "interrupted"
        /\ Failures(specs) = {} /\ UnexpectedSkips(specs) = {} /\ PassedSpecs(specs) # {}
  BY DEF ClassifyReports
<1>2. NothingWrong(reports) <=>
        /\ ~AnyReportTimedOut(reports) /\ ~AnyReportFailed(reports)
        /\ Failures(specs) = {} /\ UnexpectedSkips(specs) = {}
  BY DEF NothingWrong, Sound, AnyReportTimedOut, AnyReportFailed, Failures, UnexpectedSkips, AllSpecs
<1>3. Failures(specs) = {} => \A s \in specs : s.state # "timedout" /\ s.state # "interrupted"
  BY DEF Failures, FailureStates
<1>4. PassedSpecs(specs) # {} <=> \E i \in DOMAIN reports : It("passed") \in reports[i].specs
  BY DEF PassedSpecs, AllSpecs
<1> QED
  BY <1>1, <1>2, <1>3, <1>4

\* A suite in which nothing went wrong has the verdict passed.
LEMMA SuitePasses ==
  ASSUME NEW report
  PROVE  SuiteVerdict(report) = "passed" <=>
           Sound(report) /\ It("passed") \in report.specs
<1>1. DOMAIN <<report>> = {1} /\ <<report>>[1] = report
  OBVIOUS
<1>2. NothingWrong(<<report>>) <=> Sound(report)
  BY <1>1 DEF NothingWrong
<1>3. (\E i \in DOMAIN <<report>> : It("passed") \in <<report>>[i].specs)
        <=> It("passed") \in report.specs
  BY <1>1
<1> QED
  BY <1>2, <1>3, ReportsPass DEF SuiteVerdict

(***************************************************************************)
(* A verdict of "passed" means that nothing at all went wrong, and an      *)
(* outcome in which nothing went wrong passes.                             *)
(***************************************************************************)
THEOREM PassedMeansClean ==
  ASSUME NEW o, o.reports \in Seq(Reports),
         o.bootstrapFailed \in BOOLEAN, o.reportErr \in BOOLEAN
  PROVE  Passed(o) <=> Clean(o)
<1> DEFINE reports == o.reports
           Lifecycle == /\ ~o.bootstrapFailed /\ ~o.reportErr
                        /\ "canceled" \notin o.executionErr
                        /\ "deadline" \notin o.executionErr
                        /\ reports # <<>>
           Suites == \A i \in DOMAIN reports : SuiteVerdict(reports[i]) = "passed"
<1>1. Passed(o) <=>
        Lifecycle /\ ClassifyReports(reports, o.err # {}) = "passed" /\ Suites
  BY FirstFailingSuiteSpeaksForAll DEF Passed, Classify
<1>2. Suites <=> NothingWrong(reports) /\ \A i \in DOMAIN reports : It("passed") \in reports[i].specs
  BY SuitePasses DEF NothingWrong
<1>3. reports # <<>> => 1 \in DOMAIN reports
  OBVIOUS
<1>4. Passed(o) <=> Lifecycle /\ o.err = {} /\ Suites
  BY <1>1, <1>2, <1>3, ReportsPass
<1>5. Clean(o) <=> Lifecycle /\ o.err = {} /\ Suites
  BY <1>2 DEF Clean, NothingWrong, Sound
<1> QED
  BY <1>4, <1>5

(***************************************************************************)
(* An error of the lifecycle decides only what the reports left open.      *)
(***************************************************************************)
LEMMA RunErrorDecidesLast ==
  ASSUME NEW reports
  PROVE  ClassifyReports(reports, TRUE) =
           IF ClassifyReports(reports, FALSE) = "passed" THEN "infrastructure"
           ELSE ClassifyReports(reports, FALSE)
  BY DEF ClassifyReports

\* A suite in which nothing failed is passed, or ran nothing.
LEMMA SoundSuiteVerdict ==
  ASSUME NEW report, Sound(report)
  PROVE  SuiteVerdict(report) \in {"passed", "infrastructure"}
<1> DEFINE reports == <<report>>
           specs == AllSpecs(reports)
<1>1. DOMAIN reports = {1} /\ reports[1] = report
  OBVIOUS
<1>2. specs = report.specs /\ ~AnyReportTimedOut(reports)
  BY <1>1 DEF AllSpecs, AnyReportTimedOut, Sound
<1>3. Failures(specs) = {} /\ UnexpectedSkips(specs) = {}
  BY <1>2 DEF Failures, UnexpectedSkips, Sound
<1>4. \A s \in specs : s.state # "timedout" /\ s.state # "interrupted"
  BY <1>2 DEF Sound, FailureStates
<1> QED
  BY <1>2, <1>3, <1>4 DEF SuiteVerdict, ClassifyReports

(***************************************************************************)
(* An error that is joined to the outcome of a lane after its reports were *)
(* captured keeps a verdict of failure, and makes a pass an infrastructure *)
(* failure: the log, the diagnostics and the cleanup never mask a result.  *)
(***************************************************************************)
THEOREM JoinedErrorKeepsFailure ==
  ASSUME NEW before, NEW after, before.reports \in Seq(Reports),
         after.bootstrapFailed = before.bootstrapFailed,
         after.executionErr = before.executionErr,
         after.reports = before.reports, after.reportErr = before.reportErr,
         after.err # {}
  PROVE  Classify(after) = IF Passed(before) THEN "infrastructure" ELSE Classify(before)
<1> DEFINE reports == before.reports
           Early == \/ before.bootstrapFailed
                    \/ "canceled" \in before.executionErr \/ "deadline" \in before.executionErr
                    \/ before.reportErr \/ reports = <<>>
<1>1. CASE Early
  BY <1>1 DEF Classify, Passed
<1>2. CASE ~Early
  <2>1. Classify(after) = ClassifyReports(reports, TRUE)
    BY <1>2, RunErrorDecidesLast DEF Classify
  <2>2. CASE before.err # {}
    BY <1>2, <2>1, <2>2, RunErrorDecidesLast DEF Classify, Passed
  <2>3. CASE before.err = {}
    <3>1. CASE ClassifyReports(reports, FALSE) # "passed"
      BY <1>2, <2>1, <2>3, <3>1, RunErrorDecidesLast DEF Classify, Passed
    <3>2. CASE ClassifyReports(reports, FALSE) = "passed"
      <4>1. Classify(before) = FirstFailingSuite(reports)
        BY <1>2, <2>3, <3>2 DEF Classify
      <4>2. \A i \in DOMAIN reports : Sound(reports[i])
        BY <3>2, ReportsPass DEF NothingWrong
      <4>3. FirstFailingSuite(reports) \in {"passed", "infrastructure"}
        BY <4>2, FirstFailingSuiteSpeaksForAll, SoundSuiteVerdict
      <4> QED
        BY <2>1, <3>2, <4>1, <4>3, RunErrorDecidesLast DEF Passed
    <3> QED
      BY <3>1, <3>2
  <2> QED
    BY <2>2, <2>3
<1> QED
  BY <1>1, <1>2

(***************************************************************************)
(* summary.md shows a failure for exactly the lanes that did not pass, as  *)
(* long as a lane that could not start, or whose process was canceled or   *)
(* ran out of time, carries an error: the lane error that markdown.go      *)
(* leaves out is one that the row of a suite explains.                     *)
(***************************************************************************)
THEOREM MarkdownShowsFailures ==
  ASSUME NEW o, o.reports \in Seq(Reports),
         o.bootstrapFailed \in BOOLEAN, o.reportErr \in BOOLEAN,
         o.bootstrapFailed => o.err # {},
         o.executionErr \cap {"canceled", "deadline"} # {} => o.err # {}
  PROVE  MarkdownFails(o) <=> ~Passed(o)
<1> DEFINE reports == o.reports
           Suites == \A i \in DOMAIN reports : SuiteVerdict(reports[i]) = "passed"
           Process == "canceled" \in o.executionErr \/ "deadline" \in o.executionErr
<1>1. ASSUME Passed(o)
      PROVE  ~MarkdownFails(o)
  <2>1. Clean(o)
    BY <1>1, PassedMeansClean
  <2>2. Suites
    BY <2>1, SuitePasses DEF Clean, Sound
  <2> QED
    BY <1>1, <2>1, <2>2 DEF Clean, MarkdownFails, FailingRow, ShowsLaneError
<1>2. ASSUME ~Passed(o)
      PROVE  MarkdownFails(o)
  <2>1. CASE o.bootstrapFailed \/ Process
    BY <2>1 DEF Classify, MarkdownFails, ShowsLaneError
  <2>2. CASE reports = <<>> \/ (o.reportErr /\ ~o.bootstrapFailed /\ ~Process)
    BY <1>2, <2>2 DEF Classify, MarkdownFails, ShowsLaneError
  <2>3. CASE ~Suites
    BY <2>3 DEF MarkdownFails, FailingRow
  <2>4. CASE /\ ~o.bootstrapFailed /\ ~Process
             /\ reports # <<>> /\ ~o.reportErr /\ Suites
    <3>1. FirstFailingSuite(reports) = "passed"
      BY <2>4, FirstFailingSuiteSpeaksForAll
    <3>2. NothingWrong(reports) /\ \A i \in DOMAIN reports : It("passed") \in reports[i].specs
      BY <2>4, SuitePasses DEF NothingWrong
    <3>3. 1 \in DOMAIN reports
      BY <2>4
    <3>4. ClassifyReports(reports, FALSE) = "passed"
      BY <3>2, <3>3, ReportsPass
    <3>5. Classify(o) = IF o.err # {} THEN "infrastructure" ELSE "passed"
      BY <2>4, <3>1, <3>4, RunErrorDecidesLast DEF Classify
    <3> QED
      BY <1>2, <3>5 DEF Passed, MarkdownFails, ShowsLaneError
  <2> QED
    BY <2>1, <2>2, <2>3, <2>4
<1> QED
  BY <1>1, <1>2

-----------------------------------------------------------------------------

Networks == {"absent", "foreign", "owned", "leaked"}
Errors == {"bootstrap", "setup", "exit", "canceled", "deadline", "log", "diagnostics", "cleanup"}
Outcomes == [bootstrapFailed : BOOLEAN, executionErr : SUBSET Errors, err : SUBSET Errors,
             reports : Seq(Reports), reportErr : BOOLEAN]

LaneTypes ==
  /\ pc \in [Lanes -> LaneSteps]
  /\ outcome \in [Lanes -> Outcomes]
  /\ network \in [Lanes -> Networks]
  /\ captured \in [Lanes -> Seq(Networks)]
  /\ owed \in [Lanes -> BOOLEAN]
  /\ tokens \in SUBSET Lanes

MainTypes ==
  /\ request \in Requests
  /\ main \in MainSteps
  /\ interrupted \in BOOLEAN
  /\ summary \in Files
  /\ manifest \in Files
  /\ record \in [images : BOOLEAN, fingerprint : BOOLEAN, versions : SUBSET Tools]
  /\ faults \in SUBSET {"snapshot", "summary", "publish"}
  /\ exit \in {"none", "ok", "error"}

TypeOK == LaneTypes /\ MainTypes

-----------------------------------------------------------------------------
(***************************************************************************)
(* A lane at each of its steps.                                            *)
(***************************************************************************)
\* What a lane works on once it has acquired it.
Acquirable == IF Provisions THEN "owned" ELSE "foreign"

Untouched == [bootstrapFailed |-> FALSE, executionErr |-> {}, err |-> {},
              reports |-> <<>>, reportErr |-> FALSE]

SetupSteps == {"mkdir", "log", "images", "manifest", "command", "reports", "close"}

\* The errors of the process are errors of the lane, and a lane whose network
\* could not be acquired has no other evidence.
OutcomeInv(o) ==
  /\ o.executionErr \subseteq o.err
  /\ o.bootstrapFailed => o.reports = <<>> /\ o.err = {"bootstrap"}

BeforeInv(l) ==
  pc[l] \in {"queued", "acquire"} =>
    /\ outcome[l] = Untouched /\ captured[l] = <<>> /\ ~owed[l]
    /\ network[l] \in (IF Provisions THEN {"absent", "foreign"} ELSE {"foreign"})

WorkingInv(l) ==
  /\ pc[l] \in SetupSteps \cup {"diagnose", "release"} =>
       ~outcome[l].bootstrapFailed /\ network[l] = Acquirable
  /\ pc[l] \in SetupSteps => captured[l] = <<>> /\ ~owed[l]
  /\ pc[l] = "diagnose" => captured[l] = <<>> /\ owed[l]
  /\ pc[l] = "release" =>
       /\ captured[l] = IF owed[l] THEN <<Acquirable>> ELSE <<>>
       /\ owed[l] <=> ~Passed(outcome[l])

\* A lane that passed until its network could not be released.
LateInv(l) ==
  pc[l] = "late" =>
    /\ Provisions /\ network[l] \in {"absent", "leaked"}
    /\ ~outcome[l].bootstrapFailed /\ "cleanup" \in outcome[l].err
    /\ captured[l] = <<>> /\ ~owed[l]

DoneInv(l) ==
  pc[l] = "done" =>
    /\ network[l] \in (IF Provisions THEN {"absent", "foreign", "leaked"} ELSE {"foreign"})
    /\ network[l] = "leaked" => {"cleanup", "bootstrap"} \cap outcome[l].err # {}
    /\ outcome[l].bootstrapFailed => ~owed[l]
    /\ ~outcome[l].bootstrapFailed => Len(captured[l]) = IF Passed(outcome[l]) THEN 0 ELSE 1
    /\ owed[l] => captured[l] = <<Acquirable>>

OwedInv(l) == owed[l] => pc[l] \in {"diagnose", "release", "done"} /\ ~Passed(outcome[l])

LaneInv(l) ==
  OutcomeInv(outcome[l]) /\ BeforeInv(l) /\ WorkingInv(l) /\ LateInv(l) /\ DoneInv(l) /\ OwedInv(l)

-----------------------------------------------------------------------------
(***************************************************************************)
(* The places in the semaphore are held by the active lanes; lanes that    *)
(* run in turn start when all before them are done.                        *)
(***************************************************************************)
PlacesInv ==
  IF Parallel
  THEN tokens = Active /\ Cardinality(tokens) <= MaxParallel
  ELSE \A l \in Lanes : pc[l] # "queued" => \A k \in 1 .. (l - 1) : pc[k] = "done"

(***************************************************************************)
(* The main goroutine and its files.                                       *)
(***************************************************************************)
AllQueued == \A l \in Lanes : pc[l] = "queued"
AllDone == \A l \in Lanes : pc[l] = "done"

MainInv ==
  /\ main \in {"plan", "clear", "enrich", "snapshot"} => AllQueued /\ faults = {}
  /\ main = "publish" => AllDone
  /\ main = "exited" => AllQueued \/ AllDone
  /\ exit = "ok" => main = "exited"

FilesInv ==
  /\ main \in {"enrich", "snapshot", "lanes", "publish"} \/ ~AllQueued =>
       summary # "stale" /\ manifest # "stale"
  /\ main = "lanes" /\ faults = {} => manifest = "started"
  /\ main = "publish" /\ faults = {} => summary = Result
  /\ summary \in {"passed", "failed"} => AllDone /\ summary = Result
  /\ manifest \in {"passed", "failed"} => AllDone /\ (manifest = "passed" => AllPassed)
  /\ exit = "ok" => /\ summary = "passed" /\ manifest = "passed"
                    /\ \A l \in Lanes : outcome[l].err = {}

LanesInv == \A l \in Lanes : LaneInv(l)

IInv == TypeOK /\ LanesInv /\ PlacesInv /\ MainInv /\ FilesInv
-----------------------------------------------------------------------------
(***************************************************************************)
(* What joining errors to an outcome does: the result is an outcome again, *)
(* a failure keeps its verdict, and an error makes a pass a failure.       *)
(***************************************************************************)
LEMMA JoinedErrors ==
  ASSUME NEW o \in Outcomes, NEW errors \in SUBSET Errors, ~o.bootstrapFailed, OutcomeInv(o),
         NEW joined, joined = [o EXCEPT !.err = @ \cup errors]
  PROVE  /\ joined \in Outcomes /\ OutcomeInv(joined)
         /\ ~joined.bootstrapFailed /\ joined.err = o.err \cup errors
         /\ ~Passed(o) => Classify(joined) = Classify(o) /\ ~Passed(joined)
         /\ joined.err # {} => ~Passed(joined)
<1>1. /\ joined \in Outcomes /\ joined.err = o.err \cup errors
      /\ joined.bootstrapFailed = o.bootstrapFailed
      /\ joined.executionErr = o.executionErr
      /\ joined.reports = o.reports /\ joined.reportErr = o.reportErr
  BY DEF Outcomes
<1>2. OutcomeInv(joined)
  BY <1>1 DEF OutcomeInv
<1>3. joined.err # {} => Classify(joined) = IF Passed(o) THEN "infrastructure" ELSE Classify(o)
  <2>1. o.reports \in Seq(Reports)
    BY DEF Outcomes
  <2> QED
    BY <1>1, <2>1, JoinedErrorKeepsFailure
<1>4. joined.err = {} => joined = o
  BY <1>1 DEF Outcomes
<1> QED
  BY <1>1, <1>2, <1>3, <1>4 DEF Passed

\* An outcome with an error, or of a lane that could not start, is no pass.
LEMMA ErrorsFail ==
  ASSUME NEW o \in Outcomes, o.err # {} \/ o.bootstrapFailed
  PROVE  ~Passed(o)
<1>1. Passed(o) <=> Clean(o)
  BY PassedMeansClean DEF Outcomes
<1> QED
  BY <1>1 DEF Clean

(***************************************************************************)
(* A step of a lane is taken while the lanes run, by a lane that is not    *)
(* done, and touches the state of no other lane and none of the run.       *)
(***************************************************************************)
LEMMA LaneFrame ==
  ASSUME TypeOK, NEW l \in Lanes, LaneNext(l)
  PROVE  /\ main = "lanes" /\ pc[l] # "done" /\ pc'[l] # "queued"
         /\ UNCHANGED <<request, main, interrupted, summary, manifest, record, faults, exit>>
         /\ \A k \in Lanes \ {l} :
              /\ pc'[k] = pc[k] /\ outcome'[k] = outcome[k] /\ network'[k] = network[k]
              /\ captured'[k] = captured[k] /\ owed'[k] = owed[k]
<1> USE DEF TypeOK, LaneTypes, LaneStep, LaneGoto, files
<1>1. CASE Begin(l)
  BY <1>1 DEF Begin
<1>2. CASE Acquire(l)
  BY <1>2 DEF Acquire, BootstrapFails, Done
<1>3. CASE Prepare(l)
  BY <1>3 DEF Prepare, JoinErr, Decide
<1>4. CASE ResolveImages(l)
  BY <1>4 DEF ResolveImages
<1>5. CASE WriteLaneManifest(l)
  BY <1>5 DEF WriteLaneManifest, JoinErr
<1>6. CASE RunCommand(l)
  BY <1>6 DEF RunCommand
<1>7. CASE CaptureReports(l)
  BY <1>7 DEF CaptureReports
<1>8. CASE CloseLog(l)
  BY <1>8 DEF CloseLog, JoinErr, Decide
<1>9. CASE Diagnose(l)
  BY <1>9 DEF Diagnose, JoinErr, Done
<1>10. CASE Release(l)
  BY <1>10 DEF Release, JoinErr, Done
<1> QED
  BY <1>1, <1>2, <1>3, <1>4, <1>5, <1>6, <1>7, <1>8, <1>9, <1>10 DEF LaneNext

(***************************************************************************)
(* JoinErr replaces one outcome by the one with the errors joined.         *)
(***************************************************************************)
LEMMA JoinErrStep ==
  ASSUME LaneTypes, NEW l \in Lanes, NEW errors \in SUBSET Errors, JoinErr(l, errors)
  PROVE  /\ outcome' \in [Lanes -> Outcomes]
         /\ outcome'[l] = [outcome[l] EXCEPT !.err = @ \cup errors]
<1>1. outcome' = [outcome EXCEPT ![l] = [outcome[l] EXCEPT !.err = @ \cup errors]]
  BY DEF JoinErr
<1>2. outcome[l] \in Outcomes /\ outcome \in [Lanes -> Outcomes]
  BY DEF LaneTypes
<1>3. [outcome[l] EXCEPT !.err = @ \cup errors] \in Outcomes
  BY <1>2 DEF Outcomes
<1> QED
  BY <1>1, <1>2, <1>3

(***************************************************************************)
(* The ways in which a step changes an outcome: the network could not be   *)
(* acquired, the process ended, the reports were captured or could not be. *)
(***************************************************************************)
LEMMA OutcomeUpdates ==
  ASSUME NEW o \in Outcomes
  PROVE  /\ [o EXCEPT !.bootstrapFailed = TRUE, !.err = {"bootstrap"}] \in Outcomes
         /\ \A e1, e2 \in SUBSET Errors : [o EXCEPT !.executionErr = e1, !.err = e2] \in Outcomes
         /\ [o EXCEPT !.reportErr = TRUE] \in Outcomes
         /\ \A r \in ReportChoices : [o EXCEPT !.reports = r] \in Outcomes
<1>1. {"bootstrap"} \in SUBSET Errors
  BY DEF Errors
<1>2. [o EXCEPT !.bootstrapFailed = TRUE, !.err = {"bootstrap"}] \in Outcomes
  BY <1>1 DEF Outcomes
<1>3. ASSUME NEW e1 \in SUBSET Errors, NEW e2 \in SUBSET Errors
      PROVE  [o EXCEPT !.executionErr = e1, !.err = e2] \in Outcomes
  BY DEF Outcomes
<1>4. [o EXCEPT !.reportErr = TRUE] \in Outcomes
  BY DEF Outcomes
<1>5. ASSUME NEW r \in ReportChoices
      PROVE  [o EXCEPT !.reports = r] \in Outcomes
  <2>1. r \in Seq(Reports)
    BY RunnerAssumption
  <2> QED
    BY <2>1 DEF Outcomes
<1> QED
  BY <1>2, <1>3, <1>4, <1>5

(***************************************************************************)
(* The types are preserved.                                                *)
(***************************************************************************)
LEMMA LaneTypesStep ==
  ASSUME TypeOK, NEW l \in Lanes, LaneNext(l)
  PROVE  LaneTypes'
<1> DEFINE Rest == /\ pc' \in [Lanes -> LaneSteps]
                   /\ network' \in [Lanes -> Networks]
                   /\ captured' \in [Lanes -> Seq(Networks)]
                   /\ owed' \in [Lanes -> BOOLEAN]
                   /\ tokens' \in SUBSET Lanes
<1>a. TypeOK /\ LaneTypes
  BY DEF TypeOK
<1>b. outcome[l] \in Outcomes
  BY <1>a DEF LaneTypes
<1> USE <1>a DEF LaneTypes, LaneStep, LaneGoto, LaneSteps, Networks
<1>1. CASE Begin(l)
  BY <1>1 DEF Begin
<1>2. CASE Acquire(l)
  <2>1. /\ UNCHANGED <<captured, owed>>
        /\ \E step \in {"mkdir", "done"} : pc' = [pc EXCEPT ![l] = step]
        /\ tokens' = tokens \/ tokens' = tokens \ {l}
    <3>1. UNCHANGED <<captured, owed>>
      BY <1>2 DEF Acquire
    <3>2. \/ LaneGoto(l, "mkdir") /\ UNCHANGED tokens
          \/ BootstrapFails(l)
      BY <1>2 DEF Acquire
    <3> QED
      BY <3>1, <3>2 DEF BootstrapFails, Done
  <2>a. network' = network \/ \E left \in Networks : network' = [network EXCEPT ![l] = left]
    BY <1>2 DEF Acquire
  <2>b. Rest
    <3>1. pc' \in [Lanes -> LaneSteps]
      BY <2>1
    <3>2. network' \in [Lanes -> Networks]
      BY <2>a
    <3> QED
      BY <2>1, <3>1, <3>2
  <2>2. [outcome[l] EXCEPT !.bootstrapFailed = TRUE, !.err = {"bootstrap"}] \in Outcomes
    BY <1>b, OutcomeUpdates
  <2>3. \/ UNCHANGED outcome
        \/ outcome' = [outcome EXCEPT ![l] =
                         [outcome[l] EXCEPT !.bootstrapFailed = TRUE, !.err = {"bootstrap"}]]
    BY <1>2 DEF Acquire, BootstrapFails
  <2>4. outcome' \in [Lanes -> Outcomes]
    BY <2>2, <2>3
  <2> QED
    BY <2>b, <2>4
<1>3. CASE Prepare(l)
  <2>1. Rest
    BY <1>3 DEF Prepare, Decide
  <2>2. outcome' \in [Lanes -> Outcomes]
    BY <1>3, JoinErrStep DEF Prepare, Errors
  <2> QED
    BY <2>1, <2>2
<1>4. CASE ResolveImages(l)
  <2>1. Rest
    BY <1>4 DEF ResolveImages
  <2>2. [outcome[l] EXCEPT !.executionErr = ContextErr, !.err = {"setup"} \cup ContextErr]
          \in Outcomes
    <3>1. ContextErr \in SUBSET Errors /\ {"setup"} \cup ContextErr \in SUBSET Errors
      BY DEF Errors, ContextErr
    <3> QED
      BY <1>b, <3>1, OutcomeUpdates
  <2>3. \/ UNCHANGED outcome
        \/ outcome' = [outcome EXCEPT ![l] =
             [outcome[l] EXCEPT !.executionErr = ContextErr, !.err = {"setup"} \cup ContextErr]]
    BY <1>4 DEF ResolveImages
  <2>4. outcome' \in [Lanes -> Outcomes]
    BY <2>2, <2>3
  <2> QED
    BY <2>1, <2>4
<1>5. CASE WriteLaneManifest(l)
  <2>1. Rest
    BY <1>5 DEF WriteLaneManifest
  <2>2. outcome' \in [Lanes -> Outcomes]
    BY <1>5, JoinErrStep DEF WriteLaneManifest, Errors
  <2> QED
    BY <2>1, <2>2
<1>6. CASE RunCommand(l)
  <2>1. Rest
    BY <1>6 DEF RunCommand
  <2>2. PICK failed \in SUBSET {"exit"}, ended \in {ContextErr, {"deadline"}} :
          outcome' = [outcome EXCEPT ![l].executionErr = failed \cup ended,
                                     ![l].err = failed \cup ended]
    BY <1>6 DEF RunCommand
  <2>3. failed \cup ended \in SUBSET Errors
    BY DEF ContextErr, Errors
  <2>4. [outcome[l] EXCEPT !.executionErr = failed \cup ended, !.err = failed \cup ended] \in Outcomes
    BY <1>b, <2>3, OutcomeUpdates
  <2>5. outcome' \in [Lanes -> Outcomes]
    BY <2>2, <2>4, outcome' = [outcome EXCEPT ![l] = [outcome[l] EXCEPT
                                 !.executionErr = failed \cup ended, !.err = failed \cup ended]]
  <2> QED
    BY <2>1, <2>5
<1>7. CASE CaptureReports(l)
  <2>1. Rest
    BY <1>7 DEF CaptureReports
  <2>2. [outcome[l] EXCEPT !.reportErr = TRUE] \in Outcomes
    BY <1>b, OutcomeUpdates
  <2>3. \A reports \in ReportChoices : [outcome[l] EXCEPT !.reports = reports] \in Outcomes
    BY <1>b, OutcomeUpdates
  <2>4. outcome' \in [Lanes -> Outcomes]
    BY <1>7, <2>2, <2>3 DEF CaptureReports
  <2> QED
    BY <2>1, <2>4
<1>8. CASE CloseLog(l)
  <2>1. Rest
    BY <1>8 DEF CloseLog, Decide
  <2>2. outcome' \in [Lanes -> Outcomes]
    BY <1>8, JoinErrStep DEF CloseLog, Errors
  <2> QED
    BY <2>1, <2>2
<1>9. CASE Diagnose(l)
  <2>1. Append(captured[l], network[l]) \in Seq(Networks)
    OBVIOUS
  <2>3. Rest
    BY <1>9, <2>1 DEF Diagnose, Done
  <2>2. outcome' \in [Lanes -> Outcomes]
    BY <1>9, JoinErrStep DEF Diagnose, Errors
  <2> QED
    BY <2>2, <2>3
<1>10. CASE Release(l)
  <2>1. Rest
    BY <1>10 DEF Release, Done
  <2>2. outcome' \in [Lanes -> Outcomes]
    BY <1>10, JoinErrStep DEF Release, Errors
  <2> QED
    BY <2>1, <2>2
<1> QED
  BY <1>1, <1>2, <1>3, <1>4, <1>5, <1>6, <1>7, <1>8, <1>9, <1>10 DEF LaneNext

(***************************************************************************)
(* A step of a lane preserves what holds of the lane.                      *)
(***************************************************************************)
LEMMA LaneInvStep ==
  ASSUME TypeOK, NEW l \in Lanes, LaneNext(l), LaneInv(l)
  PROVE  LaneInv(l)'
<1>a. /\ LaneTypes /\ outcome[l] \in Outcomes /\ network[l] \in Networks /\ owed[l] \in BOOLEAN
      /\ captured[l] \in Seq(Networks) /\ pc[l] \in LaneSteps
  BY DEF TypeOK, LaneTypes
<1>b. Provisions' = Provisions /\ Acquirable' = Acquirable
  BY LaneFrame DEF Provisions, Acquirable
<1>c. outcome'[l] \in Outcomes
  BY LaneTypesStep DEF LaneTypes
<1> USE <1>a, <1>b DEF LaneStep, LaneGoto, SetupSteps
<1>1. CASE Begin(l)
  <2>1. pc[l] = "queued" /\ pc'[l] = "acquire" /\ outcome'[l] = outcome[l]
        /\ network'[l] = network[l] /\ captured'[l] = captured[l] /\ owed'[l] = owed[l]
    BY <1>1 DEF Begin, LaneTypes
  <2> QED
    BY <2>1 DEF LaneInv, BeforeInv, WorkingInv, LateInv, DoneInv, OwedInv
<1>2. CASE Acquire(l)
  <2>0. /\ pc[l] = "acquire" /\ captured'[l] = captured[l] /\ owed'[l] = owed[l]
        /\ outcome[l] = Untouched /\ captured[l] = <<>> /\ ~owed[l]
    BY <1>2 DEF Acquire, LaneTypes, LaneInv, BeforeInv
  <2>1. CASE pc'[l] = "mkdir"
    <3>1. outcome'[l] = outcome[l] /\ network'[l] = Acquirable
      BY <1>2, <2>1 DEF Acquire, BootstrapFails, Done, LaneTypes, LaneInv, BeforeInv, Acquirable
    <3> QED
      BY <2>0, <2>1, <3>1 DEF LaneInv, BeforeInv, WorkingInv, LateInv, DoneInv, OwedInv, Untouched
  <2>2. CASE pc'[l] # "mkdir"
    <3>1. pc'[l] = "done" /\ outcome' = [outcome EXCEPT ![l].bootstrapFailed = TRUE, ![l].err = {"bootstrap"}]
      BY <1>2, <2>2 DEF Acquire, BootstrapFails, Done, LaneTypes
    <3>2. /\ outcome'[l].bootstrapFailed /\ outcome'[l].err = {"bootstrap"}
          /\ outcome'[l].executionErr = {} /\ outcome'[l].reports = <<>>
      BY <2>0, <3>1 DEF LaneTypes, Outcomes, Untouched
    <3>3. network'[l] \in (IF Provisions THEN {"absent", "foreign", "leaked"} ELSE {"foreign"})
      BY <1>2, <2>2 DEF Acquire, BootstrapFails, Done, LaneTypes, LaneInv, BeforeInv
    <3> QED
      BY <2>0, <3>1, <3>2, <3>3 DEF LaneInv, OutcomeInv, BeforeInv, WorkingInv, LateInv, DoneInv, OwedInv
  <2> QED
    BY <2>1, <2>2
<1>d. ASSUME NEW errors \in SUBSET Errors, JoinErr(l, errors), ~outcome[l].bootstrapFailed
      PROVE  /\ ~outcome'[l].bootstrapFailed /\ OutcomeInv(outcome'[l])
             /\ outcome'[l].err = outcome[l].err \cup errors
             /\ ~Passed(outcome[l]) => ~Passed(outcome'[l])
             /\ errors # {} => ~Passed(outcome'[l])
             /\ errors = {} => outcome'[l] = outcome[l]
  <2>1. outcome'[l] = [outcome[l] EXCEPT !.err = @ \cup errors]
    BY <1>d, JoinErrStep
  <2>2. OutcomeInv(outcome[l])
    BY DEF LaneInv
  <2>3. errors = {} => outcome'[l] = outcome[l]
    BY <2>1 DEF Outcomes
  <2>4. outcome[l] \in Outcomes
    BY DEF LaneTypes
  <2> HIDE DEF LaneTypes, LaneInv
  <2>5. /\ outcome'[l] \in Outcomes /\ OutcomeInv(outcome'[l])
        /\ ~outcome'[l].bootstrapFailed /\ outcome'[l].err = outcome[l].err \cup errors
        /\ ~Passed(outcome[l]) => Classify(outcome'[l]) = Classify(outcome[l]) /\ ~Passed(outcome'[l])
        /\ outcome'[l].err # {} => ~Passed(outcome'[l])
    <3> DEFINE o == outcome[l]
               joined == outcome'[l]
    <3>1. o \in Outcomes /\ ~o.bootstrapFailed /\ OutcomeInv(o) /\ joined = [o EXCEPT !.err = @ \cup errors]
      BY <1>d, <2>1, <2>2, <2>4
    <3> HIDE DEF o, joined
    <3>2. /\ joined \in Outcomes /\ OutcomeInv(joined)
          /\ ~joined.bootstrapFailed /\ joined.err = o.err \cup errors
          /\ ~Passed(o) => Classify(joined) = Classify(o) /\ ~Passed(joined)
          /\ joined.err # {} => ~Passed(joined)
      BY ONLY <3>1, errors \in SUBSET Errors, JoinedErrors
    <3> QED
      BY <3>2 DEF o, joined
  <2> QED
    BY <2>3, <2>5
\* From the setup to the closing of the log.
<1>e. pc[l] \in SetupSteps =>
        /\ captured[l] = <<>> /\ ~owed[l]
        /\ ~outcome[l].bootstrapFailed /\ network[l] = Acquirable /\ OutcomeInv(outcome[l])
  BY DEF LaneInv, WorkingInv
<1>f. ASSUME pc[l] \in SetupSteps, network'[l] = network[l], captured'[l] = captured[l],
             ~outcome'[l].bootstrapFailed, OutcomeInv(outcome'[l]),
             \/ pc'[l] \in SetupSteps /\ owed'[l] = owed[l]
             \/ Decide(l, outcome'[l])
      PROVE  LaneInv(l)'
  <2>1. CASE pc'[l] \in SetupSteps /\ owed'[l] = owed[l]
    BY <1>e, <1>f, <2>1 DEF LaneInv, BeforeInv, WorkingInv, LateInv, DoneInv, OwedInv
  <2>2. CASE Decide(l, outcome'[l])
    <3>1. /\ owed'[l] = ~Passed(outcome'[l])
          /\ pc'[l] = IF Passed(outcome'[l]) THEN "release" ELSE "diagnose"
      BY <2>2 DEF Decide, LaneTypes
    <3> QED
      BY <1>e, <1>f, <3>1 DEF LaneInv, BeforeInv, WorkingInv, LateInv, DoneInv, OwedInv
  <2> QED
    BY <1>f, <2>1, <2>2
<1>3. CASE Prepare(l)
  <2>1. pc[l] \in SetupSteps /\ UNCHANGED <<network, captured>>
    BY <1>3 DEF Prepare
  <2>2. CASE UNCHANGED <<outcome, owed>>
    <3>1. pc'[l] \in SetupSteps \/ Decide(l, outcome'[l])
      BY <1>3 DEF Prepare, LaneTypes
    <3> QED
      BY <1>e, <1>f, <2>1, <2>2, <3>1
  <2>3. CASE JoinErr(l, {"setup"}) /\ Decide(l, outcome'[l])
    BY <1>d, <1>e, <1>f, <2>1, <2>3 DEF Errors
  <2> QED
    BY <1>3, <2>2, <2>3 DEF Prepare
<1>4. CASE ResolveImages(l)
  <2>1. pc[l] \in SetupSteps /\ pc'[l] \in SetupSteps /\ UNCHANGED <<network, captured, owed>>
    BY <1>4 DEF ResolveImages, LaneTypes
  <2>3. CASE UNCHANGED outcome
    BY <1>e, <1>f, <2>1, <2>3
  <2>4. CASE outcome' = [outcome EXCEPT ![l].executionErr = ContextErr,
                                        ![l].err = {"setup"} \cup ContextErr]
    <3>1. outcome'[l] = [outcome[l] EXCEPT !.executionErr = ContextErr,
                                           !.err = {"setup"} \cup ContextErr]
      BY <2>4 DEF LaneTypes
    <3>2. ~outcome'[l].bootstrapFailed /\ OutcomeInv(outcome'[l])
      BY <1>e, <2>1, <3>1 DEF Outcomes, OutcomeInv
    <3> QED
      BY <1>f, <2>1, <3>2
  <2> QED
    BY <1>4, <2>3, <2>4 DEF ResolveImages
<1>5. CASE WriteLaneManifest(l)
  <2>1. pc[l] \in SetupSteps /\ pc'[l] \in SetupSteps /\ UNCHANGED <<network, captured, owed>>
    BY <1>5 DEF WriteLaneManifest, LaneTypes
  <2>2. UNCHANGED outcome \/ JoinErr(l, {"setup"})
    BY <1>5 DEF WriteLaneManifest
  <2> QED
    BY <1>d, <1>e, <1>f, <2>1, <2>2 DEF Errors
<1>6. CASE RunCommand(l)
  <2>1. pc[l] \in SetupSteps /\ pc'[l] \in SetupSteps /\ UNCHANGED <<network, captured, owed>>
    BY <1>6 DEF RunCommand, LaneTypes
  <2>2. ~outcome'[l].bootstrapFailed /\ OutcomeInv(outcome'[l])
    BY <1>6, <1>e DEF RunCommand, LaneTypes, Outcomes, OutcomeInv
  <2> QED
    BY <1>f, <2>1, <2>2
<1>7. CASE CaptureReports(l)
  <2>1. pc[l] \in SetupSteps /\ pc'[l] \in SetupSteps /\ UNCHANGED <<network, captured, owed>>
    BY <1>7 DEF CaptureReports, LaneTypes
  <2>2. \/ outcome'[l] = [outcome[l] EXCEPT !.reportErr = TRUE]
        \/ \E reports \in ReportChoices : outcome'[l] = [outcome[l] EXCEPT !.reports = reports]
    BY <1>7 DEF CaptureReports, LaneTypes
  <2>3. ~outcome'[l].bootstrapFailed /\ OutcomeInv(outcome'[l])
    BY <1>e, <2>1, <2>2 DEF Outcomes, OutcomeInv
  <2> QED
    BY <1>f, <2>1, <2>3
<1>8. CASE CloseLog(l)
  <2>1. pc[l] \in SetupSteps /\ UNCHANGED <<network, captured>> /\ Decide(l, outcome'[l])
    BY <1>8 DEF CloseLog
  <2>2. PICK error \in SUBSET ({"log"} \cap Faults) : JoinErr(l, error)
    BY <1>8 DEF CloseLog
  <2> QED
    BY <1>d, <1>e, <1>f, <2>1, <2>2 DEF Errors
<1>9. CASE Diagnose(l)
  <2>1. /\ network'[l] = network[l] /\ owed'[l] = owed[l]
        /\ captured'[l] = Append(captured[l], network[l])
    BY <1>9 DEF Diagnose, LaneTypes
  <2>2. PICK error \in SUBSET ({"diagnostics"} \cap Faults) : JoinErr(l, error)
    BY <1>9 DEF Diagnose
  <2>3. ~outcome[l].bootstrapFailed /\ captured[l] = <<>> /\ ~Passed(outcome[l])
    BY <1>9, ErrorsFail DEF Diagnose, LaneInv, WorkingInv, LateInv, OwedInv
  <2>4. captured'[l] = <<network[l]>>
    BY <2>1, <2>3
  <2>5. /\ ~outcome'[l].bootstrapFailed /\ ~Passed(outcome'[l]) /\ OutcomeInv(outcome'[l])
        /\ outcome[l].err \subseteq outcome'[l].err
    BY <1>d, <2>2, <2>3 DEF Errors
  <2>6. CASE pc[l] = "diagnose"
    <3>1. pc'[l] = "release" /\ network[l] = Acquirable /\ owed[l]
      BY <1>9, <2>6 DEF Diagnose, LaneTypes, LaneInv, WorkingInv
    <3> QED
      BY <2>1, <2>4, <2>5, <3>1 DEF LaneInv, BeforeInv, WorkingInv, LateInv, DoneInv, OwedInv
  <2>7. CASE pc[l] = "late"
    <3>1. /\ pc'[l] = "done" /\ Provisions /\ network[l] \in {"absent", "leaked"}
          /\ ~owed[l] /\ "cleanup" \in outcome[l].err
      BY <1>9, <2>7 DEF Diagnose, Done, LaneTypes, LaneInv, LateInv
    <3> QED
      BY <2>1, <2>4, <2>5, <3>1 DEF LaneInv, BeforeInv, WorkingInv, LateInv, DoneInv, OwedInv
  <2> QED
    BY <1>9, <2>6, <2>7 DEF Diagnose
<1>10. CASE Release(l)
  <2>1. /\ pc[l] = "release" /\ captured'[l] = captured[l] /\ owed'[l] = owed[l]
        /\ ~outcome[l].bootstrapFailed /\ network[l] = Acquirable /\ OutcomeInv(outcome[l])
        /\ captured[l] = IF owed[l] THEN <<Acquirable>> ELSE <<>>
        /\ owed[l] <=> ~Passed(outcome[l])
    BY <1>10 DEF Release, LaneTypes, LaneInv, WorkingInv
  <2>2. CASE /\ pc'[l] = "done" /\ UNCHANGED outcome
             /\ network'[l] = IF Provisions THEN "absent" ELSE "foreign"
    BY <2>1, <2>2 DEF LaneInv, BeforeInv, WorkingInv, LateInv, DoneInv, OwedInv
  <2>3. CASE Leased /\ JoinErr(l, {"cleanup"}) /\ network'[l] \in {"absent", "leaked"}
             /\ pc'[l] = IF owed[l] THEN "done" ELSE "late"
    <3>1. /\ ~outcome'[l].bootstrapFailed /\ OutcomeInv(outcome'[l])
          /\ ~Passed(outcome'[l]) /\ "cleanup" \in outcome'[l].err
      BY <1>d, <2>1, <2>3 DEF Errors
    <3> QED
      BY <2>1, <2>3, <3>1 DEF Leased, LaneInv, BeforeInv, WorkingInv, LateInv, DoneInv, OwedInv
  <2> QED
    BY <1>10, <2>1, <2>2, <2>3 DEF Release, Done, Leased, Acquirable, LaneTypes
<1> QED
  BY <1>1, <1>2, <1>3, <1>4, <1>5, <1>6, <1>7, <1>8, <1>9, <1>10 DEF LaneNext

\* The lanes, and any set of them, are finite.
LEMMA LanesFinite == IsFiniteSet(Lanes) /\ \A S \in SUBSET Lanes : IsFiniteSet(S)
<1>1. IsFiniteSet(Lanes)
  BY RunnerAssumption, FS_Interval DEF Lanes
<1> QED
  BY <1>1, FS_Subset

(***************************************************************************)
(* A lane that begins takes a free place, or waits for those before it; a  *)
(* lane that ends gives its place back.                                    *)
(***************************************************************************)
LEMMA PlacesStep ==
  ASSUME TypeOK, PlacesInv, NEW l \in Lanes, LaneNext(l)
  PROVE  PlacesInv'
<1>a. /\ pc \in [Lanes -> LaneSteps] /\ tokens \in SUBSET Lanes
      /\ pc' \in [Lanes -> LaneSteps] /\ tokens' \in SUBSET Lanes
      /\ pc[l] # "done" /\ pc'[l] # "queued"
      /\ \A k \in Lanes \ {l} : pc'[k] = pc[k]
  BY LaneTypesStep, LaneFrame DEF TypeOK, LaneTypes
<1>b. Active' = {k \in Lanes : pc'[k] \notin {"queued", "done"}}
  BY DEF Active
<1>1. CASE Parallel /\ Begin(l)
  <2>1. /\ pc[l] = "queued" /\ pc'[l] = "acquire" /\ tokens' = tokens \cup {l}
        /\ Cardinality(tokens) < MaxParallel
    BY <1>1, <1>a DEF Begin, LaneStep, LaneGoto, Room
  <2>2. tokens' = Active'
    BY <1>1, <1>a, <1>b, <2>1 DEF PlacesInv, Active
  <2>3. Cardinality(tokens') <= MaxParallel
    BY <1>a, <2>1, LanesFinite, FS_AddElement, FS_CardinalityType, RunnerAssumption
  <2> QED
    BY <1>1, <2>2, <2>3 DEF PlacesInv
<1>2. CASE Parallel /\ ~Begin(l)
  <2>1. /\ pc[l] \notin {"queued", "done"}
        /\ \/ pc'[l] = "done" /\ tokens' = tokens \ {l}
           \/ pc'[l] # "done" /\ tokens' = tokens
    <3> USE <1>2, <1>a DEF LaneNext, LaneStep, LaneGoto
    <3>2. CASE Acquire(l)
      BY <3>2 DEF Acquire, BootstrapFails, Done
    <3>3. CASE Prepare(l)
      BY <3>3 DEF Prepare, Decide
    <3>4. CASE ResolveImages(l)
      BY <3>4 DEF ResolveImages
    <3>5. CASE WriteLaneManifest(l)
      BY <3>5 DEF WriteLaneManifest
    <3>6. CASE RunCommand(l) \/ CaptureReports(l)
      BY <3>6 DEF RunCommand, CaptureReports
    <3>7. CASE CloseLog(l)
      BY <3>7 DEF CloseLog, Decide
    <3>8. CASE Diagnose(l)
      BY <3>8 DEF Diagnose, Done
    <3>9. CASE Release(l)
      BY <3>9 DEF Release, Done
    <3> QED
      BY <3>2, <3>3, <3>4, <3>5, <3>6, <3>7, <3>8, <3>9
  <2>2. tokens' = Active'
    BY <1>2, <1>a, <1>b, <2>1 DEF PlacesInv, Active
  <2>3. tokens' \subseteq tokens
    BY <2>1
  <2>4. Cardinality(tokens') <= Cardinality(tokens)
    BY <1>a, <2>3, LanesFinite, FS_Subset
  <2>5. Cardinality(tokens) \in Nat /\ Cardinality(tokens') \in Nat /\ MaxParallel \in Nat
    BY <1>a, LanesFinite, FS_CardinalityType, RunnerAssumption
  <2> QED
    BY <1>2, <2>2, <2>4, <2>5 DEF PlacesInv
<1>3. CASE ~Parallel
  <2>1. \A k \in Lanes : pc[k] # "queued" => \A j \in 1 .. (k - 1) : pc[j] = "done"
    BY <1>3 DEF PlacesInv
  <2>2. pc[l] = "queued" => \A j \in 1 .. (l - 1) : pc[j] = "done"
    <3>1. pc[l] = "queued" => Begin(l)
      BY DEF LaneNext, LaneStep, Acquire, Prepare, ResolveImages, WriteLaneManifest, RunCommand,
             CaptureReports, CloseLog, Diagnose, Release
    <3> QED
      BY <1>3, <3>1 DEF Begin
  <2>3. \A k \in Lanes : k # l /\ pc[k] # "queued" => l \notin 1 .. (k - 1)
    BY <1>a, <2>1
  <2>4. ASSUME NEW k \in Lanes, pc'[k] # "queued", NEW j \in 1 .. (k - 1)
        PROVE  pc'[j] = "done"
    <3>1. j \in Lanes
      BY RunnerAssumption DEF Lanes
    <3>2. k # l => pc[k] # "queued" /\ pc[j] = "done"
      BY <1>a, <2>1, <2>4
    <3>3. k = l => pc[j] = "done"
      BY <2>1, <2>2, <2>4
    <3>4. j # l
      BY <1>a, <3>2, <3>3, RunnerAssumption DEF Lanes
    <3> QED
      BY <1>a, <3>1, <3>2, <3>3, <3>4
  <2> QED
    BY <1>3, <2>4 DEF PlacesInv
<1> QED
  BY <1>1, <1>2, <1>3

-----------------------------------------------------------------------------
(***************************************************************************)
(* The steps of the main goroutine, the interrupt and the death of the     *)
(* process leave the lanes alone.                                          *)
(***************************************************************************)
RunStep == MainNext \/ Interrupt \/ Kill

LEMMA RunStepKeepsLanes ==
  ASSUME RunStep, LaneTypes, LanesInv, PlacesInv
  PROVE  UNCHANGED <<request, lane>> /\ LaneTypes' /\ LanesInv' /\ PlacesInv'
<1>1. UNCHANGED <<request, lane>>
  BY DEF RunStep, MainNext, Plan, ClearArtifacts, Enrich, WriteSnapshot, Summarize, Publish,
         Interrupt, Kill, files
<1> USE <1>1 DEF lane
<1>2. LaneTypes'
  BY DEF LaneTypes
<1>3. LanesInv'
  BY DEF LanesInv, LaneInv, OutcomeInv, BeforeInv, WorkingInv, LateInv, DoneInv, OwedInv,
         Acquirable, Provisions
<1>4. PlacesInv'
  BY DEF PlacesInv, Active
<1> QED
  BY <1>1, <1>2, <1>3, <1>4

LEMMA RunStepTypes ==
  ASSUME MainTypes, RunStep
  PROVE  MainTypes'
<1> USE DEF MainTypes, MainSteps, Files, files
<1>1. CASE Plan \/ ClearArtifacts \/ WriteSnapshot
  BY <1>1 DEF Plan, ClearArtifacts, WriteSnapshot
<1>2. CASE Enrich
  BY <1>2, RunnerAssumption DEF Enrich, Described, NoRecord, Provisions
<1>3. CASE Summarize \/ Publish
  BY <1>3 DEF Summarize, Publish, Result
<1>4. CASE Interrupt
  BY <1>4 DEF Interrupt
<1>5. CASE Kill
  BY <1>5 DEF Kill
<1> QED
  BY <1>1, <1>2, <1>3, <1>4, <1>5 DEF RunStep, MainNext

(***************************************************************************)
(* What the run may be at, and what its files may say.                     *)
(***************************************************************************)
LEMMA RunStepInv ==
  ASSUME TypeOK, MainInv, FilesInv, RunStep, UNCHANGED <<request, lane>>
  PROVE  MainInv' /\ FilesInv'
<1>1. /\ AllQueued' = AllQueued /\ AllDone' = AllDone /\ AllPassed' = AllPassed
      /\ Result' = Result /\ UNCHANGED outcome
  BY DEF lane, AllQueued, AllDone, AllPassed, Result
<1>2. \E l \in Lanes : TRUE
  BY RunnerAssumption DEF Lanes
<1>3. ~(AllQueued /\ AllDone)
  BY <1>2 DEF AllQueued, AllDone
<1>4. Result \in {"passed", "failed"} /\ (Result = "passed" <=> AllPassed)
  BY DEF Result
<1> USE <1>1, <1>3, <1>4 DEF TypeOK, MainTypes, MainSteps, Files, MainInv, FilesInv
<1>5. CASE Plan
  BY <1>5 DEF Plan
<1>6. CASE ClearArtifacts
  BY <1>6 DEF ClearArtifacts
<1>7. CASE Enrich
  BY <1>7 DEF Enrich
<1>8. CASE WriteSnapshot
  BY <1>8 DEF WriteSnapshot
<1>9. CASE Summarize
  BY <1>9 DEF Summarize, AllDone
<1>10. CASE Publish
  BY <1>10 DEF Publish
<1>11. CASE Interrupt
  BY <1>11 DEF Interrupt, files
<1>12. CASE Kill
  BY <1>12 DEF Kill, Ended, AllDone
<1> QED
  BY <1>5, <1>6, <1>7, <1>8, <1>9, <1>10, <1>11, <1>12 DEF RunStep, MainNext

(***************************************************************************)
(* A step of a lane: the files of the run are not final yet.               *)
(***************************************************************************)
LEMMA LaneStepInv ==
  ASSUME IInv, NEW l \in Lanes, LaneNext(l)
  PROVE  IInv'
<1>1. TypeOK'
  BY LaneTypesStep, LaneFrame DEF IInv, TypeOK, MainTypes
<1>2. LanesInv'
  <2>1. LaneInv(l)'
    BY LaneInvStep DEF IInv, LanesInv
  <2>2. ASSUME NEW k \in Lanes \ {l}
        PROVE  LaneInv(k)'
    <3>1. /\ pc'[k] = pc[k] /\ outcome'[k] = outcome[k] /\ network'[k] = network[k]
          /\ captured'[k] = captured[k] /\ owed'[k] = owed[k] /\ request' = request
      BY LaneFrame DEF IInv
    <3> QED
      BY <3>1 DEF IInv, LanesInv, LaneInv, OutcomeInv, BeforeInv, WorkingInv, LateInv, DoneInv,
                  OwedInv, Acquirable, Provisions
  <2> QED
    BY <2>1, <2>2 DEF LanesInv
<1>3. PlacesInv'
  BY PlacesStep DEF IInv
<1>4. /\ main = "lanes" /\ ~AllDone /\ ~AllQueued'
      /\ UNCHANGED <<main, summary, manifest, faults, exit>>
  BY LaneFrame DEF IInv, AllDone, AllQueued
<1>5. MainInv' /\ FilesInv'
  BY <1>4 DEF IInv, MainInv, FilesInv
<1> QED
  BY <1>1, <1>2, <1>3, <1>5 DEF IInv

LEMMA InvInit == Init => IInv
<1> SUFFICES ASSUME Init
             PROVE  IInv
  OBVIOUS
<1>1. TypeOK
  <2>1. LaneTypes
    BY DEF Init, LaneTypes, LaneSteps, Outcomes, Networks
  <2>2. MainTypes
    BY DEF Init, MainTypes, MainSteps, Files, NoRecord
  <2> QED
    BY <2>1, <2>2 DEF TypeOK
<1>2. LanesInv
  <2>1. ASSUME NEW l \in Lanes
        PROVE  LaneInv(l)
    <3>1. /\ pc[l] = "queued" /\ outcome[l] = Untouched /\ captured[l] = <<>> /\ ~owed[l]
          /\ network[l] \in (IF Provisions THEN {"absent", "foreign"} ELSE {"foreign"})
      BY DEF Init, Untouched
    <3> QED
      BY <3>1 DEF LaneInv, OutcomeInv, BeforeInv, WorkingInv, LateInv, DoneInv, OwedInv,
                  SetupSteps, Untouched
  <2> QED
    BY <2>1 DEF LanesInv
<1>3. PlacesInv
  <2>1. tokens = {} /\ Active = {}
    BY DEF Init, Active
  <2>2. Cardinality(tokens) <= MaxParallel
    BY <2>1, FS_EmptySet, RunnerAssumption
  <2>3. \A l \in Lanes : pc[l] = "queued"
    BY DEF Init
  <2> QED
    BY <2>1, <2>2, <2>3 DEF PlacesInv
<1>4. MainInv /\ FilesInv
  BY DEF Init, MainInv, FilesInv, AllQueued
<1> QED
  BY <1>1, <1>2, <1>3, <1>4 DEF IInv

LEMMA InvStep == IInv /\ [Next]_vars => IInv'
<1> SUFFICES ASSUME IInv, [Next]_vars
             PROVE  IInv'
  OBVIOUS
<1>1. ASSUME NEW l \in Lanes, LaneNext(l)
      PROVE  IInv'
  BY <1>1, LaneStepInv
<1>2. CASE RunStep
  <2>1. UNCHANGED <<request, lane>> /\ LaneTypes' /\ LanesInv' /\ PlacesInv'
    BY <1>2, RunStepKeepsLanes DEF IInv, TypeOK
  <2>2. MainTypes'
    BY <1>2, RunStepTypes DEF IInv, TypeOK
  <2>3. MainInv' /\ FilesInv'
    BY <1>2, <2>1, RunStepInv DEF IInv
  <2> QED
    BY <2>1, <2>2, <2>3 DEF IInv, TypeOK
<1>3. CASE UNCHANGED vars
  BY <1>3 DEF vars, lane, files, IInv, TypeOK, LaneTypes, MainTypes, LanesInv, LaneInv, OutcomeInv,
              BeforeInv, WorkingInv, LateInv, DoneInv, OwedInv, Acquirable, Provisions, PlacesInv,
              Active, MainInv, FilesInv, AllQueued, AllDone, AllPassed, Result
<1> QED
  BY <1>1, <1>2, <1>3 DEF Next, RunStep

LEMMA InvCorrect == Spec => []IInv
  BY InvInit, InvStep, PTL DEF Spec

-----------------------------------------------------------------------------
(***************************************************************************)
(* The types of Runner.                                                    *)
(***************************************************************************)
THEOREM TypeCorrect == Spec => []TypeOK
<1>1. IInv => TypeOK
  BY DEF IInv
<1> QED
  BY <1>1, InvCorrect, PTL

(***************************************************************************)
(* However many lanes there are, no more than MaxParallel of them, and     *)
(* only one without parallelism, work on a network at a time: the active   *)
(* lanes are those in the semaphore, or each waits for those before it.    *)
(***************************************************************************)
THEOREM LanesAreBounded == Spec => []BoundedParallelism
<1>1. ASSUME IInv
      PROVE  BoundedParallelism
  <2>1. CASE Parallel
    BY <1>1, <2>1 DEF IInv, PlacesInv, BoundedParallelism
  <2>2. CASE ~Parallel
    <3>1. \A k, l \in Active : k = l
      <4>1. ASSUME NEW k \in Active, NEW l \in Active, k < l
            PROVE  FALSE
        <5>1. k \in Nat /\ l \in Nat /\ k \in 1 .. (l - 1)
          BY <4>1, RunnerAssumption DEF Active, Lanes
        <5> QED
          BY <1>1, <2>2, <5>1 DEF IInv, PlacesInv, Active
      <4>2. Active \subseteq Nat
        BY RunnerAssumption DEF Active, Lanes
      <4> QED
        BY <4>1, <4>2
    <3>2. Active = {} \/ \E l : Active = {l}
      BY <3>1
    <3>3. Cardinality(Active) \in {0, 1}
      BY <3>2, FS_EmptySet, FS_Singleton
    <3> QED
      BY <2>2, <3>3 DEF BoundedParallelism
  <2> QED
    BY <2>1, <2>2
<1> QED
  BY <1>1, InvCorrect, PTL

(***************************************************************************)
(* Whatever happens to a lane, its verdict is passed exactly when nothing  *)
(* went wrong in it.                                                       *)
(***************************************************************************)
THEOREM OutcomesAreHonest == Spec => []PassesAreClean
<1>1. ASSUME IInv, NEW l \in Lanes
      PROVE  Passed(outcome[l]) <=> Clean(outcome[l])
  <2>1. outcome[l] \in Outcomes
    BY <1>1 DEF IInv, TypeOK, LaneTypes
  <2> QED
    BY <2>1, PassedMeansClean DEF Outcomes
<1>2. IInv => PassesAreClean
  BY <1>1 DEF PassesAreClean
<1> QED
  BY <1>2, InvCorrect, PTL

(***************************************************************************)
(* A lane that failed was diagnosed once, while its network was alive if   *)
(* it had failed before the cleanup; one that passed was not diagnosed.    *)
(***************************************************************************)
THEOREM FailuresAreDiagnosed == Spec => []DiagnosedOnceWhileAlive
<1>1. IInv => DiagnosedOnceWhileAlive
  BY DEF IInv, LanesInv, LaneInv, DoneInv, DiagnosedOnceWhileAlive, Acquired, Acquirable
<1> QED
  BY <1>1, InvCorrect, PTL

(***************************************************************************)
(* From the moment a lane has failed, no error of its diagnostics or of    *)
(* its cleanup changes the verdict.                                        *)
(***************************************************************************)
THEOREM VerdictsStand == Spec => VerdictNeverMasked
<1>1. ASSUME IInv, [Next]_vars, NEW l \in Lanes, owed[l]
      PROVE  LaneVerdict(l)' = LaneVerdict(l)
  <2>1. /\ pc[l] \in {"diagnose", "release", "done"} /\ ~Passed(outcome[l])
        /\ outcome[l] \in Outcomes /\ OutcomeInv(outcome[l]) /\ LaneTypes
    BY <1>1 DEF IInv, TypeOK, LaneTypes, LanesInv, LaneInv, OwedInv
  <2>2. CASE outcome'[l] = outcome[l]
    BY <2>2 DEF LaneVerdict
  <2>3. ASSUME NEW errors \in SUBSET Errors, JoinErr(l, errors), ~outcome[l].bootstrapFailed
        PROVE  LaneVerdict(l)' = LaneVerdict(l)
    <3>1. outcome'[l] = [outcome[l] EXCEPT !.err = @ \cup errors]
      BY <2>1, <2>3, JoinErrStep
    <3>2. outcome[l] \in Outcomes /\ OutcomeInv(outcome[l]) /\ ~Passed(outcome[l])
      BY <2>1
    <3>3. ~Passed(outcome[l]) => Classify(outcome'[l]) = Classify(outcome[l]) /\ ~Passed(outcome'[l])
      BY <2>3, <3>1, <3>2, JoinedErrors
    <3> QED
      BY <3>2, <3>3 DEF LaneVerdict
  <2>4. CASE LaneNext(l)
    <3>1. Diagnose(l) \/ Release(l)
      BY <2>1, <2>4 DEF LaneNext, LaneStep, Begin, Acquire, Prepare, ResolveImages,
                        WriteLaneManifest, RunCommand, CaptureReports, CloseLog
    <3>2. ~outcome[l].bootstrapFailed
      BY <1>1, <2>1, <2>4, LaneFrame DEF IInv, LanesInv, LaneInv, WorkingInv
    <3>3. UNCHANGED outcome \/ \E errors \in SUBSET Errors : JoinErr(l, errors)
      BY <3>1 DEF Diagnose, Release, Errors
    <3> QED
      BY <2>2, <2>3, <3>2, <3>3
  <2>5. CASE \E k \in Lanes \ {l} : LaneNext(k)
    BY <1>1, <2>2, <2>5, LaneFrame DEF IInv
  <2>6. CASE RunStep \/ UNCHANGED vars
    BY <1>1, <2>2, <2>6, RunStepKeepsLanes DEF IInv, TypeOK, lane, vars
  <2> QED
    BY <1>1, <2>4, <2>5, <2>6 DEF Next, RunStep
<1>2. IInv /\ [Next]_vars => [\A l \in Lanes : owed[l] => LaneVerdict(l)' = LaneVerdict(l)]_vars
  BY <1>1
<1> QED
  BY <1>2, InvCorrect, PTL DEF Spec, VerdictNeverMasked

(***************************************************************************)
(* A run the harness could not finish leaves the manifest it started with. *)
(***************************************************************************)
THEOREM SnapshotIsKept == Spec => []SnapshotSurvives
<1>1. IInv => SnapshotSurvives
  BY DEF IInv, TypeOK, MainTypes, Files, FilesInv, AllQueued, AllDone, SnapshotSurvives
<1> QED
  BY <1>1, InvCorrect, PTL

(***************************************************************************)
(* When a run has ended no lane holds its network: it was released, or the *)
(* lane reports that it could not be; an attached network is never stopped.*)
(***************************************************************************)
THEOREM NetworksAreReleased == Spec => []ReleasedOrReported
<1>1. ASSUME IInv
      PROVE  ReleasedOrReported
  <2>1. \A l \in Lanes : pc[l] = "done" =>
           /\ network[l] # "owned"
           /\ network[l] = "leaked" => {"cleanup", "bootstrap"} \cap outcome[l].err # {}
    BY <1>1 DEF IInv, LanesInv, LaneInv, DoneInv
  <2>2. ~Provisions => \A l \in Lanes : network[l] = "foreign"
    BY <1>1 DEF IInv, TypeOK, LaneTypes, LaneSteps, LanesInv, LaneInv, BeforeInv, WorkingInv,
                LateInv, DoneInv, SetupSteps, Acquirable
  <2> QED
    BY <1>1, <2>1, <2>2 DEF IInv, MainInv, AllQueued, AllDone, ReleasedOrReported
<1> QED
  BY <1>1, InvCorrect, PTL

(***************************************************************************)
(* A run that reports success published it and left nothing behind; no     *)
(* artifact claims a success that was none; and what a reader of           *)
(* summary.md sees of a finished lane is its verdict.                      *)
(***************************************************************************)
THEOREM PublishedIsTrue == Spec => []PublishedVerdict
<1>1. ASSUME IInv, NEW l \in Lanes, FinishedLane(l)
      PROVE  MarkdownFails(outcome[l]) <=> ~Passed(outcome[l])
  <2>1. outcome[l] \in Outcomes /\ OutcomeInv(outcome[l])
    BY <1>1 DEF IInv, TypeOK, LaneTypes, LanesInv, LaneInv
  <2>2. /\ outcome[l].reports \in Seq(Reports)
        /\ outcome[l].bootstrapFailed \in BOOLEAN /\ outcome[l].reportErr \in BOOLEAN
    BY <2>1 DEF Outcomes
  <2>3. /\ outcome[l].bootstrapFailed => outcome[l].err # {}
        /\ outcome[l].executionErr \cap {"canceled", "deadline"} # {} => outcome[l].err # {}
    BY <2>1 DEF OutcomeInv
  <2> QED
    BY <2>2, <2>3, MarkdownShowsFailures
<1>2. ASSUME IInv, exit = "ok"
      PROVE  /\ summary = "passed" /\ manifest = "passed"
             /\ \A l \in Lanes : network[l] \notin {"owned", "leaked"}
  <2>1. /\ summary = "passed" /\ manifest = "passed" /\ AllDone
        /\ \A l \in Lanes : outcome[l].err = {}
    BY <1>2 DEF IInv, FilesInv
  <2> QED
    BY <1>2, <2>1 DEF IInv, LanesInv, LaneInv, DoneInv, AllDone
<1>3. ASSUME IInv, "passed" \in {summary, manifest}
      PROVE  \A l \in Lanes : Passed(outcome[l]) /\ FinishedLane(l)
  <2>1. AllDone /\ AllPassed
    BY <1>3 DEF IInv, FilesInv, Result
  <2> QED
    BY <2>1 DEF AllDone, AllPassed, FinishedLane
<1>4. IInv => PublishedVerdict
  BY <1>1, <1>2, <1>3 DEF PublishedVerdict
<1> QED
  BY <1>4, InvCorrect, PTL

=============================================================================
