------------------------------- MODULE Runner -------------------------------
(***************************************************************************)
(* e2e/runner: one run of qrltest over a list of lanes.  A lane acquires a *)
(* network (provisioned for it, or an existing one it attaches to), runs   *)
(* its suites in a child process, diagnoses a failure, releases what it    *)
(* owns, and leaves one outcome.  Lanes run one after the other or under a *)
(* semaphore; the main goroutine then publishes the summary and the run    *)
(* manifest and exits.                                                     *)
(*                                                                         *)
(* The network manager is seen through its promises (module EnclaveSlot):  *)
(* a start or a stop that fails may leave the network behind.              *)
(***************************************************************************)
EXTENDS Verdict, FiniteSets

CONSTANTS
  NumLanes,          \* number of selected lanes
  MaxParallel,       \* Config.MaxParallel
  Requests,          \* what the command line can ask for, as far as it can be refused
  Tools,             \* the tools the run manifest asks for their version
  ReportChoices,     \* the report lists a test process can leave
  Faults             \* the steps that may fail for a reason outside the model

Lanes == 1 .. NumLanes
Parallel == MaxParallel >= 2 /\ NumLanes >= 2

ASSUME RunnerAssumption ==
  /\ NumLanes \in Nat \ {0}
  /\ MaxParallel \in Nat
  /\ Requests \subseteq [command : {"test", "run", "run-all"}, invalid : BOOLEAN,
                        customParameters : BOOLEAN, selectsSuites : BOOLEAN,
                        restartsServices : BOOLEAN]
  /\ ReportChoices \subseteq Seq(Reports)
  /\ Faults \subseteq {"acquire", "setup", "command", "report", "log", "diagnostics",
                     "cleanup", "files"}

VARIABLES
  request,      \* the command, whether its arguments are invalid, Config.Parameters and
                \* Suites, and whether a selected lane restarts its services
  main,         \* the step the main goroutine is at
  pc,           \* pc[l]: the step lane l is at
  outcome,      \* outcome[l]: the results.Outcome of lane l
  network,      \* network[l]: the enclave under the name of lane l
  captured,     \* captured[l]: what the lane's diagnostics found, <<>> if none
  owed,         \* owed[l]: the lane failed before its cleanup
  tokens,       \* the lanes that hold a place in the semaphore
  interrupted,  \* the context of the run is canceled
  summary,      \* summary.json on disk
  manifest,     \* run-manifest.json on disk
  record,       \* what the run manifest says of the networks and the tools
  faults,       \* the artifacts whose writing failed
  exit          \* the result of Runner.run

lane == <<pc, outcome, network, captured, owed, tokens>>
files == <<summary, manifest, record, faults, exit>>
vars == <<request, main, lane, interrupted, files>>

\* The mode provisions a network for each lane; otherwise it attaches to one.
Provisions == request.command # "test"

LaneSteps == {"queued", "acquire", "mkdir", "log", "images", "manifest", "command",
              "reports", "close", "diagnose", "release", "late", "done"}
MainSteps == {"plan", "clear", "enrich", "snapshot", "lanes", "summary", "publish", "exited", "killed"}
Files == {"none", "stale", "torn", "started", "passed", "failed"}

\* The context of every lane descends from the context of the run, so what
\* can be seen of either one is the same.
ContextErr == IF interrupted THEN {"canceled"} ELSE {}

NoRecord == [images |-> FALSE, fingerprint |-> FALSE, versions |-> {}]

Init ==
  /\ request \in Requests
  /\ main = "plan"
  /\ pc = [l \in Lanes |-> "queued"]
  /\ outcome = [l \in Lanes |-> [bootstrapFailed |-> FALSE, executionErr |-> {}, err |-> {},
                                 reports |-> <<>>, reportErr |-> FALSE]]
  /\ network \in [Lanes -> IF Provisions THEN {"absent", "foreign"} ELSE {"foreign"}]
  /\ captured = [l \in Lanes |-> <<>>]
  /\ owed = [l \in Lanes |-> FALSE]
  /\ tokens = {}
  /\ interrupted = FALSE
  /\ summary \in {"none", "stale"}
  /\ manifest \in {"none", "stale"}
  /\ record = NoRecord
  /\ faults = {}
  /\ exit = "none"

-----------------------------------------------------------------------------
(***************************************************************************)
(* executeLane, one action per statement that can fail.                    *)
(***************************************************************************)
LaneGoto(l, step) == pc' = [pc EXCEPT ![l] = step]
\* Faulty: the end of a cleanup context is joined to the errors of the process.
JoinExecutionErr(l, errors) ==
  outcome' = [outcome EXCEPT ![l].err = @ \cup errors,
                             ![l].executionErr = IF errors = {} THEN @ ELSE {"deadline"}]

JoinErr(l, errors) == outcome' = [outcome EXCEPT ![l].err = @ \cup errors]

MayFail(step) == step \in Faults
LaneVerdict(l) == Classify(outcome[l])

LaneStep(l, from) == main = "lanes" /\ pc[l] = from

\* Faulty: one lane too many.
RoomForOneMore == Cardinality(tokens) <= MaxParallel

Room == Cardinality(tokens) < MaxParallel

\* A lane runs alone in its turn, or once it has sent into the semaphore.
Begin(l) ==
  /\ LaneStep(l, "queued")
  /\ IF Parallel
     THEN Room /\ tokens' = tokens \cup {l}
     ELSE (\A k \in 1 .. (l - 1) : pc[k] = "done") /\ UNCHANGED tokens
  /\ LaneGoto(l, "acquire")
  /\ UNCHANGED <<request, main, outcome, network, captured, owed, interrupted, files>>

\* Faulty: the place in the semaphore is kept.
DoneKeepingPlace(l) ==
  /\ LaneGoto(l, "done")
  /\ UNCHANGED tokens

\* The deferred receive of the goroutine runs whatever runLane did.
Done(l) ==
  /\ LaneGoto(l, "done")
  /\ tokens' = tokens \ {l}

BootstrapFails(l) ==
  /\ outcome' = [outcome EXCEPT ![l].bootstrapFailed = TRUE, ![l].err = {"bootstrap"}]
  /\ Done(l)

\* Start on a name in use fails and leaves that network alone; Start that fails
\* later reclaims its enclave, or reports that it could not.
Acquire(l) ==
  /\ LaneStep(l, "acquire")
  /\ \/ /\ Provisions /\ ~interrupted /\ network[l] = "absent"
        /\ network' = [network EXCEPT ![l] = "owned"]
        /\ LaneGoto(l, "mkdir") /\ UNCHANGED <<outcome, tokens>>
     \/ /\ Provisions /\ MayFail("acquire") /\ network[l] = "absent"
        /\ \E left \in {"absent", "leaked"} : network' = [network EXCEPT ![l] = left]
        /\ BootstrapFails(l)
     \/ /\ Provisions /\ (interrupted \/ network[l] = "foreign")
        /\ BootstrapFails(l) /\ UNCHANGED network
     \/ /\ ~Provisions /\ ~interrupted
        /\ LaneGoto(l, "mkdir") /\ UNCHANGED <<outcome, network, tokens>>
     \/ /\ ~Provisions /\ (interrupted \/ MayFail("acquire"))
        /\ BootstrapFails(l) /\ UNCHANGED network
  /\ UNCHANGED <<request, main, captured, owed, interrupted, files>>

\* Faulty: the exit of the test process decides instead of the verdict.
DecideByProcess(l, result) ==
  /\ owed' = [owed EXCEPT ![l] = result.executionErr # {}]
  /\ LaneGoto(l, IF result.executionErr = {} THEN "release" ELSE "diagnose")

\* The end of the deferred block's first part: the verdict decides whether the
\* lane is diagnosed before it is released.
Decide(l, result) ==
  /\ owed' = [owed EXCEPT ![l] = ~Passed(result)]
  /\ LaneGoto(l, IF Passed(result) THEN "release" ELSE "diagnose")

\* MkdirAll and OpenFile: on an error there is no log to close yet.
Prepare(l) ==
  /\ \/ LaneStep(l, "mkdir") /\ LaneGoto(l, "log") /\ UNCHANGED <<outcome, owed>>
     \/ LaneStep(l, "log") /\ LaneGoto(l, "images") /\ UNCHANGED <<outcome, owed>>
     \/ /\ MayFail("setup")
        /\ LaneStep(l, "mkdir") \/ LaneStep(l, "log")
        /\ JoinErr(l, {"setup"})
        /\ Decide(l, outcome'[l])
  /\ UNCHANGED <<request, main, network, captured, tokens, interrupted, files>>

ResolveImages(l) ==
  /\ LaneStep(l, "images")
  /\ \/ LaneGoto(l, "manifest") /\ UNCHANGED outcome
     \/ /\ interrupted \/ MayFail("setup")
        /\ outcome' = [outcome EXCEPT ![l].executionErr = ContextErr,
                                      ![l].err = {"setup"} \cup ContextErr]
        /\ LaneGoto(l, "close")
  /\ UNCHANGED <<request, main, network, captured, owed, tokens, interrupted, files>>

WriteLaneManifest(l) ==
  /\ LaneStep(l, "manifest")
  /\ \/ LaneGoto(l, "command") /\ UNCHANGED outcome
     \/ MayFail("setup") /\ LaneGoto(l, "close") /\ JoinErr(l, {"setup"})
  /\ UNCHANGED <<request, main, network, captured, owed, tokens, interrupted, files>>

\* The process exits zero or not, and the lane's deadline may have passed.
\* Neither implies anything about the report it leaves.
RunCommand(l) ==
  /\ LaneStep(l, "command")
  /\ \E failed \in SUBSET {"exit"}, ended \in {ContextErr, {"deadline"}} :
       /\ MayFail("command") \/ (failed = {} /\ ended = ContextErr)
       /\ outcome' = [outcome EXCEPT ![l].executionErr = failed \cup ended,
                                     ![l].err = failed \cup ended]
  /\ LaneGoto(l, "reports")
  /\ UNCHANGED <<request, main, network, captured, owed, tokens, interrupted, files>>

CaptureReports(l) ==
  /\ LaneStep(l, "reports")
  /\ \/ MayFail("report") /\ outcome' = [outcome EXCEPT ![l].reportErr = TRUE]
     \/ \E reports \in ReportChoices : outcome' = [outcome EXCEPT ![l].reports = reports]
  /\ LaneGoto(l, "close")
  /\ UNCHANGED <<request, main, network, captured, owed, tokens, interrupted, files>>

CloseLog(l) ==
  /\ LaneStep(l, "close")
  /\ \E error \in SUBSET ({"log"} \cap Faults) : JoinErr(l, error)
  /\ Decide(l, outcome'[l])
  /\ UNCHANGED <<request, main, network, captured, tokens, interrupted, files>>

\* Faulty: a lane that was diagnosed is left running.
DiagnoseAndLeave(l) ==
  /\ LaneStep(l, "diagnose") \/ LaneStep(l, "late")
  /\ captured' = [captured EXCEPT ![l] = Append(@, network[l])]
  /\ Done(l)
  /\ UNCHANGED <<request, main, outcome, network, owed, interrupted, files>>

\* CollectDiagnostics on a fresh context, before the release or after it.
Diagnose(l) ==
  /\ LaneStep(l, "diagnose") \/ LaneStep(l, "late")
  /\ captured' = [captured EXCEPT ![l] = Append(@, network[l])]
  /\ \E error \in SUBSET ({"diagnostics"} \cap Faults) : JoinErr(l, error)
  /\ IF pc[l] = "late" THEN Done(l) ELSE LaneGoto(l, "release") /\ UNCHANGED tokens
  /\ UNCHANGED <<request, main, network, owed, interrupted, files>>

\* Faulty: every lease releases its network.
AlwaysLeased == TRUE

\* A lease of an attached network has no release function.
Leased == Provisions

\* lease.close: Stop on a fresh context, which frees the network or fails and
\* may have freed it or not.  A failure is joined once it has been diagnosed;
\* nothing looks at the outcome in between.
Release(l) ==
  /\ LaneStep(l, "release")
  /\ \/ /\ ~Leased
        /\ Done(l) /\ UNCHANGED <<outcome, network>>
     \/ /\ Leased
        /\ network' = [network EXCEPT ![l] = "absent"]
        /\ Done(l) /\ UNCHANGED outcome
     \/ /\ Leased /\ MayFail("cleanup")
        /\ \E left \in {"absent", "leaked"} : network' = [network EXCEPT ![l] = left]
        /\ JoinErr(l, {"cleanup"})
        /\ IF owed[l] THEN Done(l) ELSE LaneGoto(l, "late") /\ UNCHANGED tokens
  /\ UNCHANGED <<request, main, captured, owed, interrupted, files>>

LaneNext(l) ==
  \/ Begin(l) \/ Acquire(l) \/ Prepare(l) \/ ResolveImages(l) \/ WriteLaneManifest(l)
  \/ RunCommand(l) \/ CaptureReports(l) \/ CloseLog(l) \/ Diagnose(l) \/ Release(l)

-----------------------------------------------------------------------------
(***************************************************************************)
(* Runner.run.                                                             *)
(***************************************************************************)
\* Faulty: processes that exited cleanly are taken for lanes that passed.
AllExitedCleanly == \A l \in Lanes : outcome[l].err = {}

AllPassed == \A l \in Lanes : Passed(outcome[l])
Result == IF AllPassed THEN "passed" ELSE "failed"

\* planLanes refuses a lane that restarts services on a network that was not
\* provisioned from the lane's profile.
PlanRefused == request.restartsServices /\ (~Provisions \/ request.customParameters)

\* Test, Run and RunAll: what the command does not combine with.
CommandRefused ==
  \/ request.command \in {"test", "run-all"} /\ request.customParameters
  \/ request.command = "run-all" /\ request.selectsSuites

\* runnerConfig and selectedLane: the count of the arguments, the backend, the
\* parallelism, the parameters file, the name of the lane and of its suites.
InputRefused == request.invalid

Plan ==
  /\ main = "plan"
  /\ IF InputRefused \/ CommandRefused \/ PlanRefused
     THEN main' = "exited" /\ exit' = "error"
     ELSE main' = "clear" /\ UNCHANGED exit
  /\ UNCHANGED <<request, lane, interrupted, summary, manifest, record, faults>>

\* Faulty: the run manifest of the last run is left to be overwritten.
ClearAllButManifest ==
  /\ main = "clear"
  /\ summary' = "none" /\ main' = "enrich"
  /\ UNCHANGED <<request, lane, interrupted, manifest, record, faults, exit>>

\* clearReportArtifacts stops at the first path it cannot remove; the run
\* manifest is the last one.
ClearArtifacts ==
  /\ main = "clear"
  /\ \/ summary' = "none" /\ manifest' = "none" /\ main' = "enrich" /\ UNCHANGED exit
     \/ /\ MayFail("files")
        /\ summary' \in {summary, "none"} /\ UNCHANGED manifest
        /\ main' = "exited" /\ exit' = "error"
  /\ UNCHANGED <<request, lane, interrupted, record, faults>>

\* initialRunManifest: an attached network is not described, and custom
\* parameters are, instead of the images.
Described ==
  [NoRecord EXCEPT !.images = Provisions /\ ~request.customParameters,
                   !.fingerprint = Provisions /\ request.customParameters]

\* The probes descend from the context of the run, and one that fails leaves
\* its field empty.
Enrich ==
  /\ main = "enrich" /\ main' = "snapshot"
  /\ \E versions \in SUBSET Tools :
       /\ interrupted => versions = {}
       /\ record' = [Described EXCEPT !.versions = versions]
  /\ UNCHANGED <<request, lane, interrupted, summary, manifest, faults, exit>>

\* A failed write leaves the old file or a truncated one.
WriteSnapshot ==
  /\ main = "snapshot"
  /\ \/ manifest' = "started" /\ UNCHANGED faults
     \/ /\ MayFail("files")
        /\ manifest' \in {manifest, "torn"} /\ faults' = faults \cup {"snapshot"}
  /\ main' = "lanes"
  /\ UNCHANGED <<request, lane, interrupted, summary, record, exit>>

\* The wait group, and then Summarize: summary.json, then summary.md.
Summarize ==
  /\ main = "lanes"
  /\ \A l \in Lanes : pc[l] = "done"
  /\ \/ summary' = Result /\ UNCHANGED faults
     \/ /\ MayFail("files")
        /\ summary' \in {summary, "torn", Result} /\ faults' = faults \cup {"summary"}
  /\ main' = "publish"
  /\ UNCHANGED <<request, lane, interrupted, manifest, record, exit>>

\* The final manifest, and the joined result of the run.
Publish ==
  /\ main = "publish"
  /\ \/ manifest' = (IF faults = {} THEN Result ELSE "failed") /\ UNCHANGED faults
     \/ /\ MayFail("files")
        /\ manifest' \in {manifest, "torn"} /\ faults' = faults \cup {"publish"}
  /\ exit' = IF AllPassed /\ (\A l \in Lanes : outcome[l].err = {}) /\ faults' = {}
             THEN "ok" ELSE "error"
  /\ main' = "exited"
  /\ UNCHANGED <<request, lane, interrupted, summary, record>>

Ended == main \in {"exited", "killed"}

\* SIGINT or SIGTERM cancels the context of the run.
Interrupt ==
  /\ ~Ended
  /\ ~interrupted
  /\ interrupted' = TRUE
  /\ UNCHANGED <<request, main, lane, files>>

\* The process dies without running anything deferred.  Files are written in
\* place, so a death during a write leaves a truncated one.
Kill ==
  /\ ~Ended
  /\ main' = "killed"
  /\ manifest' \in {manifest} \cup (IF main \in {"snapshot", "publish"} THEN {"torn"} ELSE {})
  /\ summary' \in {summary} \cup (IF main = "lanes" /\ (\A l \in Lanes : pc[l] = "done")
                                   THEN {"torn"} ELSE {})
  /\ UNCHANGED <<request, lane, interrupted, record, faults, exit>>

MainNext == Plan \/ ClearArtifacts \/ Enrich \/ WriteSnapshot \/ Summarize \/ Publish

Next == MainNext \/ (\E l \in Lanes : LaneNext(l)) \/ Interrupt \/ Kill

Spec == Init /\ [][Next]_vars

\* Every call of a lane returns: each carries a timeout, or ends with the
\* process it waits for, which is killed when its context ends.
Fairness == WF_vars(MainNext) /\ \A l \in Lanes : WF_vars(LaneNext(l))

FairSpec == Spec /\ Fairness

-----------------------------------------------------------------------------
Active == {l \in Lanes : pc[l] \notin {"queued", "done"}}
Acquired(l) == pc[l] = "done" /\ ~outcome[l].bootstrapFailed
FinishedLane(l) == pc[l] = "done"

(***************************************************************************)
(* At most MaxParallel lanes, and never fewer than one, hold a network or  *)
(* work on one at a time; every way out of a lane gives its place back.    *)
(***************************************************************************)
BoundedParallelism ==
  Cardinality(Active) <= IF Parallel THEN MaxParallel ELSE 1

(***************************************************************************)
(* Every lane that acquired a network and failed was diagnosed exactly     *)
(* once, one that passed never; a failure that preceded the cleanup was    *)
(* diagnosed while the network was still there.                            *)
(***************************************************************************)
DiagnosedOnceWhileAlive ==
  \A l \in Lanes : Acquired(l) =>
    /\ Len(captured[l]) = IF Passed(outcome[l]) THEN 0 ELSE 1
    /\ owed[l] => captured[l] \in {<<"owned">>, <<"foreign">>}

(***************************************************************************)
(* At every moment of its life an outcome passes exactly if it is clean:   *)
(* the order in which the evidence is looked at lets nothing through.      *)
(***************************************************************************)
PassesAreClean == \A l \in Lanes : Passed(outcome[l]) <=> Clean(outcome[l])

(***************************************************************************)
(* Neither diagnostics nor cleanup relabels a lane that had failed before. *)
(***************************************************************************)
VerdictNeverMasked ==
  [][\A l \in Lanes : owed[l] => LaneVerdict(l)' = LaneVerdict(l)]_vars

(***************************************************************************)
(* Exit status, summaries and manifest agree: a run that exits with        *)
(* success published passing artifacts and left no network of its own      *)
(* behind, no artifact ever says that a run passed in which a lane did     *)
(* not, and summary.md, all that a reader of a CI job sees, shows a        *)
(* failure for exactly the lanes that did not pass, wherever their verdict *)
(* came from (markdown.go:102 hides the error of some).                    *)
(***************************************************************************)
PublishedVerdict ==
  /\ exit = "ok" =>
       /\ summary = "passed" /\ manifest = "passed"
       /\ \A l \in Lanes : network[l] \notin {"owned", "leaked"}
  /\ "passed" \in {summary, manifest} => \A l \in Lanes : Passed(outcome[l]) /\ FinishedLane(l)
  /\ \A l \in Lanes : FinishedLane(l) => (MarkdownFails(outcome[l]) <=> ~Passed(outcome[l]))

(***************************************************************************)
(* The snapshot survives a run the harness cannot finish: once lanes run,  *)
(* a manifest on disk is of this run and, until the outcomes are known,    *)
(* claims no result; the artifacts of an earlier run are gone.             *)
(***************************************************************************)
SnapshotSurvives ==
  (\E l \in Lanes : pc[l] # "queued") =>
    /\ summary # "stale" /\ manifest # "stale"
    /\ faults = {} /\ main = "lanes" => manifest = "started"
    /\ (\E l \in Lanes : pc[l] # "done") => manifest \in {"started", "torn", "none"}

(***************************************************************************)
(* An interrupted run still ends, with every lane accounted for and every  *)
(* network of its own released or reported as not released; a network it   *)
(* was attached to is never stopped.                                       *)
(***************************************************************************)
RunEnds == <>Ended
ReleasedOrReported ==
  /\ main = "exited" /\ manifest # "stale" /\ (\E l \in Lanes : pc[l] # "queued") =>
       \A l \in Lanes :
         /\ pc[l] = "done" /\ network[l] # "owned"
         /\ network[l] = "leaked" => {"cleanup", "bootstrap"} \cap outcome[l].err # {}
  /\ ~Provisions => \A l \in Lanes : network[l] = "foreign"
=============================================================================
