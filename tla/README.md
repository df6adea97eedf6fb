# qrl-tests, specified in TLA+

`qrltest` provisions QRL devnets in Kurtosis enclaves, runs end-to-end lanes on
them in child processes, diagnoses what fails, removes what it created and
publishes a verdict. Its suites follow a moving chain, restart nodes, supervise
consoles in sidecar containers and audit rewards. A harness of this kind is
trusted twice: a *pass* must mean that nothing went wrong, and a *failure* must
mean that something did. Most of the properties below are one or the other,
under the orders, failures and deadlines a unit test hardly reaches.

This directory holds one TLA+ module for each part of the harness with
behaviour of its own, instances of them for TLC, and proofs for TLAPS.

    tlc -workers 2 -config Devnet.cfg MCDevnet        # a run
    tlapm DevnetProofs.tla                            # a proof

`PROJECT.json` lists the components, the runs, for every checked property a
plausible bug of the code that breaks it (the definitions commented *Faulty* in
the modules), the source lines of every definition, the hazards and the theorems.

## 1. The system and its parts

Paths are below `src/`.

### The core: networks, lanes, verdicts

| Part | State | Operations | Interacts with |
|---|---|---|---|
| Network manager, `devnet/manager.go` | none between calls: the engine's enclave *names* are the shared state | `Start`, `Stop`, `Inspect`, `CheckReady`, `StopServices`, `StartServices` | Kurtosis engine; called by the CLI, the lane runner and the live runtime |
| Diagnostics, `devnet/diagnostics.go`, `devnet/internal/kurtosis/diagnostics.go` | one output per service, the manifest, the joined error | `CollectDiagnostics`, `StreamServiceLogs` | engine, log stream, disk; called by a failed `Start` and by a failed lane |
| Environment and profiles, `devnet/environment.go`, `profiles.go`, `parameters.go` | participants by index | `resolveEnvironment`, `ParticipantValidators`, rendering | the services of an enclave, labelled by the profile |
| Probe and images, `devnet/probe.go`, `service_image.go` | none: the network and Docker are read again each time | `probeNetwork`, `ResolveLocalImage`, `resolvePrimaryServiceImage`, `ServiceNetwork`, `ReadServiceFile` | the primary's RPC port, Docker; called by an attaching lane |
| Docker client and container files, `internal/dockerapi`, `internal/containerfiles` | the settings of the Docker CLI | `New`, `Archive`, `Read`, `ReadFile` | environment variables, `config.json`, contexts; tar streams |
| Lane runner, `e2e/runner/*.go` | outcomes, semaphore, report directory | `Run`, `executeLane`, `planLanes`, `Summarize` | manager, child processes, signals |
| Classification and summaries, `internal/results` | none | `Classify`, `Summarize`, `WriteMarkdown` | outcomes of the runner |
| Run manifest and JSON files, `internal/runmanifest`, `internal/jsonfile` | files | `Enrich`, `Finish`, `Write` | the runner |
| Command line, `cmd/qrltest` | none | `runnerConfig`, the commands | the runner, the manager |

### What suites stand on

| Part | State | Operations | Interacts with |
|---|---|---|---|
| Live runtime, `e2e/internal/live` | the environment, the open nodes | `Nodes`, `StopNodes`, `StopValidators`, `StartParticipants`, `Close` | manager, clients of the nodes |
| Sidecars: sync node and validator, `e2e/internal/sidecar` and below | container handles, connections, the files given to containers | `Start`, `Stop`, `Resume`, `Close`, `Run`, `Detach`, `FilesIn` | Docker, the containers of the network |
| Console supervisor, `e2e/suites/execution/console/harness_test.go` | three goroutines, an event channel, two contexts | `run`, `finish`, `Close` | a console container |
| Staking, `e2e/internal/staking`, `validatorops`, `chaininfo`, `suites/consensus/staking*` | the validator's record, `operationScanner` | `DepositWait`, the deposit, the waits of a validator's life, `ExpectExitAndWithdrawal`, `scan` | deposit contract and CLI, a validator client, a beacon node |
| Reward audit, `e2e/internal/rewards`, `suites/consensus/penalties` | `rewardScanner`, the audited epochs | `scan`, the audits | beacon node, a validator client |
| Network restart, `suites/resilience/networkrestart` | the agreed head | ordered specs | the live runtime |
| Sync checks, `e2e/internal/synccheck`, `history`, `suites/sync` | the node, the history's receipts, heads read before | `WaitForHead`, `ExpectSynced`, the specs of two suites | a sync node and its source |
| Execution suites | see section 7 | | |

### What is hard, and what makes it correct

* **Names are shared.** `Start` looks for a name, creates the enclave and cleans
  up by name in separate engine calls, and a reply can be lost. Correct: racing
  starts never touch each other's enclave; a failed start gives back what it took
  or says it could not; a stop that answers `nil` has seen the name free.
* **Contexts have ended when cleanup begins.** Cleanup, diagnostics and
  confirmation run on contexts of their own. Correct: an ended context neither
  skips a cleanup nor fakes a success, and no call polls forever.
* **Errors meet earlier errors.** Correct: nothing relabels a lane that has
  failed, a lane that failed is diagnosed once and while its network exists, and
  exit status, `summary.json` and `run-manifest.json` agree, also when a write
  fails or the process dies.
* **Partial capture.** A log stream answers "not found" provisionally, breaks,
  or meets a full disk at the last flush. Correct: what is listed as captured is
  complete, and failures do not cost what did not fail.
* **A chain does not wait.** Heads move, slots are empty, reads fail half-way.
  Correct: no block is skipped or counted twice, no healthy chain fails an
  audit, no defective chain passes one.
* **Services depend on each other**, and stop and start by lists whose order
  alone keeps them so. Correct: nothing runs above a stopped dependency, also
  where an instruction breaks off.
* **Deadlines are computed before the chain has decided.** A deposit falls
  anywhere in a voting period. Correct: no wait ends too early on a healthy chain.
* **Networks are not held.** A lane that attaches to a network owns nothing: the
  network can be replaced by another of its name, services restart on other
  ports, and Docker's settings are read anew by every look. Correct: a sidecar runs the image of the very
  network that was inspected, from the host its user named.
* **Two nodes are compared while both move.** Correct: a node passes only if it
  has the source's chain and keeps it, and a healthy node fails only where the
  code cannot tell.
* **Goroutines, channels, deadlines.** Correct: a console passes exactly if it
  ended gracefully, the supervisor returns, and no goroutine outlives it.

## 2. Modules and how they correspond to the code

Engine calls, Docker calls, file writes and reads of a node are one step each:
other processes act between two of them, and each can fail; where the code has to
live with it, also *after* taking effect. Straight-line code between two such calls
is part of the step before it. Wording, layout and most payloads are left out.

| Module | Models |
|---|---|
| `EnclaveSlot` | the abstract promise of the manager: a slot claimed by one start, given up by its owner or a stop, observed free by a successful stop |
| `Devnet` | `Manager.Start` and `Stop` call by call |
| `Verdict` | `Classify` over outcomes, and what `summary.md` shows of them, as pure operators |
| `Runner` | `Runner.run`, `executeLane`, what commands refuse, the report directory; EXTENDS `Verdict` |
| `Diagnostics` | a whole `CollectDiagnostics` with its log stream |
| `Environment` | `resolveEnvironment`'s loop over a Go map, and the profile's validator ranges |
| `Attach` | `Inspect`, `CheckReady`, the probe, the choice of the Docker host, and the images of a lane; EXTENDS `Environment` |
| `Restart` | the restart suite, the live runtime, the service instructions, and a small chain below |
| `Files` | the archives between containers: `FilesIn`, `Archive`, `Read`, `ReadFile`, as pure operators |
| `Sidecar` | start, stop, resume, close of dependent containers and the files they are given; EXTENDS `Files` |
| `Sync` | the two sync suites over a source, a node that may be faulty, and their chain |
| `Supervisor` | reader, waiter, exit request and supervisor of a console |
| `OperationScanner` | what the exit and withdrawal wait reads of a growing chain |
| `Staking` | both staking suites and their deadlines, that wait's included; EXTENDS `OperationScanner` |
| `RewardAudit` | the penalties suite over votes, inclusion and delayed balances |
| `MCDevnet`, `MCRunner`, `MCDiagnostics`, `MCSidecar` | instances for TLC |
| `DevnetProofs`, `RunnerProofs`, `DiagnosticsProofs`, `AttachProofs`, `RestartProofs`, `StakingProofs` | theorems; each EXTENDS the module it is named for |
| `SidecarProofs` | theorems of `Sidecar` and of `Sync`, whose nodes are such helpers |
| `SuiteProofs` | theorems of `Supervisor` and `RewardAudit`, each a suite of one spec file |

**Devnet.** `pc[c]` is the next engine call of caller `c` (a process or a lane);
`phase[n]` is what the engine holds under a name: `dying` is the time between an
accepted destroy and a free name, which `Confirm` (the poll in
`destroyAndConfirm`) exists for. `FailStart` is the deferred block of `Start`.
`Overlap` names the operations that may run while another one on the name does:
`devnet/README.md:46-47` asks for serial operations, so stops are serial, but two
processes can always start the same name at once and the code must survive it.
`LostReplies` lets a create or destroy take effect and report an error.

**Runner.** One action for each statement of `executeLane` that can fail; `Decide`
is the first half of its deferred block, which chooses between diagnosis and
release by the verdict so far (`owed`), and `Release` the second, which diagnoses
a cleanup failure late. The manager appears through its promises: acquiring gives
a network, nothing, or nothing and a leak that is reported. `summary` and
`manifest` are the files on disk, which an earlier run may have left `stale` and a
failed or interrupted write leaves `torn`, as `jsonfile.Write` truncates in place.
`Kill` ends the process at any point with nothing deferred. `request` is the
command line as far as it can be refused (`CommandRefused`, `InputRefused`,
`PlanRefused`), `record` what the manifest says of mode and tools. Verdicts are
computed by the operators of `Verdict` on the outcome of the moment, so the order
of the joins is checked along with the precedence of the evidence.

**Diagnostics.** `sent` and `missing` are the stream with its provisional
"not found" answers, `written` and `flushed` the buffered writer of a service, and
`file[name]` what is on disk. A file is written at the offset of its own handle,
which is what makes two services of one name visible.

**Environment.** `Visit` is one round of `for ... range services`, in any order.
`Rendered` is what the profile asks `qrl-package` for; `services` differs from it
in up to `MaxChanges` places (gone, mislabelled, without public ports). `Assigned` is
the running sum of the validator counts by which the profile hands out ranges.

**Attach.** `stage` is the lane's next step, from `Inspect` (which runs
`Environment`'s loop) over the probe to the roles of the images, in the order of
`resolveImages`. `Happens` is the world: a network of the same name takes the place
of the inspected one (`incarnation`), the primary's services stop and start (a
restarted execution client has a new host port, so `served` is lost), a tag moves
(`version`). A container is identified by the UUID of its service, as Kurtosis
labels it. `Settings` are `DOCKER_HOST`, `DOCKER_CONTEXT`, the `currentContext` of
`config.json` and whether the context is stored; each look reads them anew, so each
is chosen anew.

**Restart.** `script` is the set of numbered lines that are left of the service
instruction in progress, of which `IsFirst` picks the next; `StopValidators`, `StopNodes` and `StartParticipants` are `Instruct` over those
lists. `port` is what the engine publishes, `environment` what the runtime
knows, `nodes` what the suite holds. Below is a chain in which a block is its
slot: `Sign` puts one in flight, `Process` brings it to the node of its signer,
`Gossip` to any other at any time. A `survivor` is a node the engine
wrongly reported as stopped; `lost` nodes come back without their data.

**Sidecar and Files.** `kind` says how many containers a helper has and what it
does: the sync node has two (execution, then beacon), joins the source's network
and is stopped and resumed; the validator sidecar has one and imports keystores.
`handles` is what the helper owns, so a container between creation and start is
`Abort`'s. `lost` records containers Docker created while reporting an error: nobody
knows their identity. `tree` is the file system of the source's container, from
which the configuration is copied; `given` the files of a new container, which
`Archive` packs and Docker extracts entry by entry.

**Sync.** A block is its slot. `tip` is the network's newest block, `source`,
`execution` and `beacon` the heads of the source and of the node's clients, which
import in jumps and late. A node is healthy, has blocks of its own from `fork` on,
lacks the run of blocks in `hole`, or loses a block in its restart (`lossy`). `step` is the
check the suite is at; a check inside an `Eventually` is an action that waits for its
condition until `RunOut` at `deadline`, counted in blocks, while a plain `Expect` is
an action that goes on or ends the spec (`CheckOr`). `HistoryIsFinal`,
`FromCheckpoint`, `SameHead`, `SameBlockAtSlot` and the others are the conditions.

**Supervisor.** `queue` is the channel with its capacity of four; `cause` the
cancellation of the process context, `attached` its streams, `shutdown` the
deadline armed by the first sign of an end. `HandleEvents` takes an event and
drains the channel, as `recordEventBatch` does, so the reaction depends on what
is already queued.

**OperationScanner.** A slot carries what the code reads of it; numbers and
balances are carried over empty slots. `FailedRead` leaves the scanner where it
was, and `Eventually` polls again.

**Staking.** Time is counted in slots, so that a deadline is a slot. `stage` is what
the suite does, `client` whether its validator client holds the key, `sent` what
became of the deposit: `lost` is a send that failed in a CLI that exited with 0.
The chain is external and reduced to what the comments of `DepositWait` and of
the timeouts say of it: `Voted` counts the votes of a voting period that cover the
deposit and includes it after their majority, the effective balance follows
`UpdateDelay` epochs later, `Closed` ends an epoch (finality, eligibility,
activation, the attestation reward), `Left` includes an exit and withdraws its
validator, and `NextSlot` lets proposals, finality and attestations fail within
bounds. A wait polls every two seconds and a slot takes five, so what is there is
seen before the next slot. The spec of the exit has one timeout, which
`ExpectAttesting` arms and which its two waits share. The second of them, on
submitting the exit, is followed in two ways: stage `leaving` keeps the clock, and
asks whether the withdrawal comes in time; from there `ScanExit` hands the wait to
`OperationScanner` (stage `exit`), which follows each of its reads and may give up
at any of them. The clock is forgotten there, which keeps the two state spaces from
multiplying. A poll scans up to the head, so the scan takes no slots that the chain
does not.

**RewardAudit.** The chain reports rewards derived from votes, inclusion delays
and heads, and applies them two epochs later; a `defect` makes it apply others.
`Balance` is the chain's: it moves slot by slot, by the block of the slot and at the
start of an epoch by the rewards that are due. `AuditPasses` is the suite's
comparison, by its own arithmetic over slots (`BlockBalanceChanges`).

## 3. Runs

All bounds are CONSTANTS of the modules. Each run takes less than three minutes
with two workers. A run of an operation or a suite ends, so all but `devnet` state
`CHECK_DEADLOCK FALSE`; `devnet` callers call forever.

| Run | Instance and why it is enough | Properties |
|---|---|---|
| `devnet` | two callers, one name, either operation any number of times, each call canceled, lost or failing. Operations on different names do not meet; a third racer meets the same refusals, and the theorems hold for any number | `FailedStartReclaims`, `DiagnosedBeforeDestroyed`, `StoppedMeansFreed`, `ImplementsSlot`, `EveryCallReturns` |
| `runner_lane` | one lane, all commands and refusals, no report, one of any kind of results, or two of different kinds (the classification compares one suite with the totals of all), every fault, signals and kills, stale artifacts | `DiagnosedOnceWhileAlive`, `PublishedVerdict`, `SnapshotSurvives`, `ReleasedOrReported`, `PassesAreClean`, `VerdictNeverMasked` |
| `runner_parallel` | three lanes and two places: one lane has to wait | `BoundedParallelism`, `RunEnds` |
| `diagnostics` | two services in every state, two lines each: one before a provisional answer and one after, one flushed early and one at the end | `CapturedIsComplete`, `SilenceMeansAll`, `FailuresStayLocal` |
| `diagnostics_same_name` | the finding below | `CapturedIsComplete` |
| `environment` (module `Attach`) | two participants with one or two validators, spares, two services that are not as rendered, every map order; a lane attaches to networks that are as rendered (`MaxAttached = 0`), two events of the world at any moment, a chain that grows by a block or not | `ResolutionIsExact`, `EnvironmentMatchesProfile`, `ImagesAreTheNetworks` |
| `restart` | three participants of which one only follows, up to three blocks before the outage and more after, any of the faults | `DependenciesUp`, `AgreedHeadIsKept`, `VerdictIsRight` |
| `sidecar` | a sync node and a validator sidecar, every Docker call failing with or without effect, exits, ended contexts; a source whose configuration is there, empty, a link, a directory or missing; no keystores, one, two of one name, unusable names | `NothingLeftBehind`, `ReadyWhenReturned`, `DependenciesFirst`, `FilesArriveWhole`, `DeadContainerEndsWait` |
| `supervisor` | both modes, up to two markers (none, one, a repeated one, a contradiction), the real channel capacity of four | `PassIsGraceful`, `RunReturns`, `GoroutinesEnd` |
| `staking` | both suites; epochs of two slots, a voting period of four epochs, deposits in every slot of a period and of the one that keeps the genesis data, up to three missed proposals and four epochs without finality or attestation, which is one more than a healthy chain has; the effective balance follows the deposit in the next epoch; the timeouts of activation and attestation are the code's in epochs (12 and 6), the committee period is three epochs, because after two the wait has nothing to do, and `ExitTimeout` is 11 epochs, a slot more than that period, the exit and a sweep of one slot can take. The exit is scanned over six slots, any of them empty, amounts 0 and 1 against a stake of 2, so that one payment does not suffice | `WaitsSuffice`, `EveryBlockVisited`, `WalletMatches`, `DoneMeansWithdrawn` |
| `reward_audit` | four epochs of two slots, of which two or three slots stay empty: the shortest chain on which an audit reads three epochs and votes are included late | `AuditIsRight`, `RewardsAreFinal` |
| `sync` | both suites; epochs of two slots, so that finality, two epochs behind, moves during every wait; two samples, so that a gap can fall between them; one epoch that keeps the head (the code has three) and one finalized while the node is stopped (the code has two): each adds a repetition of the same loop; a node that had the head falls one block behind at most (`MaxLag`), a retried check lasts one slot (`Patience`); a fork or a hole on either side of the samples. The chain ends at 30 blocks, beyond the last deadline of a suite that succeeds | `HistoryBehindCheckpoint`, `PassedMeansFollowed`, `HealthyFailsOnlyInRace` |

Each property is stated in words above its definition. What they say together:

* *devnet*: racing starts and exclusive stops behave like the abstract slot; a
  cleanup is complete or reported; an answer `nil` to a stop is true.
* *runner*: a lane passes exactly if its lifecycle was clean and every suite
  passed a spec and failed none; nothing later relabels a failure; a run exits with
  success only if two artifacts say so and none of its networks is left; the
  Markdown summary shows a failure for exactly the lanes that did not pass, although
  it hides the error of some; an attached network is left alone.
* *diagnostics*: a captured log is all the lines, silence means everything was
  captured, and one failing service costs no other one its log.
* *environment*: map order decides neither whether a network resolves nor which
  participants it has (of two services of one type and index it does decide which
  stays: the code takes the later one without a word), and positions, labels, and
  validator ranges tell one story. A resolved image is the inspected network's own, whatever happened since; a Docker context that cannot be found is
  an error and never the local host.
* *restart*: no client runs above a stopped one, the agreed head stays the head,
  and the suite reports another chain exactly when the data is lost.
* *sidecar* and *supervisor*: nothing is left behind, waits end, no file is
  lost to another of its name, and a console passes exactly if it ended gracefully.
* *staking* and *reward_audit*: on a healthy chain no deadline ends a wait early,
  from the deposit to the withdrawal, the scan sees each
  block once, and audits raise neither false alarms nor false comfort.
* *sync*: a node that passes has followed its source for as many epochs as
  promised, with the source's blocks; the history lies behind the checkpoint.
  `HealthyFailsOnlyInRace` states exactly where the suites can fail a healthy node,
  which is also where a reader of a failed run has to look twice: at
  `synccheck.go:133`, when the node imported its head before the source did
  (`WaitForHead` allows for a source that is ahead and not for a node that is), and
  at `checkpoint/e2e_test.go:57`, when the source finalized twice while the node
  started, or its finality, read last, is behind what the node already has.

Two things seen while modelling `Sync`, which no property states. If the
origin check of a checkpoint start fails, the node has been started but not
handed to the suite, so `AfterAll` closes nothing and the catch-up fails for want
of a node; its containers are closed by nobody. And the comparison of the epochs
that keep the head reads beacon heads only: an execution client that falls behind
there is noticed by the relay of transactions, or not at all.

### Finding: services of one name share a log file

`openServiceLog` (`devnet/diagnostics.go:161`) names the file of a service by its
name and truncates it. The inspection returns the services an enclave has *and
had*, and can return two of one name with different UUIDs
(`devnet/internal/kurtosis/diagnostics_test.go:84-85` expects it). Both are then
opened on the same path, each from offset 0, one log overwrites the other, and the
manifest lists both as captured. `diagnostics_same_name` shows it with two
services of one line each and no fault at all. `CollectDiagnostics` says it
"captures the enclave inspection and per-service logs" (`diagnostics.go:51`).

## 4. Fairness

Safety runs assume none. Where a liveness property is checked:

* `Devnet`: weak fairness of each caller's next engine call, since calls return,
  and of the end of the context *while it probes*, since every start context
  carries `StartTimeout`. The engine owes nothing: `Removed` is not fair, and
  `EveryCallReturns` holds by the deadlines of the polls alone.
* `Runner`: weak fairness of the main goroutine and of each lane's goroutine. A
  lane's calls are bounded (lane timeout, cleanup and diagnostics timeouts) and
  its process is killed when its context ends.
* `Sidecar`: weak fairness of the call in progress. Neither readiness nor the end
  of a context is taken for granted, so `DeadContainerEndsWait` is about exits.
* `Supervisor`: weak fairness of the supervisor, of channel sends, of the armed
  timer, and of what a closed stream or an ended context releases. The console,
  its output, and Docker owe nothing; hence `RunReturns` begins with a first event
  or the end of the scenario's context.

## 5. Proofs

TLAPS proves these for every value of the constants that satisfies the named
assumption of the module. No theorem bounds what a run bounds: callers, lanes,
containers, participants, lines, events, slots and epochs are any number, a set of
`Faults` is any of its kinds, and a context may end at any time.

For each model one inductive invariant is proved (`IInv`, `SyncInv`, `AuditInv`, all of
which TLC has checked on small instances), from which its theorems follow. The properties of section 3
are not inductive: they speak of the end of an operation or of two places at one
moment, so the invariant says what holds *at every step in between*, mostly as
implications from the program counter.

**`DevnetProofs`**, from `DevnetAssumption` (every caller uses one name of
`Names`; `NoOne` is no caller).

* `TypeCorrect`.
* However operations overlap: `FailedStartsReclaim` and `StopsAreHonest`, from
  `AnyOverlapInv`. The invariant adds where a failed start can be
  (`StepsOfStart`, `FailureIsLate`), that free slots are unowned
  (`FreeMeansUnowned`), and that a slot which is free now is recorded as seen
  free by every operation in flight (`FreeIsRecorded`), on which a stop's answer
  relies.
* If only starts may overlap (`Overlap \subseteq {"start"}`):
  `StartsOwnTheirSlot`, `FailedStartsAreDiagnosed`, and `ManagerImplementsSlot`,
  the refinement `Spec => Slot!Spec`. `RaceInv` says that a start between its
  creation and its destroy call owns its slot, that an exclusive operation is
  alone on its name, and that a start which cleans up has failed, so it never
  answers a success on a slot it dooms. Each action is then mapped to `Begin`,
  `Claim`, `GiveUp`, `Free`, `Answer`, or a stutter.

**`RunnerProofs`**, from `RunnerAssumption` (at least one lane; requests, reports and
faults of their kinds).

* Of single outcomes, over any number of reports of any specs. `PassedMeansClean`: an
  outcome passes if and only if it is `Clean`; its lemmas reduce the totals to the
  single suites. `JoinedErrorKeepsFailure`: an error joined to an outcome that failed
  leaves its verdict as it was, which is why the cleanup and diagnostics errors of a
  lane do not replace the original failure (`README.md:38-39` of the repository). It
  rests on the run error being the last evidence but one that `ClassifyReports` looks
  at. `MarkdownShowsFailures`: `summary.md` shows a failure for exactly the lanes that
  did not pass, if a lane that could not start, was canceled or ran out of time carries
  an error.
* Of runs: `TypeCorrect`, `LanesAreBounded`, `OutcomesAreHonest`,
  `FailuresAreDiagnosed`, `VerdictsStand`, `SnapshotIsKept`, `NetworksAreReleased`,
  `PublishedIsTrue`. `LaneInv` has one part for each phase of `executeLane`: what its
  deferred block finds depends on whether the lane owed a diagnosis when it decided,
  and on how its network was acquired. `PlacesInv` says who works: with the
  semaphore, exactly the lanes that hold a place of it, whose cardinality the send on
  the channel bounds; without, a lane works only when those before it are done.
  `FilesInv` ties what the files say to the step of the main goroutine: nothing stale
  survives the clearing, and only a publication after the last lane turns `started`
  into a result. `VerdictsStand` is an action property: the invariant says
  which errors a lane can still gather, and `JoinedErrorKeepsFailure` does the rest.

**`DiagnosticsProofs`**, from `DiagnosticsAssumption` (every UUID has a name).
`SilenceIsTrue` and `FailuresAreLocal` hold for all services. `CapturesAreComplete`
needs the hypothesis `OwnNames`, that no two services share a name: without it the
property is false, which is the finding above. `LinesInv` orders the lines of a service
(flushed, written, sent, retained, each at most the next), `EntriesInv` says what an entry of the
manifest-to-be knows of them, `SilenceInv` what no error so far means, and
`FileInv` that the file of a name is the flushed prefix of its one service, the only
part that needs the hypothesis.

**`AttachProofs`**, from `EnvironmentAssumption`, `NoneAssumption` and
`AttachAssumption` (the absent value is none of the others). `OneEnvironment`: a lane
that attaches runs the environment's own specification, `AttachSpec => Spec`,
whatever happens to the network, so what is proved of the loop holds of it.
`ResolutionsAreExact`: `LoopInv` is the loop invariant of `resolveEnvironment`.
`byIndex` holds exactly the indices of the names visited, each with *one of* the
visited names of that index and type, which is all a map order leaves certain. That
the participants come out once and in order is the lemma `Ranks`: the elements of
a finite set of numbers have each rank from 1 to its cardinality once.
`PositionsMatch`: if a network is as its profile rendered it, positions, labels and
validator ranges agree, for any number of participants and validators. `RankInv` keeps
the rank of every participant the loop returns; then, as the indices are those the
profile rendered, rank and position are the same number. The ranges do not overlap and
leave no index out because the sums of the counts grow (`Assigned`); what a sum is at each
position is shown by the least position at which it would not be so.
`ImagesAreRight`: images are resolved from services captured with
`Inspect`, so the events after it, which change everything else, do not reach them.

**`RestartProofs`**, from `RestartAssumption` (at least one participant, signers among
them): `DependenciesHoldUp`, `HeadIsKept`, `VerdictsAreRight`. What is left of an
instruction is the set of its lines not yet done, so `RunInv` can say at each step which
services run in terms of it; the next line is the one `IsFirst` picks, and
`DependenciesUp` survives a broken-off script because a script that stops services
lists what stands on a service before it, and one that starts them after it. `ChainInv` (a block's ancestors are known wherever the block
is) and `AgreeInv` say what the comparison of heads has established after
`reads` nodes: each knows the anchor, and *if* none of the others is above it, none
of these is. When the last node agrees the condition is empty, and the anchor is the
highest block of the network; with the validators stopped and nothing in flight it
stays so (`HeadInv`), until a validator signs again on top of it. That a
node's head exists, as the greatest of its blocks, is shown by the least element of
the set of their distances from `MaxSlot`.

**`SidecarProofs`**, from `SidecarAssumption` (a kind has at least one container, a
file system finitely many files): `NothingStays`, `ReturnsReady`, `DependenciesHold`, `FilesArrive`. `OwnerInv` says for
every container who answers for it, the helper, the call in progress or a reported
failure; `OrderInv` that on the way up everything below the present container has
answered and on the way down nothing above it runs, unless a removal has failed.
`FilesInv` says of every container past `copy` that its file system is the archive of
what was gathered; that an archive which is not refused keeps every file is a lemma
(`ArchiveKeepsFiles`), since names are unique in it. The
configuration is what the source holds at the path, because an archive of finitely
many files lists each under its own name, in whatever order (`FileIsRead`), and the
path is its own cleaned form (`ConfigPathIsClean`).

From `SyncAssumption` (an epoch fits into the chain; what a database has lost is a run of
slots), for epochs of any length, any number of samples and of compared epochs, any lag
and patience, and any chain of the node's own: `HistoryIsBehind`, `PassedFollowed`,
`HealthyFailsInRace`. `HistoryInv` ties what the suite noted of finality to the finality
of the source, which only grows with its head. `CompareInv` says what each comparison has
left over: the node has the source's chain up to the last head that agreed, and no two
samples have more than a gap between them. That samples this far apart notice a longer run
of lost blocks is where the assumption on `Holes` is used: scattered blocks can all lie
between the samples, in the model and in the code. `EpochsInv` counts the epochs
compared. For `HealthyFailsInRace` every check that can end a spec is shown to hold of a
healthy node, except at the two lines named in section 3.

**`SuiteProofs`**. From `SupervisorAssumption`, for any channel capacity and any
output: `PassesAreGraceful`. The property compares what the supervisor concluded with
what the console did, and an event that is still in the channel is known to neither;
`Reported` is what was recorded or is about to be. `ReaderInv` and `EndsInv` say
what the end of a reader, an error or a cancellation tells of the console, and
`ForcedInv` why a console that was forced to end cannot be taken for a graceful one.

From `AuditAssumption` (a timely vote is at most an epoch late), for epochs of any length,
any number of audited epochs and any empty slots: `AuditsAreRight` and `FinalRewards`.
`AuditInv` has three arguments. Votes: a vote is cast in its slot, included by a later
block, and those of a client that keeps running are included before the epoch after the
next (`VotesInv`). Choices: while the client is stopped no vote is of an epoch to be
audited, because the first of them is after both the clock and the head; and once it runs
again, the epoch audited began after its start (`OfflineInv`, `ScanInv`). Amounts: over an
epoch the balance moves by the rewards that are due and by the blocks of exactly the
slots the suite adds up (`BalanceMoves`), so the two sides of an audit are equal if and
only if the chain applies what it reports (`AuditMeans`). The balance is recursive in the
slot; that its change over a stretch of slots is the sum of theirs is shown by the least
slot at which it would not be.

**`StakingProofs`**, from `StakingAssumption`, `TimeoutsAssumption` and
`ScannerAssumption`.

* `WaitsAreLongEnough`: on a healthy chain no deadline of a staking suite passes,
  from the deposit to the withdrawal, for epochs and voting periods of any length, a
  deposit in any slot, and a follow distance of at most half a voting period, as
  `DepositWait` assumes. `TimeoutsAssumption` states how long the timeouts are in
  epochs, and the proof uses no more of it: 11 epochs for the activation (the code
  has 12), 6 for the attestation (it has 6), more than one for the event, and for the
  exit more than nine epochs and the sweep, and more than the committee period, seven
  epochs and the sweep. The code has 12 for the exit and a committee period of two,
  which leaves 23 slots of the 96 for the sweep. Together with the
  four epochs of slack in `DepositWait`, of which the proof uses little more than one, that is
  the margin the constants have. `VotesInv` is the argument for the deposit: in the first
  period that begins late enough after it, the votes are behind the slots of the
  period by the missed proposals only, so a period in which fewer than half are
  missed has its majority before it ends, and the next one cannot begin without
  it (`NextPeriod`). `LifeInv` is the argument for the validator: every
  epoch that delays eligibility or attestation is a lapse, and three are allowed.
  `ExitInv` is the argument for the exit: the spec begins two epochs after an
  attestation was rewarded, so `Remaining`, what is left of the committee period, is
  that much shorter and the period is served at `ServedBy`; the block of the exit,
  seven epochs, the sweep and the end of an epoch follow, and a slot later than that
  is a missed proposal (`ExitStep`, `SlotExit`).
  `HarnessInv` says when the present wait began.
* `BlocksAreVisited`, `WalletIsExact`, `DoneIsWithdrawn`, for chains of any length. `IInv` has
  two parts. `ChainInv` relates two slots of the chain (numbers grow with blocks,
  equal numbers have equal balances, every number has its block, balances change
  only by what a block pays): it is stated for pairs of slots, because then
  growing the chain preserves it without induction over its length. `WalkInv` says that what the
  visits accumulated is the difference between the states at `lastSlot` and
  `start`. `WalletIsExact` needs both: the balance is read by block *number*, and
  only `SameNumberSameBalance` makes the `CHOOSE` irrelevant.
* `SuitesScan`, `StakingSpec => Spec`: the suites leave the scanner alone until the
  exit is submitted, so the three theorems above hold of both.

**Only model-checked.** Liveness (`EveryCallReturns`, `RunEnds`, `DeadContainerEndsWait`,
`RunReturns`, `GoroutinesEnd`) is out of the prover's reach, and so is what a recursive
definition yields for every input by induction over data; where a proof needs a sum it
argues from the least number at which the sum would be wrong. `MCSidecar` compares
`ReadFile` and `Clean` with their expected results on the sources of the run. Every
invariant and action property of a passing run is stated by a theorem.

## 6. Assumptions of the models

* The chain is never reorganised (`OperationScanner`, `RewardAudit`): the code has
  no provision for it either. In `Restart` blocks compete until nodes agree; the
  highest known slot is the head.
* `Restart`: a signed block reaches the beacon node of its signer within the slot
  the suite pauses for; gossip to other nodes has no bound. Data is lost by all
  nodes or by none.
* `RewardAudit`: amounts are constants that no two combinations of votes add up
  to; base rewards, sync committees, and the inactivity leak are not computed. A
  running client votes in every epoch it runs through, and its vote is included
  before the epoch after the next. A read that is not retried, and the suite's refusal
  of a chain in an inactivity leak, only fail a suite: `AuditPasses` is about the
  comparisons, so they are left out.
* A create whose reply is lost leaves an enclave (or a container) nobody owns:
  the code starts its cleanup after an acknowledged creation, and
  `TestStartCreateFailureSkipsCleanup` pins that. The models have the step and
  `FailedStartReclaims` and `NothingLeftBehind` exempt it.
* `Attach`: an event does not fall between the reads of one action; Kurtosis gives
  every service of every network a UUID and an image of its own. The engine runs on
  the local Docker host, so a service is found there or not at all.
* `Sync`: every slot has a block, the source is honest and is a slot behind at
  most, finality is two epochs behind its head, and a block hash stands for the
  state and the receipts the code compares as well. A real node prunes old
  states; the suites' epochs are short against the states it keeps.
* `Sidecar`: Docker extracts an archive entry by entry, and one helper is started
  by one caller.
* `Staking`: only the first voting period begins less than two follow distances
  after genesis, as `DepositWait` assumes too; every block of a period votes for the
  same deposits. A healthy chain misses fewer proposals than half a voting period
  and no more than an epoch's, and lapses (no finality, or no attestation of the
  validator) in at most three epochs. The effective balance follows in the epoch of
  the deposit or in the next (`UpdateDelay`); no comment gives the sweep a length,
  so it is a constant (`Sweep`) with the room `ExitTimeout` leaves for it.
* Elsewhere time is an order of events: a deadline may fire whenever it is armed.

## 7. Not modelled, and the plan

Not modelled because there is no state to get wrong, or only I/O: the validation
of image names and backends, the network commands of the CLI (one call of the
manager each), the layout of Markdown and manifest, host addresses, beacon and
keymanager decoding, signing and keystores, the options of the console sidecar, the
parsing of the deposit tool's output, the development wallet, generated contracts,
image builds. `PauseService` is two Docker calls that nothing interleaves with. The
execution suites (ABI, transaction pool) are one caller making calls in sequence.
The finality and slashing specs of the restart suite only read what beacon nodes
decide. Of the sync suites, the log check for an optimistic start and the peers
are left out.

Of the staking suites, the requests of the keymanager, the deposit data and
signatures are left out, and so are queues (the suites' validator is the only one
that enters or leaves), and networks are fresh: on one on which an earlier run was
cut short, its deposit can still be pending under the automated suite's fixed key.

No module and no theorem of the plan remains to be written.
