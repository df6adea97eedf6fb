------------------------------ MODULE Sidecar ------------------------------
(***************************************************************************)
(* e2e/internal/sidecar: helper containers beside the devnet.  A helper is *)
(* a list of containers that depend on each other: the sync node has an    *)
(* execution client and then a beacon node, the validator sidecar has one  *)
(* container and imports keys.  Start creates, fills, starts and waits for *)
(* one container after the other and undoes everything on a failure; Stop  *)
(* and Resume take a node through a restart; Close removes what is left.   *)
(*                                                                         *)
(* Docker can fail any call, with or without its effect; a container can   *)
(* exit by itself at any moment, and the context of a call can end.        *)
(***************************************************************************)
EXTENDS Naturals, Files

CONSTANTS
  Kinds,        \* the kinds of helper: how many containers, whether it joins the
                \* network and can be restarted, whether it imports keys
  Faults,       \* calls that may fail: "prepare", "create", "copy", "start",
                \* "stop", "remove"
  Sources,      \* what the file system of a source container may be
  Keystores     \* the lists of files a caller may hand over

ASSUME SidecarAssumption ==
  /\ Kinds \subseteq [parts : Nat \ {0}, joins : BOOLEAN, restarts : BOOLEAN, imports : BOOLEAN]
  /\ Faults \subseteq {"prepare", "create", "copy", "start", "stop", "remove"}
  /\ Keystores \subseteq Seq([name : Seq(STRING), body : STRING])
  /\ \A found \in Sources : IsFiniteSet(DOMAIN found) /\ DOMAIN found \subseteq Seq(STRING)

VARIABLES
  kind,       \* the kind of the helper
  container,  \* container[k]: the state of container k in Docker
  ready,      \* the containers whose service answers requests
  answered,   \* the containers whose present process answered the helper
  handles,    \* the containers the helper holds
  clients,    \* the open connections: to Docker, to the execution client
  helper,     \* what the caller holds: nothing yet, a helper, an error, a closed helper
  pc, at,     \* the step of the call in progress and the container it is about
  op,         \* the call in progress, or the last one
  canceled,   \* the context of the call has ended
  failed,     \* the call reports an error
  unremoved,  \* the containers whose removal reported an error
  lost,       \* the containers whose creation reported an error
  tree,       \* the file system of the source's container
  keystores,  \* the files the caller hands over
  given,      \* the files every container of the helper is created with
  fs          \* fs[k]: the file system of container k

NumParts == kind.parts
Parts == 1 .. NumParts

docker == <<container, ready, answered>>
files == <<kind, tree, keystores, given, fs>>
call == <<pc, at, op>>
vars == <<docker, handles, clients, helper, call, canceled, failed, unremoved, lost, files>>

Steps == {"idle", "source", "network", "files", "create", "copy", "start", "wait", "abort", "stop", "remove"}
States == {"absent", "created", "running", "stopped", "crashed"}

Init ==
  /\ kind \in Kinds
  /\ container = [k \in Parts |-> "absent"]
  /\ ready = {} /\ answered = {}
  /\ handles = {} /\ clients = {}
  /\ helper = "none"
  /\ pc = "idle" /\ at = 1 /\ op = "none"
  /\ canceled = FALSE /\ failed = FALSE
  /\ unremoved = {} /\ lost = {}
  /\ tree \in Sources /\ keystores \in (IF kind.imports THEN Keystores ELSE {<<>>})
  /\ given = <<>> /\ fs = [k \in Parts |-> <<>>]

-----------------------------------------------------------------------------
(***************************************************************************)
(* The environment.                                                        *)
(***************************************************************************)
SetContainer(k, state) ==
  /\ container' = [container EXCEPT ![k] = state]
  /\ IF state = "running" THEN UNCHANGED <<ready, answered>>
     ELSE ready' = ready \ {k} /\ answered' = answered \ {k}

Crash(k) ==
  /\ container[k] = "running"
  /\ SetContainer(k, "crashed")
  /\ UNCHANGED <<handles, clients, helper, call, canceled, failed, unremoved, lost, files>>

BecomeReady(k) ==
  /\ container[k] = "running" /\ k \notin ready
  /\ ready' = ready \cup {k}
  /\ UNCHANGED <<container, answered, handles, clients, helper, call, canceled, failed, unremoved, lost, files>>

Cancel ==
  /\ pc # "idle" /\ ~canceled
  /\ canceled' = TRUE
  /\ UNCHANGED <<docker, handles, clients, helper, call, failed, unremoved, lost, files>>

\* A call of Docker on the context of the caller cannot succeed once it ended.
Works == ~canceled
Fails(step) == canceled \/ step \in Faults

-----------------------------------------------------------------------------
(***************************************************************************)
(* The calls of a test, one at a time.  The handle stays valid after a     *)
(* failed Stop or Resume; the cleanup of the spec closes it.               *)
(***************************************************************************)
Enter(operation, step, k) ==
  /\ pc = "idle"
  /\ op' = operation /\ pc' = step /\ at' = k
  /\ canceled' = FALSE /\ failed' = FALSE

Goto(step, k) == pc' = step /\ at' = k /\ UNCHANGED op

CallStart ==
  /\ helper = "none"
  /\ Enter("start", "source", 1)
  /\ clients' = {"docker"}
  /\ UNCHANGED <<docker, handles, helper, unremoved, lost, files>>

CallStop ==
  /\ kind.restarts /\ helper = "live" /\ op \in {"start", "resume"} /\ ~failed
  /\ Enter("stop", "stop", NumParts)
  /\ UNCHANGED <<docker, handles, clients, helper, unremoved, lost, files>>

CallResume ==
  /\ helper = "live" /\ op = "stop" /\ ~failed
  /\ Enter("resume", "start", 1)
  /\ UNCHANGED <<docker, handles, clients, helper, unremoved, lost, files>>

CallClose ==
  /\ helper = "live"
  /\ Enter("close", "remove", NumParts)
  /\ UNCHANGED <<docker, handles, clients, helper, unremoved, lost, files>>

-----------------------------------------------------------------------------
(***************************************************************************)
(* How calls end.                                                          *)
(***************************************************************************)
Return == pc' = "idle" /\ UNCHANGED <<at, op>>

\* A failed Start removes every container it holds; a failed Stop or Resume
\* leaves the helper to its owner.
GiveUp ==
  /\ failed' = TRUE
  /\ IF op = "start" THEN Goto("remove", NumParts) ELSE Return
  /\ UNCHANGED <<helper, clients>>

\* A request before the first container is created.
Obtain(step, next) ==
  /\ pc = step
  /\ \/ Works /\ Goto(next, 1) /\ UNCHANGED <<clients, helper, failed>>
     \/ Fails("prepare") /\ GiveUp
  /\ UNCHANGED <<docker, handles, canceled, unremoved, lost, files>>

QuerySource == Obtain("source", IF kind.joins THEN "network" ELSE "files")

\* ServiceNetwork: the network on which the source has its private address.
FindNetwork == Obtain("network", "files")

ConfigPath == <<"config", "chain">>
KeysDir == <<"keys">>
SourceConfig == ReadFile(tree, ConfigPath)

\* ReadServiceFile of the source's configuration, which must not be empty, and
\* the files of the caller.
ReadFiles ==
  /\ pc = "files"
  /\ \/ /\ Works /\ SourceConfig \notin {Refused, "empty"}
        /\ FilesIn(KeysDir, keystores) # Refused
        /\ given' = <<File(ConfigPath, SourceConfig)>> \o FilesIn(KeysDir, keystores)
        /\ Goto("create", 1) /\ UNCHANGED <<clients, helper, failed>>
     \/ /\ \/ SourceConfig \in {Refused, "empty"} \/ FilesIn(KeysDir, keystores) = Refused
           \/ Fails("prepare")
        /\ GiveUp /\ UNCHANGED given
  /\ UNCHANGED <<docker, handles, canceled, unremoved, lost, kind, tree, keystores, fs>>

\* create, up to the identity of the container.  Docker can create it and the
\* call report an error: nobody knows the container then.
Create ==
  /\ pc = "create"
  /\ \/ Works /\ Archive(given) # Refused /\ SetContainer(at, "created") /\ Goto("copy", at)
        /\ UNCHANGED <<clients, helper, failed, lost>>
     \/ /\ Fails("create") \/ Archive(given) = Refused
        /\ GiveUp /\ UNCHANGED <<docker, lost>>
     \/ "create" \in Faults /\ Archive(given) # Refused /\ SetContainer(at, "created") /\ lost' = lost \cup {at} /\ GiveUp
  /\ UNCHANGED <<handles, canceled, unremoved, files>>

Copy ==
  /\ pc = "copy"
  /\ \/ /\ Works /\ Goto("start", at) /\ UNCHANGED failed
        /\ fs' = [fs EXCEPT ![at] = Extract(Archive(given))]
     \/ Fails("copy") /\ failed' = TRUE /\ Goto("abort", at) /\ UNCHANGED fs
  /\ UNCHANGED <<docker, handles, clients, helper, canceled, unremoved, lost, kind, tree, keystores, given>>

\* Faulty: nothing waits for a container that is started again.
StartResumesAtOnce ==
  /\ pc = "start"
  /\ SetContainer(at, "running")
  /\ handles' = handles \cup {at}
  /\ IF op = "start" THEN Goto("wait", at) /\ UNCHANGED <<clients, helper, failed>>
     ELSE /\ IF at < NumParts THEN Goto("start", at + 1) ELSE Return
          /\ UNCHANGED <<clients, helper, failed>>
  /\ UNCHANGED <<canceled, unremoved, lost, files>>

\* Container.Start, of a new container or of one that was stopped.  The helper
\* holds a new container only when sidecar.Start returned it.
StartContainer ==
  /\ pc = "start"
  /\ \/ /\ Works
        /\ SetContainer(at, "running")
        /\ handles' = handles \cup {at}
        /\ Goto("wait", at) /\ UNCHANGED <<clients, helper, failed>>
     \/ /\ Fails("start")
        /\ UNCHANGED docker \/ ("start" \in Faults /\ SetContainer(at, "running"))
        /\ IF op = "start" THEN failed' = TRUE /\ Goto("abort", at) /\ UNCHANGED <<helper, clients>>
           ELSE GiveUp
        /\ UNCHANGED handles
  /\ UNCHANGED <<canceled, unremoved, lost, files>>

\* ContainerRemove on a fresh context, with force.
CloseContainer(k) ==
  \/ SetContainer(k, "absent") /\ UNCHANGED unremoved
  \/ /\ "remove" \in Faults
     /\ UNCHANGED docker \/ SetContainer(k, "absent")
     /\ unremoved' = unremoved \cup {k}

\* abort: the container sidecar.Start could not bring up.
Abort ==
  /\ pc = "abort"
  /\ CloseContainer(at)
  /\ GiveUp
  /\ UNCHANGED <<handles, canceled, lost, files>>

\* Faulty: an exited container is polled like one that is not ready yet.
PollOfExited == FALSE

\* One turn of poll: a container that stopped ends it at once.
PollExited == container[at] # "running"

\* poll, waitForExecution, waitForBeacon, waitForKeymanager.  The execution
\* client is dialed once and told its peer every time.
Poll ==
  /\ pc = "wait"
  /\ \/ /\ Works /\ ~PollExited /\ at \in ready
        /\ answered' = answered \cup {at}
        /\ clients' = clients \cup (IF NumParts > 1 /\ at = 1 THEN {"execution"} ELSE {})
        /\ IF at < NumParts
           THEN Goto(IF op = "start" THEN "create" ELSE "start", at + 1) /\ UNCHANGED helper
           ELSE Return /\ helper' = "live"
        /\ UNCHANGED failed
     \/ /\ canceled \/ PollExited
        /\ GiveUp /\ UNCHANGED answered
     \/ /\ Works /\ ~PollExited /\ NumParts > 1 /\ at = 1
        /\ clients' = clients \cup {"execution"}
        /\ UNCHANGED <<answered, call, helper, failed>>
  /\ UNCHANGED <<container, ready, handles, canceled, unremoved, lost, files>>

\* Faulty: the containers are stopped in the order they were started.
StopInStartOrder ==
  /\ pc = "stop"
  /\ SetContainer(NumParts + 1 - at, "stopped")
  /\ IF at > 1 THEN Goto("stop", at - 1) ELSE Return
  /\ UNCHANGED <<handles, clients, helper, canceled, failed, unremoved, lost, files>>

\* Node.Stop: the last container first, and none after an error.
StopContainer ==
  /\ pc = "stop"
  /\ \/ /\ Works
        /\ IF container[at] = "running" THEN SetContainer(at, "stopped") ELSE UNCHANGED docker
        /\ IF at > 1 THEN Goto("stop", at - 1) ELSE Return
        /\ UNCHANGED <<clients, helper, failed>>
     \/ /\ Fails("stop")
        /\ \/ UNCHANGED docker
           \/ "stop" \in Faults /\ container[at] = "running" /\ SetContainer(at, "stopped")
        /\ GiveUp
  /\ UNCHANGED <<handles, canceled, unremoved, lost, files>>

\* Faulty: the first container that cannot be removed ends the removal.
RemoveUntilError ==
  /\ pc = "remove"
  /\ IF at \in handles THEN CloseContainer(at) ELSE UNCHANGED <<docker, unremoved>>
  /\ IF at > 1 /\ unremoved' = unremoved
     THEN Goto("remove", at - 1) /\ UNCHANGED <<clients, helper>>
     ELSE Return /\ clients' = {} /\ helper' = IF op = "start" THEN "failed" ELSE "closed"
  /\ UNCHANGED <<handles, canceled, failed, lost, files>>

\* closeContainers: every container that is held, whatever the others answered;
\* then the Docker client.
RemoveContainer ==
  /\ pc = "remove"
  /\ IF at \in handles THEN CloseContainer(at) ELSE UNCHANGED <<docker, unremoved>>
  /\ IF at > 1
     THEN Goto("remove", at - 1) /\ UNCHANGED <<clients, helper>>
     ELSE Return /\ clients' = {} /\ helper' = IF op = "start" THEN "failed" ELSE "closed"
  /\ UNCHANGED <<handles, canceled, failed, lost, files>>

Step ==
  \/ QuerySource \/ FindNetwork \/ ReadFiles \/ Create \/ Copy \/ StartContainer \/ Abort \/ Poll
  \/ StopContainer \/ RemoveContainer

Next ==
  \/ CallStart \/ CallStop \/ CallResume \/ CallClose
  \/ Step \/ Cancel
  \/ \E k \in Parts : Crash(k) \/ BecomeReady(k)

Spec == Init /\ [][Next]_vars

\* The goroutine of the call runs, and Docker answers it.  Neither the end of
\* a context nor the readiness of a client is taken for granted.
FairSpec == Spec /\ WF_vars(Step)

-----------------------------------------------------------------------------
(***************************************************************************)
(* A start that failed and a helper that was closed leave no container and *)
(* no connection behind, except a container whose removal they report or   *)
(* whose creation Docker reported as an error.                             *)
(***************************************************************************)
NothingLeftBehind ==
  helper \in {"failed", "closed"} =>
    /\ clients = {}
    /\ \A k \in Parts : container[k] # "absent" => k \in unremoved \cup lost

(***************************************************************************)
(* When Start or Resume succeeds, each container that has not exited since *)
(* answered in its present process: after a restart the execution client   *)
(* was given its peer again, and no answer of the old process counts.      *)
(***************************************************************************)
ReadyWhenReturned ==
  pc = "idle" /\ op \in {"start", "resume"} /\ ~failed =>
    \A k \in Parts : container[k] = "running" => k \in answered

(***************************************************************************)
(* A container that was started holds every file it was given, none lost   *)
(* to another of its name, and the configuration its source runs with.     *)
(***************************************************************************)
FilesArriveWhole ==
  \A k \in Parts : container[k] \in {"running", "stopped", "crashed"} =>
    /\ ConfigPath \in DOMAIN fs[k] /\ fs[k][ConfigPath] = tree[ConfigPath].body
    /\ \A i \in DOMAIN keystores :
         \E path \in DOMAIN fs[k] : fs[k][path] = keystores[i].body

(***************************************************************************)
(* A container runs only beside the ones it depends on: however stops,     *)
(* resumes and failures follow each other, the beacon node never runs      *)
(* while its execution client is stopped or gone, or was started without   *)
(* having answered.                                                        *)
(***************************************************************************)
DependenciesFirst ==
  \A k \in Parts, j \in Parts :
    j < k /\ container[k] = "running" /\ unremoved = {} =>
      container[j] = "crashed" \/ j \in answered

(***************************************************************************)
(* A wait ends when its context does, and as soon as its container has     *)
(* exited, without the context having to end.                              *)
(***************************************************************************)
DeadContainerEndsWait ==
  (pc = "wait" /\ (canceled \/ container[at] = "crashed")) ~> (pc = "idle")
=============================================================================
