------------------------------- MODULE Attach -------------------------------
(***************************************************************************)
(* How a lane attaches to a network that somebody else runs: Inspect finds *)
(* the environment, CheckReady probes it, and the images of the lane's     *)
(* sidecars are resolved on a Docker host.  Nothing is held meanwhile: the *)
(* network can be replaced by another of its name, its services stopped    *)
(* and started, a tag moved to another build, and every look at Docker     *)
(* reads the settings of the Docker CLI anew.                              *)
(***************************************************************************)
EXTENDS Environment

CONSTANTS
  MaxAttached, \* bound: changed services of an environment that is attached to
  MaxEvents,   \* bound: what happens to the network and the Docker host
  MaxHead      \* bound: blocks of the chain

ASSUME AttachAssumption ==
  /\ {MaxAttached, MaxEvents, MaxHead} \subseteq Nat
  /\ None \notin {"remote", "malformed", "default", "named", "local"}

VARIABLES
  stage,       \* what the lane does next
  incarnation, \* how often a network of this name has been made
  stopped,     \* the primary's services that do not run
  served,      \* the primary's RPC URL still leads to its execution service
  events,      \* what has happened so far
  chain,       \* the head of the chain and the balance of the wallet
  seen,        \* the probe's first block
  version,     \* the build that the tag of the all-tools image names
  resolved,    \* resolved[role]: the immutable image of a role
  asked        \* the Docker settings of the last resolution

attach == <<stage, incarnation, stopped, served, events, chain, seen, version, resolved, asked>>
host == <<incarnation, stopped, served, version>>

Roles == ClientTypes \cup {"tools"}

AttachInit ==
  /\ Init
  /\ stage = "inspect" /\ incarnation = 1 /\ stopped = {} /\ served = TRUE /\ events = 0
  /\ chain = [head |-> 0, funded |-> TRUE] /\ seen = 0
  /\ version = 1 /\ resolved = [role \in Roles |-> None] /\ asked = None

Goto(next) == stage' = next

-----------------------------------------------------------------------------
(***************************************************************************)
(* The world outside.                                                      *)
(***************************************************************************)
Attaching == stage \notin {"inspect", "resolve", "done", "failed"}

Happens ==
  /\ Attaching /\ events < MaxEvents /\ events' = events + 1
  /\ \/ /\ incarnation' = incarnation + 1 /\ served' = FALSE /\ stopped' = {}
        /\ UNCHANGED version
     \/ \E type \in ClientTypes :
          /\ \/ type \notin stopped /\ stopped' = stopped \cup {type}
             \/ type \in stopped /\ stopped' = stopped \ {type}
          \* A started service is published on new host ports.
          /\ served' = (served /\ type # "execution")
          /\ UNCHANGED <<incarnation, version>>
     \/ version' = version + 1 /\ UNCHANGED <<incarnation, stopped, served>>
  /\ UNCHANGED <<stage, chain, seen, resolved, asked>>

Grow ==
  /\ stage \in {"first", "advance", "balance"} /\ chain.head < MaxHead
  /\ chain' \in {[head |-> chain.head + 1, funded |-> funded] : funded \in BOOLEAN}
  /\ UNCHANGED <<stage, host, events, seen, resolved, asked>>

World == (Happens \/ Grow) /\ UNCHANGED vars

-----------------------------------------------------------------------------
(***************************************************************************)
(* Inspect and CheckReady.                                                 *)
(***************************************************************************)
Fail == Goto("failed") /\ UNCHANGED <<host, events, chain, seen, resolved, asked>>

\* EnclaveExists and Services, on a network that is there.
Inspect ==
  /\ stage = "inspect"
  /\ \/ Goto("resolve") /\ UNCHANGED <<host, events, chain, seen, resolved, asked>>
     \/ Fail
  /\ UNCHANGED vars

ResolveEnvironment == stage = "resolve" /\ Next /\ UNCHANGED attach

Primary == participants[1]

\* Primary, and the dial of its RPC URL.
CheckReady ==
  /\ stage = "resolve" /\ Done
  /\ \/ failed /\ Fail
     \/ /\ ~failed /\ Cardinality(Changed) <= MaxAttached
        /\ Goto("first") /\ UNCHANGED <<host, events, chain, seen, resolved, asked>>
  /\ UNCHANGED vars

Answers == served /\ "execution" \notin stopped

FirstBlock ==
  /\ stage = "first"
  /\ \/ /\ Answers /\ Goto("advance") /\ seen' = chain.head
        /\ UNCHANGED <<host, events, chain, resolved, asked>>
     \/ Fail
  /\ UNCHANGED vars

HasAdvanced == chain.head > seen

\* retryUntil, for the advancement window.
AwaitAdvance ==
  /\ stage = "advance"
  /\ \/ /\ Answers /\ HasAdvanced /\ Goto("balance")
        /\ UNCHANGED <<host, events, chain, seen, resolved, asked>>
     \/ Fail
  /\ UNCHANGED vars

ReadBalance ==
  /\ stage = "balance"
  /\ \/ /\ Answers /\ chain.funded /\ Goto("execution")
        /\ UNCHANGED <<host, events, chain, seen, resolved, asked>>
     \/ Fail
  /\ UNCHANGED vars

-----------------------------------------------------------------------------
(***************************************************************************)
(* internal/dockerapi: which Docker host is asked.                         *)
(***************************************************************************)
Settings ==
  [host : {None, "remote", "malformed"},                     \* DOCKER_HOST
   context : {None, "default", "named"},                     \* DOCKER_CONTEXT
   config : {"missing", "broken", None, "default", "named"}, \* config.json
   stored : BOOLEAN]                                         \* the context exists

\* loadConnectionConfig: a file that cannot be read counts as one that says
\* nothing.
ConfiguredContext(settings) ==
  IF settings.config \in {"missing", "broken"} THEN None ELSE settings.config

CurrentContext(settings) ==
  IF settings.host # None THEN "default"
  ELSE IF settings.context # None THEN settings.context
  ELSE IF ConfiguredContext(settings) # None THEN ConfiguredContext(settings)
  ELSE "default"

DefaultEndpoint(settings) ==
  CASE settings.host = None -> "local"
    [] settings.host = "malformed" -> None
    [] OTHER -> settings.host

\* Faulty: a context that cannot be loaded is left for the default endpoint.
EndpointOrDefault(settings) ==
  IF CurrentContext(settings) = "named" /\ settings.stored THEN "named"
  ELSE DefaultEndpoint(settings)

\* resolveEndpoint: the Docker host, or None for an error.
Endpoint(settings) ==
  IF CurrentContext(settings) = "default" THEN DefaultEndpoint(settings)
  ELSE IF settings.stored THEN "named" ELSE None

-----------------------------------------------------------------------------
(***************************************************************************)
(* The images.  Every service of every network has one of its own, so that *)
(* no two are mistaken for each other.                                     *)
(***************************************************************************)
ServiceUUID(service, made) == <<service, made>>
ImageOf(container) == [container |-> container]

\* The running containers of the network that is there now.
Running ==
  {ServiceUUID(n, incarnation) :
     n \in Members \ {Primary.services[type] : type \in stopped}}

\* Faulty: the container is looked up by the name of its service.
ContainersNamed(uuid) == {container \in Running : container[1] = uuid[1]}

\* serviceContainer: Kurtosis labels a container with the UUID of its service.
ContainersOf(uuid) == {container \in Running : container = uuid}

\* resolveImages goes through the roles its suites need, in this order.
After(role) == CASE role = "execution" -> "beacon"
                 [] role = "beacon"    -> "validator"
                 [] role = "validator" -> "tools"
                 [] role = "tools"     -> "done"

NotNeeded(role) ==
  /\ stage = role /\ Goto(After(role))
  /\ UNCHANGED <<vars, host, events, chain, seen, resolved, asked>>

Resolved(role, image) ==
  /\ Goto(After(role)) /\ resolved' = [resolved EXCEPT ![role] = image]
  /\ UNCHANGED <<host, events, chain, seen>>

\* resolvePrimaryServiceImage.  The network's engine runs on the local host.
ResolvePrimaryImage(type) ==
  /\ stage = type
  /\ \/ LET service == Primary.services[type] IN
        /\ service # None
        /\ \E settings \in Settings : Endpoint(settings) = "local"
        /\ LET found == ContainersOf(ServiceUUID(service, 1)) IN
             /\ Cardinality(found) = 1
             /\ \E container \in found : Resolved(type, ImageOf(container))
        /\ UNCHANGED asked
     \/ Fail
  /\ UNCHANGED vars

\* ResolveLocalImage: the build a tag names on the Docker host of the moment.
ResolveToolsImage ==
  /\ stage = "tools"
  /\ \/ \E settings \in Settings :
          /\ Endpoint(settings) # None
          /\ Resolved("tools", [docker |-> Endpoint(settings), build |-> version])
          /\ asked' = settings
     \/ Fail
  /\ UNCHANGED vars

AttachNext ==
  \/ World \/ Inspect \/ ResolveEnvironment \/ CheckReady
  \/ FirstBlock \/ AwaitAdvance \/ ReadBalance
  \/ \E type \in ClientTypes : ResolvePrimaryImage(type)
  \/ ResolveToolsImage \/ \E role \in Roles : NotNeeded(role)

AttachSpec == AttachInit /\ [][AttachNext]_<<vars, attach>>

-----------------------------------------------------------------------------
(***************************************************************************)
(* The sidecars run what the inspected network runs: its primary's own     *)
(* images, though a network of the same name takes its place and services  *)
(* come and go, or none.  A tool comes from the Docker host its user named *)
(* and never from the local one because the named one cannot be found.     *)
(***************************************************************************)
ImagesAreTheNetworks ==
  /\ \A type \in ClientTypes :
       resolved[type] # None =>
         resolved[type] = ImageOf(ServiceUUID(Primary.services[type], 1))
  /\ resolved["tools"] # None =>
       resolved["tools"].docker =
         IF asked.host # None THEN asked.host
         ELSE IF asked.context # None /\ asked.context # "default" THEN asked.context
         ELSE IF asked.context = None /\ asked.config = "named" THEN "named"
         ELSE "local"
=============================================================================
