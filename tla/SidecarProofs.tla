---------------------------- MODULE SidecarProofs ----------------------------
(***************************************************************************)
(* The helpers of the suites, for any number of containers that depend on  *)
(* each other in a line, any calls of Docker that fail with or without     *)
(* their effect, and any containers that exit by themselves.               *)
(*                                                                         *)
(* A call works on one container after the other: going up, those below    *)
(* have answered; going down, those above are not running.  The inductive  *)
(* invariant says so at every step, and who still has to remove what.      *)
(*                                                                         *)
(* The sync suites, which run their nodes on such a helper, follow: what   *)
(* their verdicts say of the node, for epochs of any length, any number of *)
(* samples, any waits, and any chain a faulty node builds on or loses.     *)
(***************************************************************************)
EXTENDS Sidecar, Sync, FiniteSetTheorems, SequenceTheorems, TLAPS

TypeOK ==
  /\ kind \in Kinds
  /\ container \in [Parts -> States]
  /\ ready \in SUBSET Parts /\ answered \in SUBSET Parts /\ handles \in SUBSET Parts
  /\ unremoved \in SUBSET Parts /\ lost \in SUBSET Parts
  /\ helper \in {"none", "live", "failed", "closed"}
  /\ pc \in Steps /\ at \in Parts
  /\ op \in {"none", "start", "stop", "resume", "close"}
  /\ canceled \in BOOLEAN /\ failed \in BOOLEAN

(***************************************************************************)
(* The call in progress and what the caller holds.                         *)
(***************************************************************************)
Preparing == {"source", "network", "files"}
GoingUp == {"create", "copy", "start", "wait", "abort"}

CallInv ==
  /\ pc \in Preparing \cup {"create", "copy", "abort"} => op = "start"
  /\ pc \in {"start", "wait"} => op \in {"start", "resume"}
  /\ pc = "stop" => op = "stop"
  /\ pc = "remove" => op \in {"start", "close"}
  /\ pc # "idle" => helper = IF op = "start" THEN "none" ELSE "live"
  /\ pc = "abort" \/ (pc = "remove" /\ op = "start") => failed
  /\ helper \in {"failed", "closed"} => pc = "idle" /\ clients = {}

Running(k) == container[k] = "running"
\* A dependency that answered, and may have exited since.
Settled(k) == container[k] = "crashed" \/ k \in answered

(***************************************************************************)
(* The containers around the one the call is at.                           *)
(***************************************************************************)
OrderInv ==
  /\ \A k \in answered : Running(k)
  /\ pc \in Preparing \/ (pc = "idle" /\ helper = "none") => \A k \in Parts : container[k] = "absent"
  /\ pc \in GoingUp => \A j \in Parts : j < at => Settled(j)
  /\ pc \in GoingUp \cup {"stop"} => \A k \in Parts : k > at => ~Running(k)
  /\ pc = "idle" /\ op \in {"start", "resume"} /\ ~failed => \A k \in Parts : Settled(k)
  /\ pc = "idle" /\ op = "stop" /\ ~failed => \A k \in Parts : ~Running(k)
  /\ unremoved = {} =>
       /\ pc = "remove" => \A k \in Parts : k > at => ~Running(k)
       /\ \A k \in Parts, j \in Parts : j < k /\ Running(k) => Settled(j)

(***************************************************************************)
(* Who removes a container: the helper that holds it, or the start that    *)
(* has not handed it over yet.                                             *)
(***************************************************************************)
OwnerInv ==
  /\ helper = "live" => handles = Parts
  /\ pc \in GoingUp => \A j \in Parts : j < at => j \in handles
  /\ pc = "wait" => at \in handles
  /\ \A k \in Parts : container[k] # "absent" =>
       \/ k \in handles \cup unremoved \cup lost
       \/ k = at /\ pc \in {"copy", "start", "abort"}
  /\ unremoved = {} => \A k \in Parts : Running(k) => k \in handles \/ (k = at /\ pc = "abort")
  /\ pc = "remove" => \A k \in Parts : k > at /\ container[k] # "absent" => k \in unremoved \cup lost
  /\ helper \in {"failed", "closed"} =>
       \A k \in Parts : container[k] # "absent" => k \in unremoved \cup lost

(***************************************************************************)
(* The files: gathered before the first container is created, and in every *)
(* container that was started.                                             *)
(***************************************************************************)
Gathered ==
  /\ FilesIn(KeysDir, keystores) # Refused
  /\ SourceConfig # Refused
  /\ given = <<File(ConfigPath, SourceConfig)>> \o FilesIn(KeysDir, keystores)

Filled(k) == Gathered /\ Archive(given) # Refused /\ fs[k] = Extract(Archive(given))

FilesInv ==
  /\ tree \in Sources /\ keystores \in Keystores \cup {<<>>} /\ DOMAIN fs = Parts
  /\ pc \in Preparing \/ (pc = "idle" /\ helper = "none") => handles = {}
  /\ pc \in GoingUp => Gathered
  /\ pc = "copy" => Archive(given) # Refused
  /\ pc \in {"start", "wait"} => Filled(at)
  /\ \A k \in Parts : k \in handles \/ container[k] \in {"running", "stopped", "crashed"} => Filled(k)

IInv == TypeOK /\ CallInv /\ OrderInv /\ OwnerInv /\ FilesInv
-----------------------------------------------------------------------------
\* A helper has at least one container.
LEMMA PartsAreNumbered ==
  ASSUME TypeOK
  PROVE  NumParts \in Nat \ {0} /\ 1 \in Parts /\ NumParts \in Parts /\ at \in Nat
<1>1. NumParts \in Nat \ {0}
  BY SidecarAssumption DEF TypeOK, NumParts
<1> QED
  BY <1>1 DEF TypeOK, Parts

\* The kind of a helper never changes.
LEMMA KindStays ==
  ASSUME [Next]_vars
  PROVE  kind' = kind /\ NumParts' = NumParts /\ Parts' = Parts
<1>1. kind' = kind
  <2> USE DEF files
  <2>1. CASE CallStart \/ CallStop \/ CallResume \/ CallClose \/ Cancel
    BY <2>1 DEF CallStart, CallStop, CallResume, CallClose, Cancel
  <2>2. CASE QuerySource \/ FindNetwork \/ ReadFiles \/ Create \/ Copy
    BY <2>2 DEF QuerySource, FindNetwork, Obtain, ReadFiles, Create, Copy
  <2>3. CASE StartContainer \/ Abort \/ Poll \/ StopContainer \/ RemoveContainer
    BY <2>3 DEF StartContainer, Abort, Poll, StopContainer, RemoveContainer
  <2>4. CASE \E k \in Parts : Crash(k) \/ BecomeReady(k)
    BY <2>4 DEF Crash, BecomeReady
  <2> QED
    BY <2>1, <2>2, <2>3, <2>4 DEF Next, Step, vars
<1> QED
  BY <1>1 DEF NumParts, Parts

LEMMA TypeStep ==
  ASSUME TypeOK, CallInv, [Next]_vars
  PROVE  TypeOK'
<1> USE PartsAreNumbered, KindStays
    DEF TypeOK, Steps, States, SetContainer, Goto, Return, GiveUp, docker, call, files
<1>1. CASE CallStart \/ CallStop \/ CallResume \/ CallClose
  BY <1>1 DEF CallStart, CallStop, CallResume, CallClose, Enter
<1>2. CASE QuerySource \/ FindNetwork
  BY <1>2 DEF QuerySource, FindNetwork, Obtain
<1>3. CASE ReadFiles
  BY <1>3 DEF ReadFiles
<1>4. CASE Create
  BY <1>4 DEF Create
<1>5. CASE Copy
  BY <1>5 DEF Copy
<1>6. CASE StartContainer
  BY <1>6 DEF StartContainer
<1>7. CASE Abort
  BY <1>7 DEF Abort, CloseContainer
<1>8. CASE Poll
  <2>1. at < NumParts => at + 1 \in Parts
    BY DEF Parts
  <2> QED
    BY <1>8, <2>1 DEF Poll
<1>9. CASE StopContainer
  <2>1. at > 1 => at - 1 \in Parts
    BY DEF Parts
  <2> QED
    BY <1>9, <2>1 DEF StopContainer
<1>10. CASE RemoveContainer
  <2>1. at > 1 => at - 1 \in Parts
    BY DEF Parts
  <2> QED
    BY <1>10, <2>1 DEF RemoveContainer, CloseContainer
<1>11. CASE Cancel
  BY <1>11 DEF Cancel
<1>12. CASE \E k \in Parts : Crash(k) \/ BecomeReady(k)
  BY <1>12 DEF Crash, BecomeReady
<1>13. CASE UNCHANGED vars
  BY <1>13 DEF vars
<1> QED
  BY <1>1, <1>2, <1>3, <1>4, <1>5, <1>6, <1>7, <1>8, <1>9, <1>10, <1>11, <1>12, <1>13 DEF Next, Step

LEMMA CallStep ==
  ASSUME TypeOK, CallInv, [Next]_vars
  PROVE  CallInv'
<1> USE PartsAreNumbered
    DEF TypeOK, CallInv, Preparing, Steps, Goto, Return, GiveUp, docker, call, files
<1>1. CASE CallStart \/ CallStop \/ CallResume \/ CallClose
  BY <1>1 DEF CallStart, CallStop, CallResume, CallClose, Enter
<1>2. CASE QuerySource \/ FindNetwork
  BY <1>2 DEF QuerySource, FindNetwork, Obtain
<1>3. CASE ReadFiles
  BY <1>3 DEF ReadFiles
<1>4. CASE Create \/ Copy
  BY <1>4 DEF Create, Copy
<1>5. CASE StartContainer
  BY <1>5 DEF StartContainer
<1>6. CASE Abort
  BY <1>6 DEF Abort
<1>7. CASE Poll
  BY <1>7 DEF Poll
<1>8. CASE StopContainer
  BY <1>8 DEF StopContainer
<1>9. CASE RemoveContainer
  BY <1>9 DEF RemoveContainer
<1>10. CASE Cancel \/ \E k \in Parts : Crash(k) \/ BecomeReady(k)
  BY <1>10 DEF Cancel, Crash, BecomeReady
<1>11. CASE UNCHANGED vars
  BY <1>11 DEF vars
<1> QED
  BY <1>1, <1>2, <1>3, <1>4, <1>5, <1>6, <1>7, <1>8, <1>9, <1>10, <1>11 DEF Next, Step

(***************************************************************************)
(* What a change of a container means for the others.                      *)
(***************************************************************************)
LEMMA SetContainerStep ==
  ASSUME TypeOK, NEW k \in Parts, NEW state \in States, SetContainer(k, state)
  PROVE  /\ container'[k] = state
         /\ \A j \in Parts \ {k} : container'[j] = container[j] /\ (j \in answered' <=> j \in answered)
         /\ state # "running" => k \notin answered'
         /\ state = "running" => answered' = answered
  BY DEF TypeOK, SetContainer

LEMMA OrderStep ==
  ASSUME TypeOK, CallInv, OrderInv, OwnerInv, [Next]_vars
  PROVE  OrderInv'
<1> USE PartsAreNumbered, KindStays
    DEF TypeOK, CallInv, OrderInv, Preparing, GoingUp, Steps, Running, Settled,
        Goto, Return, GiveUp, docker, call, files
<1>0. \A j \in Parts : j \in Nat /\ 1 <= j /\ j <= NumParts
  BY DEF Parts
<1>1. CASE CallStart \/ CallStop \/ CallResume \/ CallClose
  BY <1>0, <1>1 DEF CallStart, CallStop, CallResume, CallClose, Enter
<1>2. CASE QuerySource \/ FindNetwork
  BY <1>0, <1>2 DEF QuerySource, FindNetwork, Obtain
<1>3. CASE ReadFiles
  BY <1>0, <1>3 DEF ReadFiles
<1>4. CASE Create
  <2>1. /\ pc = "create" /\ op = "start" /\ helper = "none" /\ at \in Parts
        /\ UNCHANGED <<op, helper, unremoved>>
        /\ (pc' = "copy" /\ at' = at) \/ (pc' = "remove" /\ at' = NumParts)
    BY <1>4 DEF Create
  <2>2. \/ UNCHANGED <<container, answered>>
        \/ /\ container'[at] = "created" /\ at \notin answered'
           /\ \A j \in Parts \ {at} : container'[j] = container[j] /\ (j \in answered' <=> j \in answered)
    BY <1>4, SetContainerStep DEF Create, States
  <2>3. answered' \subseteq Parts
    BY TypeStep
  <2> QED
    BY <1>0, <2>1, <2>2, <2>3
<1>5. CASE Copy
  BY <1>0, <1>5 DEF Copy
<1>6. CASE StartContainer
  BY <1>0, <1>6, SetContainerStep DEF StartContainer, States
<1>7. CASE Abort
  <2>1. /\ pc = "abort" /\ op = "start" /\ helper = "none" /\ at \in Parts
        /\ UNCHANGED <<op, helper>> /\ pc' = "remove" /\ at' = NumParts
    BY <1>7 DEF Abort
  <2>2. \/ UNCHANGED <<container, answered>> /\ unremoved' # {}
        \/ /\ container'[at] = "absent" /\ at \notin answered'
           /\ \A j \in Parts \ {at} : container'[j] = container[j] /\ (j \in answered' <=> j \in answered)
           /\ unremoved' = {} => unremoved = {}
    BY <1>7, SetContainerStep DEF Abort, CloseContainer, States
  <2>3. answered' \subseteq Parts
    BY TypeStep
  <2> QED
    BY <1>0, <2>1, <2>2, <2>3
<1>8. CASE Poll
  <2>1. /\ pc = "wait" /\ op \in {"start", "resume"} /\ UNCHANGED <<container, op, unremoved>>
        /\ at \in Parts
    BY <1>8 DEF Poll
  <2>2. \/ /\ answered' = answered \cup {at} /\ Running(at)
           /\ IF at < NumParts
              THEN pc' \in {"create", "start"} /\ at' = at + 1
              ELSE pc' = "idle" /\ at' = at /\ helper' = "live"
        \/ /\ UNCHANGED <<answered, helper>>
           /\ IF op = "start" THEN pc' = "remove" /\ at' = NumParts
              ELSE pc' = "idle" /\ failed'
        \/ UNCHANGED <<answered, helper, pc, at>>
    BY <1>8 DEF Poll, PollExited
  <2> QED
    BY <1>0, <2>1, <2>2
<1>9. CASE StopContainer
  <2>1. /\ pc = "stop" /\ op = "stop" /\ helper = "live" /\ at \in Parts /\ helper' = helper
        /\ UNCHANGED <<op, unremoved>>
        /\ \/ /\ container'[at] # "running"
              /\ IF at > 1 THEN pc' = "stop" /\ at' = at - 1 ELSE pc' = "idle"
           \/ pc' = "idle" /\ failed'
    <3>1. CASE /\ IF container[at] = "running" THEN SetContainer(at, "stopped") ELSE UNCHANGED docker
               /\ IF at > 1 THEN Goto("stop", at - 1) ELSE Return
      <4>1. container'[at] # "running"
        BY <3>1, SetContainerStep DEF States
      <4> QED
        BY <1>9, <3>1, <4>1 DEF StopContainer
    <3> QED
      BY <1>9, <3>1 DEF StopContainer
  <2>2. \/ UNCHANGED <<container, answered>>
        \/ /\ container'[at] = "stopped" /\ at \notin answered'
           /\ \A j \in Parts \ {at} : container'[j] = container[j] /\ (j \in answered' <=> j \in answered)
    BY <1>9, SetContainerStep DEF StopContainer, States
  <2>3. answered' \subseteq Parts
    BY TypeStep
  <2> QED
    BY <1>0, <2>1, <2>2, <2>3
<1>10. CASE RemoveContainer
  <2>1. /\ pc = "remove" /\ op \in {"start", "close"} /\ at \in Parts /\ op' = op
        /\ op = "start" => failed /\ failed'
        /\ IF at > 1 THEN pc' = "remove" /\ at' = at - 1
           ELSE pc' = "idle" /\ helper' \in {"failed", "closed"}
    BY <1>10 DEF RemoveContainer
  <2>2. \/ UNCHANGED <<container, answered, unremoved>> /\ at \notin handles
        \/ UNCHANGED <<container, answered>> /\ unremoved' # {}
        \/ /\ container'[at] = "absent" /\ at \notin answered'
           /\ \A j \in Parts \ {at} : container'[j] = container[j] /\ (j \in answered' <=> j \in answered)
           /\ unremoved' = {} => unremoved = {}
    BY <1>10, SetContainerStep DEF RemoveContainer, CloseContainer, States
  <2>3. answered' \subseteq Parts
    BY TypeStep
  <2>4. unremoved = {} /\ at \notin handles => ~Running(at)
    BY <2>1 DEF OwnerInv
  <2>5. \A k \in answered' : Running(k)'
    BY <2>2, <2>3
  <2>6. unremoved' = {} /\ pc' = "remove" => \A k \in Parts : k > at' => ~Running(k)'
    BY <1>0, <2>1, <2>2, <2>4
  <2>7. unremoved' = {} => \A k \in Parts, j \in Parts : j < k /\ Running(k)' => Settled(j)'
    BY <1>0, <2>1, <2>2
  <2> QED
    BY <2>1, <2>5, <2>6, <2>7
<1>11. CASE Cancel
  BY <1>11 DEF Cancel
<1>12. ASSUME NEW k \in Parts, Crash(k)
       PROVE  OrderInv'
  <2>1. /\ Running(k) /\ container'[k] = "crashed" /\ k \notin answered'
        /\ \A j \in Parts \ {k} : container'[j] = container[j] /\ (j \in answered' <=> j \in answered)
        /\ UNCHANGED <<pc, at, op, helper, failed, unremoved>>
    BY <1>12, SetContainerStep DEF Crash, States
  <2>2. answered' \subseteq Parts
    BY <1>12, TypeStep DEF Next
  <2> QED
    BY <2>1, <2>2
<1>13. ASSUME NEW k \in Parts, BecomeReady(k)
       PROVE  OrderInv'
  BY <1>13 DEF BecomeReady
<1>14. CASE UNCHANGED vars
  BY <1>14 DEF vars
<1> QED
  BY <1>1, <1>2, <1>3, <1>4, <1>5, <1>6, <1>7, <1>8, <1>9, <1>10, <1>11, <1>12, <1>13, <1>14
  DEF Next, Step

LEMMA OwnerStep ==
  ASSUME TypeOK, CallInv, OrderInv, OwnerInv, [Next]_vars
  PROVE  OwnerInv'
<1> USE PartsAreNumbered, KindStays
    DEF TypeOK, CallInv, OwnerInv, Preparing, GoingUp, Steps, Running,
        Goto, Return, GiveUp, docker, call, files
<1>0. \A j \in Parts : j \in Nat /\ 1 <= j /\ j <= NumParts
  BY DEF Parts
<1>1. CASE CallStart \/ CallStop \/ CallResume \/ CallClose
  BY <1>0, <1>1 DEF CallStart, CallStop, CallResume, CallClose, Enter
<1>2. CASE QuerySource \/ FindNetwork
  BY <1>0, <1>2 DEF QuerySource, FindNetwork, Obtain
<1>3. CASE ReadFiles
  BY <1>0, <1>3 DEF ReadFiles
<1>4. CASE Create
  BY <1>0, <1>4, SetContainerStep DEF Create, States
<1>5. CASE Copy
  BY <1>0, <1>5 DEF Copy
<1>6. CASE StartContainer
  BY <1>0, <1>6, SetContainerStep DEF StartContainer, States
<1>7. CASE Abort
  BY <1>0, <1>7, SetContainerStep DEF Abort, CloseContainer, States
<1>8. CASE Poll
  BY <1>0, <1>8 DEF Poll
<1>9. CASE StopContainer
  BY <1>0, <1>9, SetContainerStep DEF StopContainer, States
<1>10. CASE RemoveContainer
  BY <1>0, <1>10, SetContainerStep DEF RemoveContainer, CloseContainer, States
<1>11. CASE Cancel
  BY <1>11 DEF Cancel
<1>12. ASSUME NEW k \in Parts, Crash(k)
       PROVE  OwnerInv'
  BY <1>12, SetContainerStep DEF Crash, States
<1>13. ASSUME NEW k \in Parts, BecomeReady(k)
       PROVE  OwnerInv'
  BY <1>13 DEF BecomeReady
<1>14. CASE UNCHANGED vars
  BY <1>14 DEF vars
<1> QED
  BY <1>1, <1>2, <1>3, <1>4, <1>5, <1>6, <1>7, <1>8, <1>9, <1>10, <1>11, <1>12, <1>13, <1>14
  DEF Next, Step

-----------------------------------------------------------------------------
(***************************************************************************)
(* An archive that was not refused holds every file it was made of, under  *)
(* its clean path: no file overwrites another when it is extracted.        *)
(***************************************************************************)
LEMMA ArchiveKeepsFiles ==
  ASSUME NEW list, DOMAIN list \subseteq Nat, Archive(list) # Refused
  PROVE  \A i \in DOMAIN list :
           /\ Clean(list[i].name) \in DOMAIN Extract(Archive(list))
           /\ Extract(Archive(list))[Clean(list[i].name)] = list[i].body
<1> DEFINE entries == [i \in DOMAIN list |-> File(Clean(list[i].name), list[i].body)]
<1>1. Archive(list) = entries
  BY DEF Archive
<1>2. \A i, j \in DOMAIN list : Clean(list[i].name) = Clean(list[j].name) => i = j
  BY DEF Archive
<1>3. \A i \in DOMAIN list : /\ entries[i].name = Clean(list[i].name)
                             /\ entries[i].body = list[i].body
  BY DEF File
<1>4. DOMAIN entries = DOMAIN list
  OBVIOUS
<1> HIDE DEF entries
<1>5. ASSUME NEW i \in DOMAIN list
      PROVE  /\ Clean(list[i].name) \in DOMAIN Extract(entries)
             /\ Extract(entries)[Clean(list[i].name)] = list[i].body
  <2> DEFINE path == entries[i].name
             IsLast(k) == entries[k].name = path /\ \A j \in DOMAIN entries : entries[j].name = path => j <= k
             last == CHOOSE k \in DOMAIN entries : IsLast(k)
  <2>1. path \in {entries[j].name : j \in DOMAIN entries}
    BY <1>4
  <2>2. Extract(entries)[path] = entries[last].body
    BY <2>1 DEF Extract
  <2>3. \A k \in DOMAIN entries : entries[k].name = path => k = i
    BY <1>2, <1>3, <1>4
  <2>4. IsLast(i)
    BY <1>4, <2>3
  <2>5. last = i
    BY <1>4, <2>3, <2>4
  <2> QED
    BY <1>3, <1>5, <2>1, <2>2, <2>5 DEF Extract
<1> QED
  BY <1>1, <1>5

(***************************************************************************)
(* The gathered files are the configuration and then those of the caller.  *)
(***************************************************************************)
LEMMA GatheredFiles ==
  ASSUME keystores \in Keystores \cup {<<>>}, Gathered
  PROVE  /\ DOMAIN given \subseteq Nat
         /\ 1 \in DOMAIN given /\ given[1] = File(ConfigPath, SourceConfig)
         /\ \A i \in DOMAIN keystores : i + 1 \in DOMAIN given /\ given[i + 1].body = keystores[i].body
<1> DEFINE keys == FilesIn(KeysDir, keystores)
<1>1. keystores \in Seq([name : Seq(STRING), body : STRING])
  <2>1. CASE keystores \in Keystores
    BY <2>1, SidecarAssumption
  <2>2. CASE keystores = <<>>
    BY <2>2
  <2> QED
    BY <2>1, <2>2
<1>2. /\ DOMAIN keys = DOMAIN keystores
      /\ \A i \in DOMAIN keystores : keys[i].body = keystores[i].body
  BY DEF FilesIn, File, Gathered
<1>3. Len(keystores) \in Nat /\ DOMAIN keystores = 1 .. Len(keystores)
  BY <1>1
<1>4. keys \in Seq({keys[i] : i \in DOMAIN keys}) /\ Len(keys) = Len(keystores)
  <2> DEFINE bodies == {keys[i] : i \in DOMAIN keys}
  <2>1. keys = [i \in 1 .. Len(keystores) |-> keys[i]]
    BY <1>3 DEF FilesIn, Gathered
  <2> HIDE DEF keys
  <2>2. DOMAIN keys = 1 .. Len(keystores)
    BY <2>1
  <2>3. \A i \in 1 .. Len(keystores) : keys[i] \in bodies
    BY <2>2
  <2> HIDE DEF bodies
  <2>4. keys \in [1 .. Len(keystores) -> bodies]
    BY <2>1, <2>3
  <2>5. keys \in Seq(bodies) /\ Len(keys) = Len(keystores)
    BY <1>3, <2>4
  <2> QED
    BY <2>5 DEF bodies
<1> HIDE DEF keys
<1>5. given = <<File(ConfigPath, SourceConfig)>> \o keys
  BY DEF Gathered, keys
<1>6. /\ DOMAIN given = 1 .. (1 + Len(keys)) /\ given[1] = File(ConfigPath, SourceConfig)
      /\ \A i \in 1 .. Len(keys) : given[i + 1] = keys[i]
  BY <1>3, <1>4, <1>5
<1> QED
  BY <1>2, <1>3, <1>4, <1>6

LEMMA FilesStep ==
  ASSUME IInv, [Next]_vars
  PROVE  FilesInv'
<1>a. /\ TypeOK /\ CallInv /\ OrderInv /\ OwnerInv /\ FilesInv
      /\ kind' = kind /\ Parts' = Parts
  BY KindStays DEF IInv
<1>b. ASSUME UNCHANGED <<tree, keystores, given>>
      PROVE  /\ Gathered => Gathered'
             /\ \A k : Filled(k) /\ fs'[k] = fs[k] => Filled(k)'
  BY <1>b DEF Gathered, Filled, SourceConfig
<1> USE <1>a, <1>b, PartsAreNumbered
    DEF TypeOK, CallInv, FilesInv, Preparing, GoingUp, Steps, Goto, Return, GiveUp, docker, call, files
<1>1. CASE CallStart \/ CallStop \/ CallResume \/ CallClose
  <2>1. UNCHANGED <<container, handles, tree, keystores, given, fs>>
    BY <1>1 DEF CallStart, CallStop, CallResume, CallClose
  <2>2. pc = "idle"
    BY <1>1 DEF CallStart, CallStop, CallResume, CallClose, Enter
  <2>3. \/ pc' = "source" /\ helper = "none"
        \/ pc' \in {"stop", "remove"}
        \/ pc' = "start" /\ at' = 1 /\ helper = "live"
    BY <1>1 DEF CallStart, CallStop, CallResume, CallClose, Enter
  <2>4. Gathered' = Gathered /\ \A k : Filled(k)' = Filled(k)
    BY <2>1 DEF Gathered, Filled, SourceConfig
  <2>5. helper = "live" => 1 \in handles
    BY DEF OwnerInv
  <2>6. helper = "live" => Filled(1) /\ Gathered
    BY <2>5 DEF Filled
  <2> QED
    BY <2>1, <2>2, <2>3, <2>4, <2>6
<1>2. CASE QuerySource \/ FindNetwork
  BY <1>2 DEF QuerySource, FindNetwork, Obtain
<1>3. CASE ReadFiles
  BY <1>3 DEF ReadFiles, OrderInv, Gathered, SourceConfig
<1>4. CASE Create
  BY <1>4, SetContainerStep DEF Create, States
<1>5. CASE Copy
  BY <1>5 DEF Copy, Filled, Gathered, SourceConfig
<1>6. CASE StartContainer
  BY <1>6, SetContainerStep DEF StartContainer, States, Filled
<1>7. CASE Abort
  BY <1>7, SetContainerStep DEF Abort, CloseContainer, States
<1>8. CASE Poll
  BY <1>8 DEF Poll, OwnerInv, Filled
<1>9. CASE StopContainer
  BY <1>9, SetContainerStep DEF StopContainer, States
<1>10. CASE RemoveContainer
  BY <1>10, SetContainerStep DEF RemoveContainer, CloseContainer, States
<1>11. CASE Cancel
  BY <1>11 DEF Cancel
<1>12. ASSUME NEW k \in Parts, Crash(k)
       PROVE  FilesInv'
  BY <1>12, SetContainerStep DEF Crash, States
<1>13. ASSUME NEW k \in Parts, BecomeReady(k)
       PROVE  FilesInv'
  BY <1>13 DEF BecomeReady
<1>14. CASE UNCHANGED vars
  BY <1>14 DEF vars
<1> QED
  BY <1>1, <1>2, <1>3, <1>4, <1>5, <1>6, <1>7, <1>8, <1>9, <1>10, <1>11, <1>12, <1>13, <1>14
  DEF Next, Step

LEMMA InvCorrect == Spec => []IInv
<1>1. Init => IInv
  <2> SUFFICES ASSUME Init
               PROVE  IInv
    OBVIOUS
  <2>1. TypeOK
    <3>1. 1 \in Parts
      BY SidecarAssumption DEF Init, Parts, NumParts
    <3> QED
      BY <3>1 DEF Init, TypeOK, Steps, States
  <2>2. CallInv /\ OrderInv
    BY DEF Init, CallInv, OrderInv, Preparing, GoingUp, Running
  <2>3. OwnerInv
    BY DEF Init, OwnerInv, GoingUp, Running
  <2>4. FilesInv
    BY DEF Init, FilesInv, Preparing, GoingUp
  <2> QED
    BY <2>1, <2>2, <2>3, <2>4 DEF IInv
<1>2. IInv /\ [Next]_vars => IInv'
  BY TypeStep, CallStep, OrderStep, OwnerStep, FilesStep DEF IInv
<1> QED
  BY <1>1, <1>2, PTL DEF Spec

-----------------------------------------------------------------------------
(***************************************************************************)
(* Whatever Docker answers, a helper that was closed, or whose start       *)
(* failed, keeps no connection, and a container only if it said so.        *)
(***************************************************************************)
THEOREM NothingStays == Spec => []NothingLeftBehind
<1>1. IInv => NothingLeftBehind
  BY DEF IInv, CallInv, OwnerInv, NothingLeftBehind
<1> QED
  BY <1>1, InvCorrect, PTL

(***************************************************************************)
(* A start or a resume that succeeds returns when every container has      *)
(* answered in its present process.                                        *)
(***************************************************************************)
THEOREM ReturnsReady == Spec => []ReadyWhenReturned
<1>1. IInv => ReadyWhenReturned
  BY DEF IInv, OrderInv, Settled, ReadyWhenReturned
<1> QED
  BY <1>1, InvCorrect, PTL

(***************************************************************************)
(* No container runs beside a dependency that was stopped, removed or      *)
(* never ready, in whatever order the calls and their failures come.       *)
(***************************************************************************)
THEOREM DependenciesHold == Spec => []DependenciesFirst
<1>1. IInv => DependenciesFirst
  BY DEF IInv, OrderInv, Running, Settled, DependenciesFirst
<1> QED
  BY <1>1, InvCorrect, PTL

(***************************************************************************)
(* The first of some places, and the list of a finite set.                 *)
(***************************************************************************)
LEMMA LeastOf ==
  ASSUME NEW S \in SUBSET Nat, S # {}
  PROVE  Min(S) \in S
<1>1. PICK least \in S : \A other \in S : ~(<<other, least>> \in OpToRel(<, Nat))
  BY NatLessThanWellFounded, WFMin
<1>2. \A other \in S : ~(other < least)
  BY <1>1 DEF OpToRel
<1>3. \A other \in S : least <= other
  BY <1>2
<1> QED
  BY <1>3 DEF Min

LEMMA ListedAre ==
  ASSUME NEW S, IsFiniteSet(S)
  PROVE  /\ DOMAIN SetToSeq(S) \subseteq Nat
         /\ \A i \in DOMAIN SetToSeq(S) : SetToSeq(S)[i] \in S
<1> DEFINE count == Cardinality(S)
           Lists(list) == list \in [1 .. count -> S] /\ IsInjective(list)
<1>1. count \in Nat /\ ExistsBijection(1 .. count, S)
  BY FS_CardinalityType
<1>2. PICK list : Lists(list)
  <2>1. PICK list \in Bijection(1 .. count, S) : TRUE
    BY <1>1 DEF ExistsBijection
  <2> QED
    BY <2>1 DEF Bijection, Injection, Surjection, IsInjective
<1>3. SetToSeq(S) \in [1 .. count -> S]
  BY <1>2 DEF SetToSeq
<1> HIDE DEF count
<1> QED
  BY <1>1, <1>3

(***************************************************************************)
(* Paths of one and of two segments.                                       *)
(***************************************************************************)
LEMMA FirstSegment ==
  ASSUME NEW T, NEW a \in T
  PROVE  <<a>> \in Seq(T) /\ Len(<<a>>) = 1 /\ Append(<<>>, a) = <<a>>
<1>1. <<a>> \in Seq(T) /\ Len(<<a>>) = 1 /\ <<a>>[1] = a
  OBVIOUS
<1>2. <<>> \in Seq(T) /\ Len(<<>>) = 0
  BY EmptySeq
<1>3. Append(<<>>, a) \in Seq(T) /\ Len(Append(<<>>, a)) = 1 /\ Append(<<>>, a)[1] = a
  <2>1. /\ Append(<<>>, a) \in Seq(T) /\ Len(Append(<<>>, a)) = Len(<<>>) + 1
        /\ Append(<<>>, a)[Len(<<>>) + 1] = a
    BY <1>2, AppendProperties
  <2> QED
    BY <1>2, <2>1
<1>4. \A i \in 1 .. Len(<<a>>) : <<a>>[i] = Append(<<>>, a)[i]
  BY <1>1, <1>3
<1> QED
  BY <1>1, <1>3, <1>4, SeqEqual

LEMMA SecondSegment ==
  ASSUME NEW T, NEW a \in T, NEW b \in T
  PROVE  Append(<<a>>, b) = <<a, b>>
<1> DEFINE appended == Append(<<a>>, b)
           path == <<a, b>>
<1>1. path \in Seq(T) /\ Len(path) = 2 /\ path[1] = a /\ path[2] = b
  OBVIOUS
<1>2. <<a>> \in Seq(T) /\ Len(<<a>>) = 1 /\ <<a>>[1] = a
  OBVIOUS
<1>3. appended \in Seq(T) /\ Len(appended) = 2 /\ appended[1] = a /\ appended[2] = b
  <2>1. /\ appended \in Seq(T) /\ Len(appended) = Len(<<a>>) + 1
        /\ appended[Len(<<a>>) + 1] = b /\ \A i \in 1 .. Len(<<a>>) : appended[i] = <<a>>[i]
    BY <1>2, AppendProperties
  <2> HIDE DEF appended
  <2> QED
    BY <1>2, <2>1
<1> HIDE DEF appended, path
<1>4. \A i \in 1 .. Len(path) : path[i] = appended[i]
  BY <1>1, <1>3
<1>5. path = appended
  BY <1>1, <1>3, <1>4, SeqEqual
<1> QED
  BY <1>5 DEF path, appended

(***************************************************************************)
(* The path of the configuration is a clean one.                           *)
(***************************************************************************)
LEMMA ConfigPathIsClean == Clean(ConfigPath) = ConfigPath
<1> DEFINE After(list, n) ==
             IF n = 0 THEN <<>>
             ELSE IF ConfigPath[n] = "." THEN list[n - 1]
             ELSE IF ConfigPath[n] # ".." THEN Append(list[n - 1], ConfigPath[n])
             ELSE IF list[n - 1] = <<>> THEN <<>> ELSE Front(list[n - 1])
           IsCleaned(list) == list = [n \in 0 .. 2 |-> After(list, n)]
           cleaned == CHOOSE list : IsCleaned(list)
           prefixes == [n \in 0 .. 2 |-> IF n = 0 THEN <<>> ELSE IF n = 1 THEN <<"config">> ELSE ConfigPath]
<1>1. /\ Len(ConfigPath) = 2 /\ ConfigPath[1] = "config" /\ ConfigPath[2] = "chain"
      /\ "config" \notin {".", ".."} /\ "chain" \notin {".", ".."}
  BY DEF ConfigPath
<1>2. Append(<<>>, "config") = <<"config">> /\ Append(<<"config">>, "chain") = ConfigPath
  <2>1. "config" \in {"config", "chain"} /\ "chain" \in {"config", "chain"}
    OBVIOUS
  <2>2. Append(<<>>, "config") = <<"config">>
    BY <2>1, FirstSegment
  <2>3. Append(<<"config">>, "chain") = <<"config", "chain">>
    BY <2>1, SecondSegment
  <2> QED
    BY <2>2, <2>3 DEF ConfigPath
<1>3. Clean(ConfigPath) = cleaned[2]
  BY <1>1 DEF Clean
<1>4. ASSUME NEW list
      PROVE  /\ After(list, 0) = <<>> /\ After(list, 1) = Append(list[0], "config")
             /\ After(list, 2) = Append(list[1], "chain")
  <2>1. 1 - 1 = 0 /\ 2 - 1 = 1 /\ 1 # 0 /\ 2 # 0
    OBVIOUS
  <2> QED
    BY <1>1, <2>1, Zenon
<1>5. \A n \in 0 .. 2 : n = 0 \/ n = 1 \/ n = 2
  OBVIOUS
<1>6. prefixes[0] = <<>> /\ prefixes[1] = <<"config">> /\ prefixes[2] = ConfigPath
  OBVIOUS
<1> HIDE DEF After
<1>7. IsCleaned(prefixes)
  <2>1. \A n \in 0 .. 2 : prefixes[n] = After(prefixes, n)
    <3> HIDE DEF prefixes
    <3> QED
      BY <1>2, <1>4, <1>5, <1>6, Zenon
  <2> QED
    BY <2>1
<1>8. IsCleaned(cleaned)
  <2> HIDE DEF IsCleaned, prefixes
  <2> QED
    BY <1>7
<1>9. \A n \in 0 .. 2 : cleaned[n] = After(cleaned, n)
  <2> HIDE DEF cleaned
  <2> QED
    BY <1>8
<1> HIDE DEF cleaned
<1>10. cleaned[0] = <<>> /\ cleaned[1] = Append(cleaned[0], "config") /\ cleaned[2] = Append(cleaned[1], "chain")
  <2>1. 0 \in 0 .. 2 /\ 1 \in 0 .. 2 /\ 2 \in 0 .. 2
    OBVIOUS
  <2>2. cleaned[0] = After(cleaned, 0) /\ cleaned[1] = After(cleaned, 1) /\ cleaned[2] = After(cleaned, 2)
    BY <1>9, <2>1
  <2> QED
    BY <1>4, <2>2, Zenon
<1> QED
  BY <1>2, <1>3, <1>10, Zenon

LEMMA PrefixOfLength ==
  ASSUME NEW T, NEW path \in Seq(T), path # <<>>, NEW there \in Seq(T), IsPrefix(path, there),
         path = Front(path) \o SubSeq(there, Len(path), Len(there))
  PROVE  there = path
<1> DEFINE n == Len(path)
           m == Len(there)
<1>1. n \in Nat \ {0} /\ m \in Nat /\ n <= m /\ SubSeq(path, 1, n) = SubSeq(there, 1, n)
  BY DEF IsPrefix
<1>2. Front(path) \in Seq(T) /\ Len(Front(path)) = n - 1
  <2>1. \A i \in 1 .. n - 1 : path[i] \in T
    BY <1>1
  <2>2. n - 1 \in Int /\ 1 \in Int
    BY <1>1
  <2>3. /\ SubSeq(path, 1, n - 1) \in Seq(T)
        /\ Len(SubSeq(path, 1, n - 1)) = IF 1 <= n - 1 THEN n - 1 - 1 + 1 ELSE 0
    <3> HIDE DEF n
    <3> QED
      BY <2>1, <2>2, SubSeqProperties
  <2>4. (IF 1 <= n - 1 THEN n - 1 - 1 + 1 ELSE 0) = n - 1
    BY <1>1
  <2>5. Len(SubSeq(path, 1, n - 1)) = n - 1
    <3> HIDE DEF n
    <3> QED
      BY <2>3, <2>4
  <2> QED
    BY <2>3, <2>5 DEF Front
<1>3. SubSeq(there, n, m) \in Seq(T) /\ Len(SubSeq(there, n, m)) = m - n + 1
  BY <1>1, SubSeqProperties
<1>4. n = (n - 1) + (m - n + 1)
  <2> DEFINE front == Front(path)
             rest == SubSeq(there, n, m)
  <2>1. path = front \o rest
    OBVIOUS
  <2>2. front \in Seq(T) /\ rest \in Seq(T) /\ Len(front) = n - 1 /\ Len(rest) = m - n + 1
    BY <1>2, <1>3
  <2> HIDE DEF front, rest
  <2>3. Len(front \o rest) = Len(front) + Len(rest)
    BY <2>2, ConcatProperties
  <2> QED
    BY <2>1, <2>2, <2>3
<1>5. n = m
  BY <1>1, <1>4
<1> QED
  BY <1>1, <1>5, SubSeqFull

(***************************************************************************)
(* A read of a file in a container returns an error or what the file of    *)
(* that path holds, in whatever order Docker packs what is there.          *)
(***************************************************************************)
LEMMA FileIsRead ==
  ASSUME NEW Segments, NEW found, IsFiniteSet(DOMAIN found), DOMAIN found \subseteq Seq(Segments),
         NEW path \in Seq(Segments), path # <<>>, Clean(path) = path,
         ReadFile(found, path) # Refused
  PROVE  path \in DOMAIN found /\ ReadFile(found, path) = found[path].body
<1> DEFINE below == {p \in DOMAIN found : IsPrefix(path, p)}
           list == SetToSeq(below)
           name(i) == SubSeq(list[i], Len(path), Len(list[i]))
           entries == Copied(found, path)
           regular == {i \in DOMAIN entries : entries[i].type = "regular"}
           read == Read(found, path)
           named == {i \in DOMAIN read : read[i].name = path}
<1>1. DOMAIN list \subseteq Nat /\ \A i \in DOMAIN list : list[i] \in below
  <2>1. IsFiniteSet(below)
    BY FS_Subset
  <2> HIDE DEF below
  <2> QED
    BY <2>1, ListedAre
<1>2. /\ DOMAIN entries = DOMAIN list
      /\ \A i \in DOMAIN list : entries[i].name = name(i) /\ entries[i].body = found[list[i]].body
  BY DEF Copied
<1>3. read # Refused /\ named # {} /\ ReadFile(found, path) = read[Min(named)].body
  BY DEF ReadFile
<1>4. /\ DOMAIN read = regular
      /\ \A i \in regular : read[i].name = Front(path) \o name(i) /\ read[i].body = found[list[i]].body
  <2>1. read = ReadArchive(entries, Front(path))
    BY <1>3 DEF Read
  <2>2. read = [i \in regular |-> File(Front(path) \o entries[i].name, entries[i].body)]
    BY <2>1 DEF ReadArchive
  <2> HIDE DEF entries, read, list, name
  <2> QED
    BY <1>2, <2>2 DEF File
<1>5. Min(named) \in named
  <2>1. named \in SUBSET Nat
    BY <1>1, <1>2, <1>4
  <2> HIDE DEF named
  <2> QED
    BY <1>3, <2>1, LeastOf
<1>6. PICK i \in regular : i \in DOMAIN list /\ read[i].name = path /\ ReadFile(found, path) = read[i].body
  BY <1>2, <1>3, <1>4, <1>5
<1>7. list[i] = path
  <2> DEFINE there == list[i]
  <2>1. there \in DOMAIN found /\ IsPrefix(path, there)
    BY <1>1, <1>6
  <2>2. path = Front(path) \o SubSeq(there, Len(path), Len(there))
    BY <1>4, <1>6
  <2> HIDE DEF there
  <2>3. there \in Seq(Segments)
    BY <2>1
  <2>4. there = path
    BY <2>1, <2>2, <2>3, PrefixOfLength
  <2> QED
    BY <2>4 DEF there
<1> QED
  BY <1>1, <1>4, <1>6, <1>7

(***************************************************************************)
(* Every container that was started holds the configuration of its source  *)
(* and every file the caller handed over.                                  *)
(***************************************************************************)
THEOREM FilesArrive == Spec => []FilesArriveWhole
<1>1. ASSUME IInv, NEW k \in Parts, container[k] \in {"running", "stopped", "crashed"}
      PROVE  /\ ConfigPath \in DOMAIN fs[k] /\ fs[k][ConfigPath] = tree[ConfigPath].body
             /\ \A i \in DOMAIN keystores :
                  \E path \in DOMAIN fs[k] : fs[k][path] = keystores[i].body
  <2>1. /\ Gathered /\ Archive(given) # Refused /\ fs[k] = Extract(Archive(given))
        /\ keystores \in Keystores \cup {<<>>} /\ tree \in Sources
    BY <1>1 DEF IInv, FilesInv, Filled
  <2>2. /\ DOMAIN given \subseteq Nat
        /\ 1 \in DOMAIN given /\ given[1] = File(ConfigPath, SourceConfig)
        /\ \A i \in DOMAIN keystores : i + 1 \in DOMAIN given /\ given[i + 1].body = keystores[i].body
    BY <2>1, GatheredFiles
  <2>3. \A i \in DOMAIN given : /\ Clean(given[i].name) \in DOMAIN fs[k]
                                /\ fs[k][Clean(given[i].name)] = given[i].body
    BY <2>1, <2>2, ArchiveKeepsFiles
  <2>4. SourceConfig = tree[ConfigPath].body /\ Clean(ConfigPath) = ConfigPath
    <3> DEFINE Segments == STRING \cup {"config", "chain"}
    <3>1. IsFiniteSet(DOMAIN tree) /\ DOMAIN tree \subseteq Seq(Segments)
      <4>1. IsFiniteSet(DOMAIN tree) /\ DOMAIN tree \subseteq Seq(STRING)
        BY <2>1, SidecarAssumption
      <4>2. Seq(STRING) \subseteq Seq(Segments)
        BY SeqMonotonic
      <4> QED
        BY <4>1, <4>2
    <3>2. ConfigPath \in Seq(Segments) /\ ConfigPath # <<>>
      <4>1. "config" \in Segments /\ "chain" \in Segments
        OBVIOUS
      <4>2. <<"config", "chain">> # <<>>
        OBVIOUS
      <4> HIDE DEF Segments
      <4> QED
        BY <4>1, <4>2 DEF ConfigPath
    <3> HIDE DEF Segments
    <3> QED
      BY <2>1, <3>1, <3>2, ConfigPathIsClean, FileIsRead DEF SourceConfig, Gathered
  <2>5. Clean(given[1].name) = ConfigPath /\ given[1].body = tree[ConfigPath].body
    BY <2>2, <2>4 DEF File
  <2> QED
    BY <2>2, <2>3, <2>5
<1>2. IInv => FilesArriveWhole
  BY <1>1 DEF FilesArriveWhole
<1> QED
  BY <1>2, InvCorrect, PTL


-----------------------------------------------------------------------------
(***************************************************************************)
(* The steps of the sync suites.  Until the node has booted nothing is     *)
(* known of it; its origin is read next, and everything after compares.    *)
(***************************************************************************)
Unbooted == {"write", "history", "start", "boot"}
Comparing == {"head", "compare", "finalized", "blocks", "checkpoints", "epoch", "next epoch", "keep", "relay"}
Compared == {"checkpoints", "epoch", "next epoch", "keep", "relay"}
Stopping == {"stopping", "stop", "stopped", "resume", "resumed"}
SyncSteps == Unbooted \cup Comparing \cup Stopping
             \cup {"origin", "checkpoint", "execution head", "beacon head", "synced", "ended"}

SyncTypeOK ==
  /\ tip \in Nat /\ source \in Nat /\ execution \in Nat /\ beacon \in Nat /\ origin \in Nat
  /\ running \in BOOLEAN /\ checkpoint \in BOOLEAN /\ lossy \in BOOLEAN
  /\ fork \in Forks \cup {NoFork} /\ hole \in Holes \cup {{}}
  /\ step \in SyncSteps /\ deadline \in Nat /\ written \in Nat
  /\ before \in Nat /\ first \in Nat /\ head \in Nat /\ epochs \in Nat /\ agreed \in Nat /\ began \in Nat
  /\ verdict \in [Specs -> {"none", "passed", "failed", "timeout"}]

(***************************************************************************)
(* The two chains: the source is at most one block late, and no client of  *)
(* the node is ahead of the network.                                       *)
(***************************************************************************)
HeadsInv ==
  /\ source <= tip /\ tip <= source + 1 /\ EpochLength <= source /\ tip <= MaxBlock
  /\ execution <= beacon /\ beacon <= tip /\ origin <= beacon /\ origin <= source
  /\ origin % EpochLength = 0
  /\ hole # {} => fork = NoFork

(***************************************************************************)
(* The history, and the checkpoint the node starts from.                   *)
(***************************************************************************)
HistoryInv ==
  /\ step \in {"write", "history"} <=> verdict["history"] = "none"
  /\ step \in Unbooted => verdict["sync"] = "none"
  /\ step \in Stopping => verdict["sync"] # "none"
  /\ checkpoint /\ step = "history" => EpochLength <= written /\ 4 * EpochLength <= deadline
  /\ verdict["history"] = "passed" => written <= FinalizedSlot(source)
  /\ checkpoint /\ step \notin {"write", "history"} => 0 < FinalizedSlot(source)
  /\ checkpoint /\ step \notin Unbooted /\ verdict["history"] = "passed" => written <= origin

OriginInv ==
  /\ step \in Unbooted => ~running /\ execution = 0
  /\ step \in Unbooted \cup {"origin"} => first = 0
  /\ first <= NodeFinalized
  /\ step \notin {"checkpoint", "ended"} => first <= source
  /\ step \in {"origin", "checkpoint"} => checkpoint
  /\ checkpoint /\ step \in {"boot", "origin", "checkpoint"} =>
       0 < before /\ before % EpochLength = 0 /\ before <= FinalizedSlot(source)
  /\ step \in {"origin", "checkpoint"} => before <= origin
  /\ step = "checkpoint" => before <= first /\ first % EpochLength = 0

(***************************************************************************)
(* The comparison: what was read of the node is behind what the node has,  *)
(* and the source was not further ahead when the node reported to be       *)
(* synced.                                                                 *)
(***************************************************************************)
ShortGap(gap, from, last, newest) ==
  gap \subseteq from .. last => Cardinality(gap) < Max({(newest - from) \div Samples, 1})

NoGap(newest) == ShortGap(hole, first, FinalizedSlot(began - Behind), newest)

CompareInv ==
  /\ step \notin Unbooted \cup {"stopped", "resume", "ended"} => running
  /\ step = "synced" => tip <= beacon + Behind
  /\ step \in Comparing => began <= source /\ began <= beacon + Behind
  /\ step \in {"stop", "stopped", "resume", "resumed"} /\ ~lossy => head <= execution
  /\ step = "compare" => head <= execution
  /\ step = "blocks" => head <= beacon /\ (hole # {} => FinalizedSlot(began - Behind) <= head)
  /\ step \in Compared => NoGap(beacon)
  /\ step = "relay" => NoGap(agreed)

(***************************************************************************)
(* The epochs in which the node must have the source's head.               *)
(***************************************************************************)
EpochsInv ==
  /\ step \in Compared /\ epochs > 0 => Epoch(agreed) >= Epoch(began) + epochs /\ agreed < fork
  /\ step \in {"epoch", "next epoch", "keep"} => Epoch(source) >= Epoch(began) + epochs
  /\ step = "next epoch" => Epoch(head) >= Epoch(began) + epochs + 1
  /\ step = "keep" => Epoch(source) >= Epoch(began) + epochs + 1
  /\ step = "relay" => epochs > 0 /\ epochs = KeptEpochs
  /\ step \notin Compared \ {"checkpoints"} => epochs = 0

SyncInv ==
  SyncTypeOK /\ HeadsInv /\ HistoryInv /\ OriginInv /\ CompareInv /\ EpochsInv

-----------------------------------------------------------------------------
(***************************************************************************)
(* Finalized slots: they begin an epoch, are not ahead of the block that   *)
(* finalizes them, and only grow with it.                                  *)
(***************************************************************************)
LEMMA SyncConstants ==
  /\ EpochLength \in Nat \ {0} /\ Samples \in Nat \ {0} /\ EpochLength <= MaxBlock
  /\ KeptEpochs \in Nat /\ WhileStopped \in Nat /\ Written \in Nat /\ Patience \in Nat
  /\ MaxLag \in Nat /\ MaxBlock \in Nat
  BY SyncAssumption

LEMMA QuotientGrows ==
  ASSUME NEW L \in Nat \ {0}, NEW a \in Int, NEW b \in Int, a <= b
  PROVE  a \div L \in Int /\ b \div L \in Int /\ a \div L <= b \div L
  OBVIOUS

LEMMA QuotientBound ==
  ASSUME NEW L \in Nat \ {0}, NEW k \in Int, NEW a \in Int, k * L <= a
  PROVE  a \div L \in Int /\ k <= a \div L
  OBVIOUS

LEMMA QuotientBehind ==
  ASSUME NEW L \in Nat \ {0}, NEW a \in Nat
  PROVE  a \div L \in Nat /\ L * (a \div L) <= a
  OBVIOUS

LEMMA EpochGrows ==
  ASSUME NEW a \in Int, NEW b \in Int, a <= b
  PROVE  Epoch(a) \in Int /\ Epoch(b) \in Int /\ Epoch(a) <= Epoch(b)
  BY QuotientGrows, SyncConstants DEF Epoch

LEMMA EpochBound ==
  ASSUME NEW k \in Int, NEW a \in Int, k * EpochLength <= a
  PROVE  Epoch(a) \in Int /\ k <= Epoch(a)
  BY QuotientBound, SyncConstants DEF Epoch

LEMMA ProductGrows ==
  ASSUME NEW L \in Nat \ {0}, NEW x \in Nat, NEW y \in Nat, x <= y
  PROVE  L * x \in Nat /\ L * x <= L * y
  OBVIOUS

LEMMA ProductIsMultiple ==
  ASSUME NEW L \in Nat \ {0}, NEW x \in Nat
  PROVE  L * x \in Nat /\ (L * x) % L = 0 /\ (x > 0 => L <= L * x)
  OBVIOUS

LEMMA FinalizedSlotNat ==
  ASSUME NEW a \in Int
  PROVE  FinalizedSlot(a) \in Nat /\ FinalizedSlot(a) % EpochLength = 0
<1> DEFINE n == IF Epoch(a) > 2 THEN Epoch(a) - 2 ELSE 0
<1>1. n \in Nat
  BY EpochGrows
<1>2. FinalizedSlot(a) = EpochLength * n
  BY DEF FinalizedSlot
<1> HIDE DEF n
<1> QED
  BY <1>1, <1>2, ProductIsMultiple, SyncConstants

LEMMA FinalizedSlotGrows ==
  ASSUME NEW a \in Int, NEW b \in Int, a <= b
  PROVE  FinalizedSlot(a) <= FinalizedSlot(b)
<1> DEFINE m == IF Epoch(a) > 2 THEN Epoch(a) - 2 ELSE 0
           n == IF Epoch(b) > 2 THEN Epoch(b) - 2 ELSE 0
<1>1. m \in Nat /\ n \in Nat /\ m <= n
  BY EpochGrows
<1>2. FinalizedSlot(a) = EpochLength * m /\ FinalizedSlot(b) = EpochLength * n
  BY DEF FinalizedSlot
<1> HIDE DEF m, n
<1> QED
  BY <1>1, <1>2, ProductGrows, SyncConstants

LEMMA FinalizedSlotBehind ==
  ASSUME NEW a \in Nat
  PROVE  FinalizedSlot(a) <= a
<1> DEFINE n == IF Epoch(a) > 2 THEN Epoch(a) - 2 ELSE 0
<1>1. Epoch(a) \in Nat /\ EpochLength * Epoch(a) <= a
  BY QuotientBehind, SyncConstants DEF Epoch
<1>2. n \in Nat /\ n <= Epoch(a)
  BY <1>1
<1>4. FinalizedSlot(a) = EpochLength * n
  BY DEF FinalizedSlot
<1> HIDE DEF n
<1>3. EpochLength * n <= EpochLength * Epoch(a) /\ EpochLength * n \in Nat
  BY <1>1, <1>2, ProductGrows, SyncConstants
<1>5. EpochLength * Epoch(a) \in Nat
  BY <1>1, ProductGrows, SyncConstants
<1> QED
  BY <1>1, <1>3, <1>4, <1>5

LEMMA FinalizesInThirdEpoch ==
  ASSUME NEW a \in Int, 3 * EpochLength <= a
  PROVE  0 < FinalizedSlot(a)
<1> DEFINE n == Epoch(a) - 2
<1>1. Epoch(a) \in Int /\ 3 <= Epoch(a)
  BY EpochBound
<1>4. n \in Nat \ {0} /\ Epoch(a) > 2
  BY <1>1
<1>2. FinalizedSlot(a) = EpochLength * n
  BY <1>4 DEF FinalizedSlot
<1> HIDE DEF n
<1>3. EpochLength <= EpochLength * n /\ EpochLength * n \in Nat
  BY <1>4, ProductIsMultiple, SyncConstants
<1> QED
  BY <1>2, <1>3, SyncConstants

LEMMA NextBegins ==
  ASSUME NEW a \in Nat, NEW b \in Nat, a < b, a % EpochLength = 0, b % EpochLength = 0
  PROVE  a + EpochLength <= b
<1> PICK L \in Nat \ {0} : L = EpochLength
  BY SyncAssumption
<1>1. a = L * (a \div L) /\ b = L * (b \div L) /\ a \div L \in Nat /\ b \div L \in Nat
  OBVIOUS
<1>2. a \div L + 1 <= b \div L
  BY <1>1, ProductGrows
<1>3. L * (a \div L + 1) <= L * (b \div L) /\ L * (a \div L + 1) = L * (a \div L) + L
  BY <1>1, <1>2, ProductGrows
<1> QED
  BY <1>1, <1>3

LEMMA LargerOfTwo ==
  ASSUME NEW a \in Int, NEW b \in Int
  PROVE  Max({a, b}) \in {a, b} /\ a <= Max({a, b}) /\ b <= Max({a, b})
<1>1. \E x \in {a, b} : \A y \in {a, b} : x >= y
  BY \A x \in {a, b}, y \in {a, b} : x >= y \/ y >= x
<1> QED
  BY <1>1 DEF Max

LEMMA AtLeastOneGrows ==
  ASSUME NEW x \in Int, NEW y \in Int, x <= y
  PROVE  Max({x, 1}) \in Int /\ Max({y, 1}) \in Int /\ 1 <= Max({x, 1}) /\ Max({x, 1}) <= Max({y, 1})
<1>1. Max({x, 1}) \in {x, 1} /\ x <= Max({x, 1}) /\ 1 <= Max({x, 1})
  BY LargerOfTwo
<1>2. Max({y, 1}) \in {y, 1} /\ y <= Max({y, 1}) /\ 1 <= Max({y, 1})
  BY LargerOfTwo
<1> QED
  BY <1>1, <1>2

LEMMA SmallerOfTwo ==
  ASSUME NEW a \in Int, NEW b \in Int
  PROVE  Min({a, b}) \in {a, b} /\ Min({a, b}) <= a /\ Min({a, b}) <= b
<1>1. \E x \in {a, b} : \A y \in {a, b} : x <= y
  BY \A x \in {a, b}, y \in {a, b} : x <= y \/ y <= x
<1> QED
  BY <1>1 DEF Min

LEMMA BehindNat == Behind \in Nat /\ 1 <= Behind /\ MaxLag <= Behind
<1>1. Max({MaxLag, 1}) \in {MaxLag, 1} /\ MaxLag <= Max({MaxLag, 1}) /\ 1 <= Max({MaxLag, 1})
  BY LargerOfTwo, SyncConstants
<1> QED
  BY <1>1, SyncConstants DEF Behind

(***************************************************************************)
(* What the node reports as finalized is behind its head, and as far as    *)
(* its chain allows when that is the source's.                             *)
(***************************************************************************)
LEMMA NodeFinalizedFacts ==
  ASSUME SyncTypeOK, HeadsInv
  PROVE  /\ NodeFinalized \in Nat /\ NodeFinalized % EpochLength = 0
         /\ origin <= NodeFinalized /\ NodeFinalized <= beacon
         /\ fork = NoFork => NodeFinalized = Max({origin, FinalizedSlot(beacon)})
<1> DEFINE last == Min({beacon, fork - 1})
<1>1. fork \in Nat \ {0} /\ (fork = NoFork => beacon <= fork - 1)
  <2>1. CASE fork = NoFork
    BY <2>1, SyncConstants DEF SyncTypeOK, HeadsInv, NoFork
  <2>2. CASE fork \in Forks
    <3>1. fork \in 1 .. MaxBlock
      BY <2>2, SyncAssumption
    <3> QED
      BY <3>1, SyncConstants DEF NoFork
  <2> QED
    BY <2>1, <2>2 DEF SyncTypeOK
<1>2. last \in Nat /\ last <= beacon /\ (fork = NoFork => last = beacon)
  <2>1. beacon \in Int /\ fork - 1 \in Int
    BY <1>1 DEF SyncTypeOK
  <2>2. last \in {beacon, fork - 1} /\ last <= beacon /\ last <= fork - 1
    BY <2>1, SmallerOfTwo
  <2> HIDE DEF last
  <2> QED
    BY <1>1, <2>1, <2>2 DEF SyncTypeOK
<1>3. FinalizedSlot(last) \in Nat /\ FinalizedSlot(last) % EpochLength = 0 /\ FinalizedSlot(last) <= last
  BY <1>2, FinalizedSlotNat, FinalizedSlotBehind
<1> HIDE DEF last
<1>4. NodeFinalized = Max({origin, FinalizedSlot(last)})
  BY DEF NodeFinalized, last
<1>5. NodeFinalized \in {origin, FinalizedSlot(last)} /\ origin <= NodeFinalized
  BY <1>3, <1>4, LargerOfTwo DEF SyncTypeOK
<1> QED
  BY <1>2, <1>3, <1>4, <1>5 DEF SyncTypeOK, HeadsInv

LEMMA NodeFinalizedGrows ==
  ASSUME SyncTypeOK, beacon' \in Nat, beacon <= beacon', UNCHANGED <<origin, fork>>
  PROVE  NodeFinalized <= NodeFinalized'
<1> DEFINE last == Min({beacon, fork - 1})
           next == Min({beacon', fork - 1})
<1>1. fork \in Nat \ {0}
  BY SyncAssumption DEF SyncTypeOK, NoFork
<1>2. last \in Nat /\ next \in Nat /\ last <= next
  <2>1. beacon \in Int /\ beacon' \in Int /\ fork - 1 \in Int
    BY <1>1 DEF SyncTypeOK
  <2>2. last \in {beacon, fork - 1} /\ last <= beacon /\ last <= fork - 1
    BY <2>1, SmallerOfTwo
  <2>3. next \in {beacon', fork - 1} /\ next <= beacon' /\ next <= fork - 1
    BY <2>1, SmallerOfTwo
  <2> HIDE DEF last, next
  <2> QED
    BY <1>1, <2>1, <2>2, <2>3 DEF SyncTypeOK
<1>3. FinalizedSlot(last) \in Nat /\ FinalizedSlot(next) \in Nat /\ FinalizedSlot(last) <= FinalizedSlot(next)
  BY <1>2, FinalizedSlotNat, FinalizedSlotGrows
<1>4. NodeFinalized = Max({origin, FinalizedSlot(last)}) /\ NodeFinalized' = Max({origin, FinalizedSlot(next)})
  BY DEF NodeFinalized
<1> HIDE DEF last, next
<1>5. /\ NodeFinalized \in {origin, FinalizedSlot(last)}
      /\ origin <= NodeFinalized' /\ FinalizedSlot(next) <= NodeFinalized'
      /\ NodeFinalized' \in {origin, FinalizedSlot(next)}
  BY <1>3, <1>4, LargerOfTwo DEF SyncTypeOK
<1> QED
  BY <1>3, <1>5 DEF SyncTypeOK

LEMMA NodeUnchanged ==
  ASSUME UNCHANGED <<node, faults>>
  PROVE  NodeFinalized' = NodeFinalized
  BY DEF NodeFinalized, node, faults

(***************************************************************************)
(* A gap that was shorter than the distance between two samples still is,  *)
(* as the chain grows.                                                     *)
(***************************************************************************)
LEMMA ShortGapKeeps ==
  ASSUME NEW gap, NEW from \in Nat, NEW last, NEW b \in Int, NEW c \in Int, b <= c,
         ShortGap(gap, from, last, b), Cardinality(gap) \in Nat
  PROVE  ShortGap(gap, from, last, c)
<1>1. /\ (b - from) \div Samples \in Int /\ (c - from) \div Samples \in Int
      /\ (b - from) \div Samples <= (c - from) \div Samples
  BY QuotientGrows, SyncConstants
<1> QED
  BY <1>1, AtLeastOneGrows DEF ShortGap

(***************************************************************************)
(* How a spec ends.                                                        *)
(***************************************************************************)
LEMMA EndSpecEffect ==
  ASSUME SyncTypeOK, HistoryInv, NEW how \in {"passed", "failed", "timeout"}, NEW started \in BOOLEAN,
         tip' = tip, EndSpec(how, started)
  PROVE  /\ verdict' \in [Specs -> {"none", "passed", "failed", "timeout"}] /\ deadline' \in Nat
         /\ before' = 0 /\ head' = 0 /\ epochs' = 0 /\ agreed' = 0 /\ began' = 0
         /\ step \in {"write", "history"} =>
              step' = "start" /\ verdict'["history"] = how /\ (started => verdict'["sync"] = verdict["sync"])
         /\ step \notin {"write", "history"} =>
              /\ step' \in {"stopping", "ended"} /\ verdict'["history"] = verdict["history"]
              /\ step' = "stopping" => started /\ verdict["sync"] = "none" /\ verdict'["sync"] # "none"
<1>1. verdict' = [s \in Specs |->
        IF s = SpecOf(step) THEN how
        ELSE IF s = "catch up" /\ ~started THEN "failed" ELSE verdict[s]]
  BY DEF EndSpec
<1>2. verdict' \in [Specs -> {"none", "passed", "failed", "timeout"}]
  BY <1>1 DEF SyncTypeOK
<1>5. before' = 0 /\ head' = 0 /\ epochs' = 0 /\ agreed' = 0 /\ began' = 0
  BY DEF EndSpec
<1>3. CASE step \in {"write", "history"}
  <2>1. SpecOf(step) = "history"
    BY <1>3 DEF SpecOf
  <2>2. Begin("start", 0)
    BY <2>1 DEF EndSpec, NextSpec
  <2>3. step' = "start" /\ deadline' = tip
    BY <2>2 DEF Begin, SyncTypeOK
  <2>4. verdict'["history"] = how /\ (started => verdict'["sync"] = verdict["sync"])
    BY <1>1, <2>1 DEF Specs
  <2> QED
    BY <1>2, <1>3, <1>5, <2>3, <2>4 DEF SyncTypeOK
<1>4. CASE step \notin {"write", "history"}
  <2>1. SpecOf(step) = IF verdict["sync"] = "none" THEN "sync" ELSE "catch up"
    BY <1>4 DEF SpecOf
  <2>2. \/ SpecOf(step) = "sync" /\ started /\ Begin("stopping", 0)
        \/ Begin("ended", 0)
    BY <2>1 DEF EndSpec, NextSpec
  <2>3. deadline' = tip /\ (step' = "ended" \/ (step' = "stopping" /\ SpecOf(step) = "sync" /\ started))
    BY <2>2 DEF Begin, SyncTypeOK
  <2>4. verdict'["history"] = verdict["history"]
    BY <1>1, <2>1 DEF Specs
  <2>5. SpecOf(step) = "sync" => verdict["sync"] = "none" /\ verdict'["sync"] = how
    BY <1>1, <2>1 DEF Specs
  <2> QED
    BY <1>2, <1>4, <1>5, <2>3, <2>4, <2>5 DEF SyncTypeOK
<1> QED
  BY <1>3, <1>4

(***************************************************************************)
(* A spec that ends keeps the invariant, wherever it ends with a node that *)
(* runs or is lost to the suite.                                           *)
(***************************************************************************)
LEMMA EndSpecStep ==
  ASSUME SyncInv, Watching, NEW how \in {"passed", "failed", "timeout"}, NEW started \in BOOLEAN,
         EndSpec(how, started), step \notin {"write", "start", "boot", "origin", "ended"},
         step = "history" => started,
         step = "history" /\ how = "passed" => HistoryIsFinal,
         checkpoint /\ step = "history" /\ how # "passed" => how = "timeout" /\ tip = deadline,
         step = "checkpoint" => ~started
  PROVE  SyncInv'
<1> USE DEF SyncInv
<1>0. tip' = tip
  BY DEF Watching, network
<1>2. /\ verdict' \in [Specs -> {"none", "passed", "failed", "timeout"}] /\ deadline' \in Nat
      /\ before' = 0 /\ head' = 0 /\ epochs' = 0 /\ agreed' = 0 /\ began' = 0
      /\ step \in {"write", "history"} =>
           step' = "start" /\ verdict'["history"] = how /\ (started => verdict'["sync"] = verdict["sync"])
      /\ step \notin {"write", "history"} =>
           /\ step' \in {"stopping", "ended"} /\ verdict'["history"] = verdict["history"]
           /\ step' = "stopping" => started /\ verdict["sync"] = "none" /\ verdict'["sync"] # "none"
  BY <1>0, EndSpecEffect
<1>3. /\ UNCHANGED <<tip, source, execution, beacon, running, origin, checkpoint, fork, hole, lossy, written, first>>
      /\ NodeFinalized' = NodeFinalized
  BY NodeUnchanged DEF Watching, network, node, faults
<1>4. SyncTypeOK'
  BY <1>2, <1>3 DEF SyncTypeOK, SyncSteps, Unbooted, Stopping
<1>5. HeadsInv'
  BY <1>3 DEF HeadsInv
<1>6. HistoryInv'
  <2>1. checkpoint /\ step = "history" => 0 < FinalizedSlot(source)
    <3> SUFFICES ASSUME checkpoint, step = "history" PROVE 0 < FinalizedSlot(source)
      OBVIOUS
    <3>1. CASE how = "passed"
      BY <3>1, SyncConstants, FinalizedSlotNat DEF HistoryIsFinal, HistoryInv, SyncTypeOK
    <3>2. CASE how # "passed"
      <4>1. 4 * EpochLength <= tip
        BY <3>2 DEF HistoryInv
      <4>2. 3 * EpochLength <= source
        BY <4>1, SyncConstants DEF HeadsInv, SyncTypeOK
      <4> QED
        BY <4>2, FinalizesInThirdEpoch DEF SyncTypeOK
    <3> QED
      BY <3>1, <3>2
  <2> QED
    BY <1>2, <1>3, <2>1 DEF HistoryInv, SyncTypeOK, SyncSteps, Unbooted, Stopping, HistoryIsFinal
<1>7. OriginInv'
  BY <1>2, <1>3 DEF OriginInv, Unbooted
<1>8. CompareInv'
  BY <1>2, <1>3 DEF CompareInv, HistoryInv, Unbooted, Stopping, Comparing, Compared, SyncTypeOK, SyncSteps
<1>9. EpochsInv'
  BY <1>2, <1>3 DEF EpochsInv, Compared
<1> QED
  BY <1>4, <1>5, <1>6, <1>7, <1>8, <1>9

(***************************************************************************)
(* Blocks that arrive, at the network, the source or the node, keep it.    *)
(***************************************************************************)
LEMMA HoleIsRun ==
  ASSUME SyncTypeOK
  PROVE  /\ \E low, high \in Int : hole = low .. high
         /\ Cardinality(hole) \in Nat
<1>1. \E low, high \in Int : hole = low .. high
  <2>1. CASE hole = {}
    <3>1. hole = 1 .. 0
      BY <2>1
    <3> QED
      BY <3>1
  <2>2. CASE hole \in Holes
    BY <2>2, SyncAssumption, SyncConstants
  <2> QED
    BY <2>1, <2>2 DEF SyncTypeOK
<1>2. PICK low, high \in Int : hole = low .. high
  BY <1>1
<1>3. Cardinality(low .. high) = IF low > high THEN 0 ELSE high - low + 1
  BY FS_Interval
<1>4. Cardinality(low .. high) \in Nat
  BY <1>3
<1> QED
  BY <1>1, <1>2, <1>4

LEMMA NoGapKeeps ==
  ASSUME SyncTypeOK, HeadsInv, OriginInv, UNCHANGED <<hole, first, began>>, beacon' \in Nat, beacon <= beacon',
         NoGap(beacon)
  PROVE  NoGap(beacon)'
<1>1. PICK last : last = FinalizedSlot(began - Behind)
  OBVIOUS
<1>2. ShortGap(hole, first, last, beacon)
  BY <1>1 DEF NoGap
<1>3. ShortGap(hole, first, last, beacon')
  BY <1>2, HoleIsRun, ShortGapKeeps DEF SyncTypeOK
<1> QED
  BY <1>1, <1>3 DEF NoGap

LEMMA ChainsGrow ==
  ASSUME SyncInv, tip' \in Nat, source' \in Nat, execution' \in Nat, beacon' \in Nat, HeadsInv',
         source <= source', execution <= execution', beacon <= beacon', running \/ execution' = execution,
         step = "synced" => tip' <= beacon' + Behind,
         UNCHANGED <<origin, running, faults, suite>>
  PROVE  SyncInv'
<1> USE DEF SyncInv
<1>1. /\ UNCHANGED <<origin, running, checkpoint, fork, hole, lossy, step, deadline, written, before, first, head>>
      /\ UNCHANGED <<epochs, agreed, began, verdict>>
  BY DEF faults, suite, reads
<1>2. SyncTypeOK'
  BY <1>1 DEF SyncTypeOK
<1>3. /\ FinalizedSlot(source) \in Nat /\ FinalizedSlot(source') \in Nat
      /\ FinalizedSlot(source) <= FinalizedSlot(source')
  BY FinalizedSlotNat, FinalizedSlotGrows DEF SyncTypeOK
<1>4. NodeFinalized \in Nat /\ NodeFinalized' \in Nat /\ NodeFinalized <= NodeFinalized'
  <2>1. NodeFinalized \in Nat
    BY NodeFinalizedFacts
  <2>2. (SyncTypeOK /\ HeadsInv => NodeFinalized \in Nat)'
    BY NodeFinalizedFacts, PTL
  <2> QED
    BY <1>1, <1>2, <2>1, <2>2, NodeFinalizedGrows
<1>5. HistoryInv'
  BY <1>1, <1>3 DEF HistoryInv, SyncTypeOK
<1>6. OriginInv'
  BY <1>1, <1>3, <1>4 DEF OriginInv, SyncTypeOK
<1>7. CompareInv'
  <2>1. step \in Compared => NoGap(beacon)'
    BY <1>1, NoGapKeeps DEF CompareInv
  <2>2. step = "relay" => NoGap(agreed)'
    BY <1>1 DEF CompareInv, NoGap
  <2>3. step \notin Unbooted \cup {"stopped", "resume", "ended"} => running
    BY DEF CompareInv
  <2>7. began \in Nat /\ source \in Nat /\ beacon \in Nat /\ Behind \in Nat
    BY BehindNat DEF SyncTypeOK
  <2>8. step \in Comparing => began <= source /\ began <= beacon + Behind
    BY DEF CompareInv
  <2>4. step \in Comparing => began <= source' /\ began <= beacon' + Behind
    <3>1. \A s, b \in Nat : source <= s /\ beacon <= b /\ step \in Comparing => began <= s /\ began <= b + Behind
      BY <2>7, <2>8
    <3> QED
      BY <3>1
  <2>5. /\ step \in {"stop", "stopped", "resume", "resumed"} /\ ~lossy => head <= execution'
        /\ step = "compare" => head <= execution'
    BY DEF CompareInv, SyncTypeOK
  <2>6. step = "blocks" => head <= beacon' /\ (hole # {} => FinalizedSlot(began - Behind) <= head)
    BY DEF CompareInv, SyncTypeOK
  <2> QED
    BY <1>1, <2>1, <2>2, <2>3, <2>4, <2>5, <2>6 DEF CompareInv
<1>8. EpochsInv'
  <2>1. Epoch(source) \in Int /\ Epoch(source') \in Int /\ Epoch(source) <= Epoch(source')
    BY EpochGrows DEF SyncTypeOK
  <2>2. Epoch(began) \in Int /\ epochs \in Nat
    BY EpochGrows DEF SyncTypeOK
  <2>4. /\ step \in {"epoch", "next epoch", "keep"} => Epoch(source) >= Epoch(began) + epochs
        /\ step = "keep" => Epoch(source) >= Epoch(began) + epochs + 1
    BY DEF EpochsInv
  <2>3. \A e \in Int : Epoch(source) <= e =>
          /\ step \in {"epoch", "next epoch", "keep"} => e >= Epoch(began) + epochs
          /\ step = "keep" => e >= Epoch(began) + epochs + 1
    <3>1. PICK x \in Int, y \in Int : x = Epoch(source) /\ y = Epoch(began) + epochs
      BY <2>1, <2>2
    <3>2. Epoch(began) + epochs + 1 = y + 1
      BY <2>2, <3>1
    <3>3. (step \in {"epoch", "next epoch", "keep"} => x >= y) /\ (step = "keep" => x >= y + 1)
      BY <2>4, <3>1, <3>2
    <3>4. \A e \in Int : x <= e => (x >= y => e >= y) /\ (x >= y + 1 => e >= y + 1)
      OBVIOUS
    <3> QED
      BY <3>1, <3>2, <3>3, <3>4
  <2>5. /\ step \in {"epoch", "next epoch", "keep"} => Epoch(source') >= Epoch(began) + epochs
        /\ step = "keep" => Epoch(source') >= Epoch(began) + epochs + 1
    BY <2>1, <2>3
  <2> QED
    BY <1>1, <2>5 DEF EpochsInv
<1> QED
  BY <1>2, <1>5, <1>6, <1>7, <1>8

(***************************************************************************)
(* What a step of the suite that only looks on leaves as it is.            *)
(***************************************************************************)
LEMMA WatchingFacts ==
  ASSUME SyncInv, Watching
  PROVE  /\ UNCHANGED <<tip, source, execution, beacon, running, origin, checkpoint, fork, hole, lossy, written, first>>
         /\ NodeFinalized' = NodeFinalized /\ HeadsInv'
<1>1. /\ UNCHANGED <<tip, source, execution, beacon, running, origin, checkpoint, fork, hole, lossy, written, first>>
      /\ NodeFinalized' = NodeFinalized
  BY NodeUnchanged DEF Watching, network, node, faults
<1> QED
  BY <1>1 DEF SyncInv, HeadsInv

LEMMA LaterStep ==
  ASSUME SyncInv, Watching, verdict' = verdict, deadline' \in Nat,
         before' \in Nat, head' \in Nat, epochs' \in Nat, agreed' \in Nat, began' \in Nat,
         step \notin Unbooted \cup {"origin", "checkpoint", "ended"},
         step' \in SyncSteps \ (Unbooted \cup {"origin", "checkpoint", "ended"}),
         step' \in Stopping => step \in Stopping,
         CompareInv', EpochsInv'
  PROVE  SyncInv'
<1> USE DEF SyncInv
<1>1. /\ UNCHANGED <<tip, source, execution, beacon, running, origin, checkpoint, fork, hole, lossy, written, first>>
      /\ NodeFinalized' = NodeFinalized /\ HeadsInv'
  BY WatchingFacts
<1>2. SyncTypeOK'
  BY <1>1 DEF SyncTypeOK
<1>3. HistoryInv'
  BY <1>1 DEF HistoryInv, Unbooted
<1>4. OriginInv'
  BY <1>1 DEF OriginInv, Unbooted
<1> QED
  BY <1>1, <1>2, <1>3, <1>4

-----------------------------------------------------------------------------
(***************************************************************************)
(* The steps.  First those of the network and the node.                    *)
(***************************************************************************)
LEMMA ChainSteps ==
  ASSUME SyncInv, Slot \/ SourceImports \/ NodeImports
  PROVE  SyncInv'
<1> USE DEF SyncInv
<1>0. tip \in Nat /\ source \in Nat /\ execution \in Nat /\ beacon \in Nat /\ deadline \in Nat
  BY DEF SyncTypeOK
<1>1. CASE Slot
  <2>1. tip' = tip + 1 /\ source' \in {tip, tip + 1} /\ UNCHANGED <<node, faults, suite>>
    BY <1>1 DEF Slot
  <2>2. UNCHANGED <<execution, beacon, running, origin, checkpoint, fork, hole, lossy>>
    BY <2>1 DEF node, faults
  <2>3. tip < MaxBlock
    <3>1. Min({deadline, MaxBlock}) <= MaxBlock /\ Min({deadline, MaxBlock}) \in {deadline, MaxBlock}
      BY <1>0, SyncConstants, SmallerOfTwo
    <3>2. tip < Min({deadline, MaxBlock})
      BY <1>1 DEF Slot
    <3> QED
      BY <1>0, <3>1, <3>2, SyncConstants
  <2>4. step = "synced" => tip < execution + MaxLag
    BY <1>1 DEF Slot, CompareInv, Unbooted
  <2>5. step = "synced" => tip + 1 <= beacon + Behind
    BY <1>0, <2>4, BehindNat, SyncConstants DEF HeadsInv
  <2>6. HeadsInv'
    <3>1. PICK s \in Nat : s = source' /\ s \in {tip, tip + 1}
      BY <1>0, <2>1
    <3>2. /\ source <= s /\ s <= tip + 1 /\ tip + 1 <= s + 1 /\ EpochLength <= s /\ tip + 1 <= MaxBlock
          /\ execution <= beacon /\ beacon <= tip + 1 /\ origin <= beacon /\ origin <= s
      <4>1. /\ source <= tip /\ tip <= source + 1 /\ EpochLength <= source
            /\ execution <= beacon /\ beacon <= tip /\ origin <= beacon /\ origin <= source /\ origin \in Nat
        BY DEF HeadsInv, SyncTypeOK
      <4>2. EpochLength \in Nat /\ MaxBlock \in Nat
        BY SyncConstants
      <4>3. source <= s
        BY <1>0, <3>1, <4>1
      <4>4. tip <= s /\ s <= tip + 1
        BY <1>0, <3>1
      <4>5. tip + 1 <= s + 1 /\ EpochLength <= s /\ tip + 1 <= MaxBlock /\ origin <= s
        <5>1. \A a, b, c \in Nat : a <= b /\ b <= c => a <= c
          OBVIOUS
        <5>2. EpochLength <= s /\ origin <= s
          BY <1>0, <3>1, <4>1, <4>2, <4>3, <5>1
        <5>3. tip + 1 <= s + 1 /\ tip + 1 <= MaxBlock
          <6>1. \A a, b \in Nat : (a < b => a + 1 <= b) /\ (a <= b => a + 1 <= b + 1)
            OBVIOUS
          <6> QED
            BY <1>0, <2>3, <4>2, <4>4, <6>1
        <5> QED
          BY <5>2, <5>3
      <4>6. beacon <= tip + 1
        BY <1>0, <4>1
      <4> QED
        BY <4>1, <4>3, <4>4, <4>5, <4>6
    <3> QED
      BY <2>1, <2>2, <3>1, <3>2 DEF HeadsInv
  <2>7. tip' \in Nat /\ source' \in Nat /\ source <= source'
    BY <1>0, <2>1 DEF HeadsInv
  <2>8. step = "synced" => tip' <= beacon' + Behind
    BY <2>1, <2>2, <2>5
  <2>9. execution <= execution' /\ beacon <= beacon' /\ execution' \in Nat /\ beacon' \in Nat
    BY <1>0, <2>2
  <2> QED
    BY <2>1, <2>2, <2>6, <2>7, <2>8, <2>9, ChainsGrow
<1>2. CASE SourceImports
  <2>1. source < tip /\ source' = tip /\ UNCHANGED <<tip, node, faults, suite>>
    BY <1>2 DEF SourceImports
  <2>2. UNCHANGED <<execution, beacon, running, origin, checkpoint, fork, hole, lossy>>
    BY <2>1 DEF node, faults
  <2>3. HeadsInv'
    BY <1>0, <2>1, <2>2, SyncConstants DEF HeadsInv, SyncTypeOK
  <2> QED
    BY <1>0, <2>1, <2>2, <2>3, ChainsGrow DEF CompareInv
<1>3. CASE NodeImports
  <2>1. /\ beacon' \in {beacon, tip} /\ execution' \in {execution, beacon'}
        /\ UNCHANGED <<network, running, origin, faults, suite>>
    BY <1>3 DEF NodeImports
  <2>2. UNCHANGED <<tip, source, checkpoint, fork, hole, lossy>>
    BY <2>1 DEF network, faults
  <2>3. beacon' \in Nat /\ execution' \in Nat /\ beacon <= beacon' /\ execution <= execution'
    BY <1>0, <2>1 DEF HeadsInv
  <2>4. HeadsInv'
    BY <1>0, <2>1, <2>2, <2>3, SyncConstants DEF HeadsInv, SyncTypeOK
  <2>5. step = "synced" => tip' <= beacon' + Behind
    <3>1. \A b \in Nat : step = "synced" /\ beacon <= b => tip <= b + Behind
      BY <1>0, BehindNat DEF CompareInv
    <3> QED
      BY <2>2, <2>3, <3>1
  <2> QED
    BY <1>0, <1>3, <2>1, <2>2, <2>3, <2>4, <2>5, ChainsGrow DEF HeadsInv, NodeImports
<1> QED
  BY <1>1, <1>2, <1>3

(***************************************************************************)
(* The history, and the start of the node.                                 *)
(***************************************************************************)
LEMMA HistorySteps ==
  ASSUME SyncInv, Write \/ AwaitHistory
  PROVE  SyncInv'
<1> USE DEF SyncInv
<1>1. CASE Write
  <2>1. /\ step = "write" /\ step' = "history" /\ deadline' = tip + 3 * EpochLength /\ verdict' = verdict
        /\ written' = IF checkpoint THEN source ELSE Written
        /\ UNCHANGED <<tip, source, execution, beacon, running, origin, checkpoint, fork, hole, lossy, first>>
        /\ UNCHANGED <<before, head, epochs, agreed, began>>
    BY <1>1 DEF Write, GoOn, Begin, network, node, faults, reads
  <2>2. NodeFinalized' = NodeFinalized
    BY <2>1 DEF NodeFinalized
  <2>3. SyncTypeOK'
    BY <2>1, SyncConstants DEF SyncTypeOK, SyncSteps, Unbooted
  <2>4. HeadsInv'
    BY <2>1 DEF HeadsInv
  <2>5. HistoryInv'
    <3>1. EpochLength <= tip
      BY SyncConstants DEF HeadsInv, SyncTypeOK
    <3>2. 4 * EpochLength <= tip + 3 * EpochLength
      BY <3>1, SyncConstants DEF SyncTypeOK
    <3>3. EpochLength <= source
      BY DEF HeadsInv
    <3> QED
      BY <2>1, <3>2, <3>3 DEF HistoryInv, Unbooted, Stopping
  <2>6. OriginInv' /\ CompareInv' /\ EpochsInv'
    BY <2>1, <2>2 DEF OriginInv, CompareInv, EpochsInv, Unbooted, Comparing, Compared
  <2> QED
    BY <2>3, <2>4, <2>5, <2>6
<1>2. CASE AwaitHistory
  BY <1>2, EndSpecStep DEF AwaitHistory
<1> QED
  BY <1>1, <1>2

LEMMA StartSteps ==
  ASSUME SyncInv, StartNode \/ Boot \/ ReadOrigin \/ CheckOrigin
  PROVE  SyncInv'
<1> USE DEF SyncInv
<1>1. CASE StartNode
  <2>1. /\ Watching /\ step = "start" /\ step' = "boot" /\ before' = FinalizedSlot(source) /\ verdict' = verdict
        /\ deadline' = tip + (IF checkpoint THEN 2 * EpochLength ELSE 0)
        /\ UNCHANGED <<head, epochs, agreed, began>>
    BY <1>1 DEF StartNode, GoOn, Begin
  <2>2. /\ UNCHANGED <<tip, source, execution, beacon, running, origin, checkpoint, fork, hole, lossy, written, first>>
        /\ NodeFinalized' = NodeFinalized /\ HeadsInv'
    BY <2>1, WatchingFacts
  <2>3. FinalizedSlot(source) \in Nat /\ FinalizedSlot(source) % EpochLength = 0
    BY FinalizedSlotNat DEF SyncTypeOK
  <2>4. SyncTypeOK'
    BY <2>1, <2>2, <2>3, SyncConstants DEF SyncTypeOK, SyncSteps, Unbooted
  <2>5. HistoryInv'
    BY <2>1, <2>2 DEF HistoryInv, Unbooted, Stopping
  <2>6. OriginInv'
    BY <2>1, <2>2, <2>3 DEF OriginInv, HistoryInv, Unbooted
  <2>7. CompareInv' /\ EpochsInv'
    BY <2>1, <2>2 DEF CompareInv, EpochsInv, Unbooted, Comparing, Compared
  <2> QED
    BY <2>2, <2>4, <2>5, <2>6, <2>7
<1>2. CASE Boot
  <2>1. /\ step = "boot" /\ running' = TRUE
        /\ origin' = (IF checkpoint THEN FinalizedSlot(source) ELSE 0) /\ beacon' = origin'
        /\ UNCHANGED <<tip, source, execution, checkpoint, fork, hole, lossy, written, first>>
    BY <1>2 DEF Boot, network, faults
  <2>2. /\ checkpoint => step' = "origin" /\ UNCHANGED <<deadline, verdict, before, head, epochs, agreed, began>>
        /\ ~checkpoint => /\ step' = "execution head" /\ deadline' = tip + Patience /\ verdict' = verdict
                          /\ before' = 0 /\ head' = 0 /\ UNCHANGED <<epochs, agreed, began>>
    BY <1>2 DEF Boot, CheckOr, GoOn, Begin, reads
  <2>3. /\ FinalizedSlot(source) \in Nat /\ FinalizedSlot(source) % EpochLength = 0
        /\ FinalizedSlot(source) <= source
    BY FinalizedSlotNat, FinalizedSlotBehind DEF SyncTypeOK
  <2>4. PICK o \in Nat : o = origin' /\ o % EpochLength = 0 /\ o <= source
    BY <2>1, <2>3, SyncConstants DEF SyncTypeOK
  <2>5. SyncTypeOK'
    <3>1. tip + Patience \in Nat
      BY SyncConstants DEF SyncTypeOK
    <3>2. deadline' \in Nat /\ step' \in SyncSteps /\ verdict' = verdict
      BY <2>2, <3>1 DEF SyncTypeOK, SyncSteps
    <3>3. before' \in Nat /\ head' \in Nat /\ UNCHANGED <<epochs, agreed, began>>
      <4>1. head \in Nat /\ before \in Nat /\ checkpoint \in BOOLEAN
        BY DEF SyncTypeOK
      <4>2. CASE checkpoint
        BY <2>2, <4>1, <4>2
      <4>3. CASE ~checkpoint
        <5>1. before' = 0 /\ head' = 0 /\ UNCHANGED <<epochs, agreed, began>>
          BY <2>2, <4>3, Zenon
        <5> QED
          BY <5>1
      <4> QED
        BY <4>2, <4>3
    <3> QED
      BY <2>1, <2>4, <3>2, <3>3 DEF SyncTypeOK
  <2>6. HeadsInv'
    <3>1. execution = 0
      BY <2>1 DEF OriginInv, Unbooted
    <3>2. execution <= o /\ o <= tip
      BY <2>4, <3>1 DEF HeadsInv, SyncTypeOK
    <3> QED
      BY <2>1, <2>4, <3>2 DEF HeadsInv, SyncTypeOK
  <2>7. NodeFinalized' \in Nat /\ origin' <= NodeFinalized'
    <3>1. (SyncTypeOK /\ HeadsInv => NodeFinalized \in Nat /\ origin <= NodeFinalized)'
      BY NodeFinalizedFacts, PTL
    <3> QED
      BY <2>5, <2>6, <3>1
  <2>8. HistoryInv'
    BY <2>1, <2>2 DEF HistoryInv, Unbooted, Stopping
  <2>9. OriginInv'
    <3>1. first = 0 /\ first <= source'
      BY <2>1 DEF OriginInv, Unbooted, SyncTypeOK
    <3>2. first <= NodeFinalized'
      BY <2>7, <3>1
    <3>3. checkpoint => 0 < before /\ before % EpochLength = 0 /\ before <= FinalizedSlot(source)
      BY <2>1 DEF OriginInv
    <3> QED
      BY <2>1, <2>2, <3>1, <3>2, <3>3 DEF OriginInv, Unbooted
  <2>10. CompareInv' /\ EpochsInv'
    BY <2>1, <2>2 DEF CompareInv, EpochsInv, Unbooted, Comparing, Compared
  <2> QED
    BY <2>5, <2>6, <2>8, <2>9, <2>10
<1>3. CASE ReadOrigin
  <2>1. /\ step = "origin" /\ step' = "checkpoint" /\ first' = NodeFinalized
        /\ UNCHANGED <<tip, source, execution, beacon, running, origin, checkpoint, fork, hole, lossy, written>>
        /\ UNCHANGED <<deadline, before, head, epochs, agreed, began, verdict>>
    BY <1>3 DEF ReadOrigin, network, node, faults, reads
  <2>2. NodeFinalized' = NodeFinalized
    BY <2>1 DEF NodeFinalized
  <2>3. NodeFinalized \in Nat /\ NodeFinalized % EpochLength = 0 /\ origin <= NodeFinalized
    BY NodeFinalizedFacts
  <2>4. SyncTypeOK'
    BY <2>1, <2>3 DEF SyncTypeOK, SyncSteps
  <2>5. HeadsInv'
    BY <2>1 DEF HeadsInv
  <2>6. HistoryInv'
    BY <2>1 DEF HistoryInv, Unbooted, Stopping
  <2>7. OriginInv'
    <3>1. before <= NodeFinalized
      BY <2>1, <2>3 DEF OriginInv, SyncTypeOK
    <3> QED
      BY <2>1, <2>2, <2>3, <3>1 DEF OriginInv, Unbooted
  <2>8. CompareInv' /\ EpochsInv'
    BY <2>1 DEF CompareInv, EpochsInv, Unbooted, Comparing, Compared
  <2> QED
    BY <2>4, <2>5, <2>6, <2>7, <2>8
<1>4. CASE CheckOrigin
  <2>0. Watching /\ step = "checkpoint"
    BY <1>4 DEF CheckOrigin
  <2>1. CASE FromCheckpoint /\ first > 0
    <3>1. /\ step' = "execution head" /\ deadline' = tip + Patience /\ verdict' = verdict
          /\ before' = 0 /\ head' = 0 /\ UNCHANGED <<epochs, agreed, began>>
      BY <1>4, <2>1 DEF CheckOrigin, CheckOr, GoOn, Begin
    <3>2. first <= source
      BY <2>1 DEF FromCheckpoint, Same
    <3>3. /\ UNCHANGED <<tip, source, execution, beacon, running, origin, checkpoint, fork, hole, lossy, written, first>>
          /\ NodeFinalized' = NodeFinalized /\ HeadsInv'
      BY <2>0, WatchingFacts
    <3>4. SyncTypeOK'
      <4>1. tip + Patience \in Nat
        BY SyncConstants DEF SyncTypeOK
      <4> QED
        BY <3>1, <3>3, <4>1 DEF SyncTypeOK, SyncSteps
    <3>5. HistoryInv'
      BY <2>0, <3>1, <3>3 DEF HistoryInv, Unbooted, Stopping
    <3>6. OriginInv'
      BY <2>0, <3>1, <3>2, <3>3 DEF OriginInv, Unbooted
    <3>7. CompareInv' /\ EpochsInv'
      BY <2>0, <3>1, <3>3 DEF CompareInv, EpochsInv, Unbooted, Comparing, Compared
    <3> QED
      BY <3>3, <3>4, <3>5, <3>6, <3>7
  <2>2. CASE ~(FromCheckpoint /\ first > 0)
    <3>1. EndSpec("failed", FALSE)
      BY <1>4, <2>2 DEF CheckOrigin
    <3> QED
      BY <2>0, <3>1, EndSpecStep DEF Unbooted
  <2> QED
    BY <2>1, <2>2
<1> QED
  BY <1>1, <1>2, <1>3, <1>4

(***************************************************************************)
(* The node has the head, and reports to be synced.                        *)
(***************************************************************************)
LEMMA WaitSteps ==
  ASSUME SyncInv, ReadExecutionHead \/ ReadBeaconHead \/ ReportsSynced \/ ReadHead
  PROVE  SyncInv'
<1> USE DEF SyncInv
<1>0. /\ Watching /\ step \in {"execution head", "beacon head", "synced", "head"}
      /\ step' \in {"execution head", "beacon head", "synced", "head", "compare"}
      /\ verdict' = verdict /\ UNCHANGED <<before, epochs, agreed>>
  BY DEF ReadExecutionHead, ReadBeaconHead, ReportsSynced, ReadHead, GoOn, Begin, reads
<1>1. /\ UNCHANGED <<tip, source, execution, beacon, running, origin, checkpoint, fork, hole, lossy, written, first>>
      /\ NodeFinalized' = NodeFinalized /\ HeadsInv'
  BY <1>0, WatchingFacts
<1>2. epochs = 0 /\ EpochsInv'
  BY <1>0, <1>1 DEF EpochsInv, Compared
<1>3. running
  BY <1>0 DEF CompareInv, Unbooted
<1>4. tip \in Nat /\ tip + Patience \in Nat /\ tip + 1 \in Nat /\ source \in Nat /\ execution \in Nat /\ deadline \in Nat
  BY SyncConstants DEF SyncTypeOK
<1>5. deadline' \in Nat /\ head' \in Nat /\ began' \in Nat
  <2>1. CASE ReadExecutionHead
    BY <1>4, <2>1 DEF ReadExecutionHead, SyncTypeOK, reads
  <2>2. CASE ReadBeaconHead
    BY <1>4, <2>2 DEF ReadBeaconHead, GoOn, Begin, SyncTypeOK, reads
  <2>3. CASE ReportsSynced
    BY <1>4, <2>3 DEF ReportsSynced, GoOn, Begin, SyncTypeOK
  <2>4. CASE ReadHead
    BY <1>4, <2>4 DEF ReadHead, SyncTypeOK
  <2> QED
    BY <2>1, <2>2, <2>3, <2>4
<1>6. CompareInv'
  <2>1. CASE ReadExecutionHead
    <3>1. step' = "beacon head"
      BY <2>1 DEF ReadExecutionHead
    <3> QED
      BY <1>1, <1>3, <3>1 DEF CompareInv, Comparing, Compared
  <2>2. CASE ReadBeaconHead
    <3>1. step' = "execution head" \/ (step' = "synced" /\ beacon = source)
      BY <2>2 DEF ReadBeaconHead, GoOn, Begin
    <3>2. beacon = source => tip <= beacon + Behind
      BY BehindNat DEF HeadsInv, SyncTypeOK
    <3> QED
      BY <1>1, <1>3, <3>1, <3>2 DEF CompareInv, Comparing, Compared
  <2>3. CASE ReportsSynced
    <3>1. step = "synced" /\ step' = "head" /\ began' = source
      BY <2>3 DEF ReportsSynced, GoOn, Begin
    <3>2. source <= beacon + Behind
      BY <3>1, BehindNat DEF CompareInv, HeadsInv, SyncTypeOK
    <3> QED
      BY <1>1, <1>3, <1>4, <3>1, <3>2 DEF CompareInv, Comparing, Compared
  <2>4. CASE ReadHead
    <3>1. step = "head" /\ step' = "compare" /\ head' = execution /\ began' = began
      BY <2>4 DEF ReadHead
    <3>2. began <= source /\ began <= beacon + Behind
      BY <3>1 DEF CompareInv, Comparing
    <3> QED
      BY <1>1, <1>3, <1>4, <3>1, <3>2 DEF CompareInv, Comparing, Compared
  <2> QED
    BY <2>1, <2>2, <2>3, <2>4
<1> QED
  BY <1>0, <1>1, <1>2, <1>5, <1>6, LaterStep DEF SyncSteps, SyncTypeOK, Unbooted, Stopping, Comparing

(***************************************************************************)
(* The comparison of the chains.  A run of blocks as long as the distance  *)
(* of two samples has a sample in it.                                      *)
(***************************************************************************)
LEMMA NextSample ==
  ASSUME NEW d \in Nat \ {0}, NEW x \in Nat
  PROVE  \E m \in Nat : m % d = 0 /\ x <= m /\ m < x + d
<1> DEFINE q == (x + d - 1) \div d
<1>1. q \in Nat /\ d * q <= x + d - 1 /\ x + d - 1 < d * q + d
  OBVIOUS
<1> HIDE DEF q
<1>2. d * q \in Nat /\ (d * q) % d = 0
  BY <1>1, ProductIsMultiple
<1>3. x <= d * q /\ d * q < x + d
  BY <1>1, <1>2
<1> QED
  BY <1>2, <1>3

LEMMA SamplesHitRuns ==
  ASSUME NEW from \in Nat, NEW to \in Nat, NEW newest \in Nat, from <= to, to <= newest,
         NEW low \in Int, NEW high \in Int, low .. high \subseteq from .. to,
         Cardinality(low .. high) >= Max({(newest - from) \div Samples, 1})
  PROVE  \E n \in low .. high : n \in SampledRange(from, to)
<1> PICK d \in Int : d = Max({(to - from) \div Samples, 1})
  BY QuotientGrows, AtLeastOneGrows, SyncConstants
<1>1. d \in Nat \ {0} /\ d <= Max({(newest - from) \div Samples, 1})
  <2>1. /\ (to - from) \div Samples \in Int /\ (newest - from) \div Samples \in Int
        /\ (to - from) \div Samples <= (newest - from) \div Samples
    BY QuotientGrows, SyncConstants
  <2> QED
    BY <2>1, AtLeastOneGrows
<1>2. Cardinality(low .. high) = IF low > high THEN 0 ELSE high - low + 1
  BY FS_Interval
<1>3. Max({(newest - from) \div Samples, 1}) \in Int
  BY QuotientGrows, AtLeastOneGrows, SyncConstants
<1>4. low <= high /\ high - low + 1 >= d
  BY <1>1, <1>2, <1>3
<1>5. low >= from /\ high <= to /\ low - from \in Nat
  <2>1. low \in low .. high /\ high \in low .. high
    BY ONLY <1>4, low \in Int, high \in Int
  <2>2. low \in from .. to /\ high \in from .. to
    BY <2>1
  <2> QED
    BY <2>2
<1>6. PICK m \in Nat : m % d = 0 /\ low - from <= m /\ m < low - from + d
  BY <1>1, <1>5, NextSample
<1>7. from + m \in low .. high /\ (from + m) - from = m
  BY <1>1, <1>4, <1>5, <1>6
<1>8. from + m \in from .. to
  BY <1>5, <1>7
<1> QED
  BY <1>6, <1>7, <1>8 DEF SampledRange

LEMMA BlocksShowGaps ==
  ASSUME SyncInv, step = "blocks", \A slot \in SampledRange(first, head) : SameBlockAtSlot(slot)
  PROVE  NoGap(beacon)
<1> USE DEF SyncInv
<1> PICK last \in Nat : last = FinalizedSlot(began - Behind) /\ last <= source
  <2>1. began \in Nat /\ began - Behind \in Int /\ began - Behind <= began /\ began <= source /\ source \in Nat
    BY BehindNat DEF CompareInv, Comparing, SyncTypeOK
  <2>2. FinalizedSlot(began - Behind) \in Nat /\ FinalizedSlot(began) \in Nat
        /\ FinalizedSlot(began - Behind) <= FinalizedSlot(began) /\ FinalizedSlot(began) <= began
    BY <2>1, FinalizedSlotNat, FinalizedSlotGrows, FinalizedSlotBehind
  <2> QED
    BY <2>1, <2>2
<1> DEFINE distance == Max({(beacon - first) \div Samples, 1})
<1>1. first \in Nat /\ head \in Nat /\ beacon \in Nat /\ head <= beacon
  BY DEF SyncTypeOK, CompareInv
<1>2. distance \in Int /\ 1 <= distance
  BY <1>1, QuotientGrows, AtLeastOneGrows, SyncConstants
<1>3. SUFFICES ASSUME hole \subseteq first .. last, Cardinality(hole) >= distance PROVE FALSE
  <2>1. Cardinality(hole) \in Nat
    BY HoleIsRun
  <2>2. ~(hole \subseteq first .. last /\ Cardinality(hole) >= distance)
    BY <1>3
  <2> QED
    BY <1>2, <2>1, <2>2 DEF NoGap, ShortGap
<1>4. hole # {}
  BY <1>2, <1>3, FS_EmptySet
<1>5. last <= head
  BY <1>4 DEF CompareInv
<1>6. PICK low \in Int, high \in Int : hole = low .. high
  BY HoleIsRun
<1>7. low .. high \subseteq first .. head
  BY <1>1, <1>3, <1>5, <1>6
<1>8. first <= head
  BY <1>1, <1>4, <1>6, <1>7
<1>9. \E n \in low .. high : n \in SampledRange(first, head)
  BY <1>1, <1>3, <1>6, <1>7, <1>8, SamplesHitRuns
<1>10. PICK n \in hole : n \in SampledRange(first, head)
  BY <1>6, <1>9
<1>11. n <= source
  BY <1>3, <1>10 DEF SyncTypeOK
<1>12. Serves(n)
  BY <1>10, <1>11 DEF SameBlockAtSlot
<1> QED
  BY <1>10, <1>12 DEF Serves

LEMMA ComparisonSteps ==
  ASSUME SyncInv, CompareChain \/ ReadFinalized \/ CompareBlocks \/ CompareCheckpoints
  PROVE  SyncInv'
<1> USE DEF SyncInv
<1>0. Watching /\ step \in {"compare", "finalized", "blocks", "checkpoints"}
  BY DEF CompareChain, ReadFinalized, CompareBlocks, CompareCheckpoints
<1>1. /\ UNCHANGED <<tip, source, execution, beacon, running, origin, checkpoint, fork, hole, lossy, written, first>>
      /\ NodeFinalized' = NodeFinalized /\ HeadsInv'
  BY <1>0, WatchingFacts
<1>2. epochs = 0 /\ running
  BY <1>0 DEF EpochsInv, CompareInv, Unbooted, Compared
<1>3. tip \in Nat /\ tip + Patience \in Nat /\ tip + 0 \in Nat
  BY SyncConstants DEF SyncTypeOK
<1>4. began <= source /\ began <= beacon + Behind
  BY <1>0 DEF CompareInv, Comparing
<1>5. ASSUME EndSpec("failed", TRUE) PROVE SyncInv'
  BY <1>0, <1>5, EndSpecStep DEF Unbooted
<1>6. CASE CompareChain
  <2>1. CASE HoldsChain
    <3>1. /\ step = "compare" /\ step' = "finalized" /\ deadline' = tip + 0 /\ verdict' = verdict
          /\ before' = 0 /\ head' = 0 /\ UNCHANGED <<epochs, agreed, began>>
      BY <1>6, <2>1 DEF CompareChain, CheckOr, GoOn, Begin
    <3>2. CompareInv' /\ EpochsInv'
      BY <1>1, <1>2, <1>4, <3>1 DEF CompareInv, EpochsInv, Comparing, Compared
    <3> QED
      BY <1>0, <1>3, <3>1, <3>2, LaterStep DEF SyncSteps, SyncTypeOK, Unbooted, Stopping, Comparing
  <2>2. CASE ~HoldsChain
    BY <1>5, <1>6, <2>2 DEF CompareChain, CheckOr
  <2> QED
    BY <2>1, <2>2
<1>7. CASE ReadFinalized
  <2>1. CASE NodeFinalized >= first
    <3>1. /\ step = "finalized" /\ step' = "blocks" /\ deadline' = tip + Patience /\ verdict' = verdict
          /\ head' = NodeFinalized /\ UNCHANGED <<before, epochs, agreed, began>>
      BY <1>7, <2>1 DEF ReadFinalized, GoOn, Begin
    <3>2. NodeFinalized \in Nat /\ NodeFinalized <= beacon
      BY NodeFinalizedFacts
    <3>3. hole # {} => FinalizedSlot(began - Behind) <= NodeFinalized
      <4>1. ASSUME hole # {} PROVE NodeFinalized = Max({origin, FinalizedSlot(beacon)})
        BY <4>1, NodeFinalizedFacts DEF HeadsInv
      <4>2. began - Behind \in Int /\ began - Behind <= beacon
        BY <1>4, BehindNat DEF SyncTypeOK
      <4>3. FinalizedSlot(began - Behind) \in Nat /\ FinalizedSlot(beacon) \in Nat
            /\ FinalizedSlot(began - Behind) <= FinalizedSlot(beacon)
        BY <4>2, FinalizedSlotNat, FinalizedSlotGrows DEF SyncTypeOK
      <4>4. FinalizedSlot(beacon) <= Max({origin, FinalizedSlot(beacon)})
        <5>1. origin \in Int /\ FinalizedSlot(beacon) \in Int
          BY <4>3 DEF SyncTypeOK
        <5> QED
          BY <5>1, LargerOfTwo
      <4> QED
        BY <3>2, <4>1, <4>3, <4>4
    <3>4. CompareInv' /\ EpochsInv'
      BY <1>1, <1>2, <1>4, <3>1, <3>2, <3>3 DEF CompareInv, EpochsInv, Comparing, Compared
    <3> QED
      BY <1>0, <1>3, <3>1, <3>2, <3>4, LaterStep DEF SyncSteps, SyncTypeOK, Unbooted, Stopping, Comparing
  <2>2. CASE ~(NodeFinalized >= first)
    BY <1>5, <1>7, <2>2 DEF ReadFinalized
  <2> QED
    BY <2>1, <2>2
<1>8. CASE CompareBlocks
  <2> DEFINE holds == first > 0 => \A slot \in SampledRange(0, first - 1) : NoOtherBlockAtSlot(slot)
  <2>1. CASE holds
    <3>1. /\ step = "blocks" /\ step' = "checkpoints" /\ deadline' = tip + Patience /\ verdict' = verdict
          /\ before' = 0 /\ head' = 0 /\ UNCHANGED <<epochs, agreed, began>>
      BY <1>8, <2>1 DEF CompareBlocks, CheckOr, GoOn, Begin
    <3>2. NoGap(beacon)
      BY <1>8, BlocksShowGaps DEF CompareBlocks
    <3>3. NoGap(beacon)'
      BY <1>1, <3>1, <3>2 DEF NoGap
    <3>4. CompareInv' /\ EpochsInv'
      BY <1>1, <1>2, <1>4, <3>1, <3>3 DEF CompareInv, EpochsInv, Comparing, Compared
    <3> QED
      BY <1>0, <1>3, <3>1, <3>4, LaterStep DEF SyncSteps, SyncTypeOK, Unbooted, Stopping, Comparing
  <2>2. CASE ~holds
    BY <1>5, <1>8, <2>2 DEF CompareBlocks, CheckOr
  <2> QED
    BY <2>1, <2>2
<1>9. CASE CompareCheckpoints
  <2>1. /\ step = "checkpoints" /\ step' = "epoch" /\ deadline' = tip + 0 /\ verdict' = verdict
        /\ UNCHANGED <<before, head, epochs, agreed, began>>
    BY <1>9 DEF CompareCheckpoints, GoOn, Begin, reads
  <2>2. NoGap(beacon)'
    BY <1>1, <2>1 DEF NoGap, CompareInv, Compared
  <2>3. CompareInv'
    BY <1>1, <1>2, <1>4, <2>1, <2>2 DEF CompareInv, Comparing, Compared
  <2>4. Epoch(source) >= Epoch(began) + epochs
    BY <1>2, <1>4, EpochGrows DEF SyncTypeOK
  <2>5. EpochsInv'
    BY <1>1, <1>2, <2>1, <2>4 DEF EpochsInv, Compared
  <2> QED
    BY <1>0, <1>3, <2>1, <2>3, <2>5, LaterStep DEF SyncSteps, SyncTypeOK, Unbooted, Stopping, Comparing
<1> QED
  BY <1>6, <1>7, <1>8, <1>9

(***************************************************************************)
(* The later epochs, in each of which the heads must be equal.             *)
(***************************************************************************)
LEMMA EpochSteps ==
  ASSUME SyncInv, NextEpoch \/ AwaitEpoch \/ KeepHead \/ Relay
  PROVE  SyncInv'
<1> USE DEF SyncInv
<1>0. Watching /\ step \in {"epoch", "next epoch", "keep", "relay"}
  BY DEF NextEpoch, AwaitEpoch, KeepHead, Relay
<1>1. /\ UNCHANGED <<tip, source, execution, beacon, running, origin, checkpoint, fork, hole, lossy, written, first>>
      /\ NodeFinalized' = NodeFinalized /\ HeadsInv'
  BY <1>0, WatchingFacts
<1>2. running /\ NoGap(beacon)
  BY <1>0 DEF CompareInv, Unbooted, Compared
<1>3. /\ tip \in Nat /\ tip + Patience \in Nat /\ tip + 0 \in Nat /\ tip + (EpochLength + 1) \in Nat
      /\ epochs \in Nat /\ epochs + 1 \in Nat /\ beacon \in Nat /\ source \in Nat /\ head \in Nat
  BY SyncConstants DEF SyncTypeOK
<1>4. began <= source /\ began <= beacon + Behind
  BY <1>0 DEF CompareInv, Comparing
<1>5. ASSUME UNCHANGED began PROVE NoGap(beacon)'
  BY <1>1, <1>2, <1>5 DEF NoGap
<1>6. Epoch(source) \in Int /\ Epoch(began) \in Int /\ Epoch(head) \in Int
  BY EpochGrows DEF SyncTypeOK
<1>7. CASE NextEpoch
  <2>1. /\ step = "epoch" /\ step' = "next epoch" /\ deadline' = tip + (EpochLength + 1) /\ verdict' = verdict
        /\ head' = StartOfNextEpoch /\ UNCHANGED <<before, epochs, agreed, began>>
    BY <1>7 DEF NextEpoch, GoOn, Begin
  <2>2. CompareInv'
    BY <1>1, <1>2, <1>4, <1>5, <2>1 DEF CompareInv, Comparing, Compared
  <2>3. Epoch(source) >= Epoch(began) + epochs
    BY <2>1 DEF EpochsInv
  <2>4. Epoch(source) \in Nat /\ StartOfNextEpoch \in Nat
    BY <1>3, QuotientBehind, SyncConstants DEF Epoch, StartOfNextEpoch
  <2>5. Epoch(StartOfNextEpoch) \in Int /\ Epoch(StartOfNextEpoch) >= Epoch(source) + 1
    BY <2>4, EpochBound DEF StartOfNextEpoch
  <2>6. Epoch(StartOfNextEpoch) >= Epoch(began) + epochs + 1
    BY <1>3, <1>6, <2>3, <2>5
  <2>7. EpochsInv'
    BY <1>1, <2>1, <2>3, <2>6 DEF EpochsInv, Compared
  <2> QED
    BY <1>0, <1>3, <2>1, <2>2, <2>4, <2>7, LaterStep DEF SyncSteps, SyncTypeOK, Unbooted, Stopping, Comparing
<1>8. CASE AwaitEpoch
  <2>1. /\ step = "next epoch" /\ step' = "keep" /\ deadline' = tip + Patience /\ verdict' = verdict
        /\ source >= head /\ head' = 0 /\ UNCHANGED <<before, epochs, agreed, began>>
    BY <1>8 DEF AwaitEpoch, GoOn, Begin
  <2>2. CompareInv'
    BY <1>1, <1>2, <1>4, <1>5, <2>1 DEF CompareInv, Comparing, Compared
  <2>3. Epoch(source) >= Epoch(began) + epochs /\ Epoch(head) >= Epoch(began) + epochs + 1
    BY <2>1 DEF EpochsInv
  <2>4. Epoch(head) <= Epoch(source)
    <3>1. head <= source
      BY <1>3, <2>1
    <3> QED
      BY <1>3, <3>1, EpochGrows
  <2>5. Epoch(source) >= Epoch(began) + epochs + 1
    BY <1>3, <1>6, <2>3, <2>4
  <2>6. EpochsInv'
    BY <1>1, <2>1, <2>3, <2>5 DEF EpochsInv, Compared
  <2> QED
    BY <1>0, <1>3, <2>1, <2>2, <2>6, LaterStep DEF SyncSteps, SyncTypeOK, Unbooted, Stopping, Comparing
<1>9. CASE KeepHead
  <2>1. /\ step = "keep" /\ beacon = source /\ Same(beacon) /\ agreed' = beacon /\ epochs' = epochs + 1
        /\ step' = IF epochs + 1 = KeptEpochs THEN "relay" ELSE "epoch"
        /\ deadline' = tip + 0 /\ verdict' = verdict
        /\ UNCHANGED <<before, head, began>>
    BY <1>9 DEF KeepHead, SameHead, GoOn, Begin
  <2>2. NoGap(agreed)'
    BY <1>1, <1>2, <2>1 DEF NoGap
  <2>3. step' \in {"relay", "epoch"}
    BY <2>1
  <2>4. CompareInv'
    BY <1>1, <1>2, <1>4, <1>5, <2>1, <2>2, <2>3 DEF CompareInv, Comparing, Compared
  <2>5. Epoch(source) >= Epoch(began) + (epochs + 1)
    <3>1. Epoch(source) >= Epoch(began) + epochs + 1
      BY <2>1 DEF EpochsInv
    <3> QED
      BY <1>3, <1>6, <3>1
  <2>6. EpochsInv'
    <3>1. PICK n \in Nat : n = epochs + 1 /\ n > 0
      BY <1>3
    <3>2. epochs' = n /\ agreed' = source /\ agreed' < fork /\ Epoch(source) >= Epoch(began) + n
      BY <2>1, <2>5, <3>1 DEF Same
    <3>3. step' = "relay" => n = KeptEpochs
      BY <2>1, <3>1
    <3> QED
      BY <1>1, <2>1, <2>3, <3>1, <3>2, <3>3 DEF EpochsInv, Compared
  <2> QED
    BY <1>0, <1>3, <2>1, <2>3, <2>4, <2>6, LaterStep DEF SyncSteps, SyncTypeOK, Unbooted, Stopping, Comparing
<1>10. CASE Relay
  BY <1>10, EndSpecStep DEF Relay, Unbooted
<1> QED
  BY <1>0, <1>7, <1>8, <1>9, <1>10

(***************************************************************************)
(* The catch-up.                                                           *)
(***************************************************************************)
LEMMA CatchUpSteps ==
  ASSUME SyncInv, ReadStopped \/ Stop \/ AwaitFinalized \/ Resume \/ CheckResumed
  PROVE  SyncInv'
<1> USE DEF SyncInv
<1>1. /\ tip \in Nat /\ tip + Patience \in Nat /\ tip + 0 \in Nat /\ tip + (WhileStopped * EpochLength + 1) \in Nat
      /\ execution \in Nat /\ head \in Nat
  <2>1. WhileStopped * EpochLength \in Nat
    BY SyncConstants
  <2> QED
    BY <2>1, SyncConstants DEF SyncTypeOK
<1>2. FinalizedSlot(source) \in Nat
  BY FinalizedSlotNat DEF SyncTypeOK
<1>3. CASE ReadStopped
  <2>1. /\ Watching /\ step = "stopping" /\ step' = "stop" /\ deadline' = tip + 0 /\ verdict' = verdict
        /\ head' = execution /\ before' = FinalizedSlot(source) /\ UNCHANGED <<epochs, agreed, began>>
    BY <1>3 DEF ReadStopped, GoOn, Begin
  <2>2. UNCHANGED <<execution, beacon, running>>
    BY <2>1, WatchingFacts
  <2>3. CompareInv' /\ EpochsInv'
    BY <1>1, <2>1, <2>2 DEF CompareInv, EpochsInv, Comparing, Compared, Unbooted
  <2> QED
    BY <1>1, <1>2, <2>1, <2>3, LaterStep DEF SyncSteps, SyncTypeOK, Unbooted, Stopping, Comparing
<1>4. CASE AwaitFinalized
  <2>1. /\ Watching /\ step = "stopped" /\ step' = "resume" /\ deadline' = tip + 0 /\ verdict' = verdict
        /\ UNCHANGED <<before, head, epochs, agreed, began>>
    BY <1>4 DEF AwaitFinalized, GoOn, Begin, reads
  <2>2. UNCHANGED <<execution, beacon, running, lossy>>
    BY <2>1, WatchingFacts
  <2>3. CompareInv' /\ EpochsInv'
    BY <1>1, <2>1, <2>2 DEF CompareInv, EpochsInv, Comparing, Compared, Unbooted
  <2> QED
    BY <1>1, <2>1, <2>3, LaterStep DEF SyncSteps, SyncTypeOK, Unbooted, Stopping, Comparing
<1>5. CASE CheckResumed
  <2>0. Watching /\ step = "resumed"
    BY <1>5 DEF CheckResumed
  <2>1. CASE KeptItsBlocks
    <3>1. /\ step' = "execution head" /\ deadline' = tip + Patience /\ verdict' = verdict
          /\ before' = 0 /\ head' = 0 /\ UNCHANGED <<epochs, agreed, began>>
      BY <1>5, <2>1 DEF CheckResumed, CheckOr, GoOn, Begin
    <3>2. UNCHANGED <<execution, beacon, running>>
      BY <2>0, WatchingFacts
    <3>3. CompareInv' /\ EpochsInv'
      BY <1>1, <2>0, <3>1, <3>2 DEF CompareInv, EpochsInv, Comparing, Compared, Unbooted
    <3> QED
      BY <1>1, <2>0, <3>1, <3>3, LaterStep DEF SyncSteps, SyncTypeOK, Unbooted, Stopping, Comparing
  <2>2. CASE ~KeptItsBlocks
    BY <1>5, <2>0, <2>2, EndSpecStep DEF CheckResumed, CheckOr, Unbooted
  <2> QED
    BY <2>1, <2>2
<1>6. CASE Stop
  <2>1. /\ step = "stop" /\ step' = "stopped" /\ deadline' = tip + (WhileStopped * EpochLength + 1)
        /\ running' = FALSE /\ verdict' = verdict
        /\ UNCHANGED <<tip, source, execution, beacon, origin, checkpoint, fork, hole, lossy, written, first>>
        /\ UNCHANGED <<before, head, epochs, agreed, began>>
    BY <1>6 DEF Stop, GoOn, Begin, network, faults, reads
  <2>2. NodeFinalized' = NodeFinalized
    BY <2>1 DEF NodeFinalized
  <2>3. SyncTypeOK'
    BY <1>1, <2>1 DEF SyncTypeOK, SyncSteps, Stopping
  <2>4. HeadsInv' /\ HistoryInv' /\ OriginInv'
    BY <2>1, <2>2 DEF HeadsInv, HistoryInv, OriginInv, Unbooted, Stopping
  <2>5. CompareInv' /\ EpochsInv'
    BY <2>1 DEF CompareInv, EpochsInv, Comparing, Compared, Unbooted
  <2> QED
    BY <2>3, <2>4, <2>5
<1>7. CASE Resume
  <2>1. /\ step = "resume" /\ step' = "resumed" /\ deadline' = tip + 0
        /\ running' = TRUE /\ verdict' = verdict
        /\ execution' = (IF lossy /\ execution > 0 THEN execution - 1 ELSE execution)
        /\ UNCHANGED <<tip, source, beacon, origin, checkpoint, fork, hole, lossy, written, first>>
        /\ UNCHANGED <<before, head, epochs, agreed, began>>
    BY <1>7 DEF Resume, GoOn, Begin, network, faults, reads
  <2>2. NodeFinalized' = NodeFinalized
    BY <2>1 DEF NodeFinalized
  <2>3. PICK e \in Nat : e = execution' /\ e <= execution /\ (~lossy => e = execution)
    BY <1>1, <2>1
  <2>4. SyncTypeOK'
    BY <1>1, <2>1, <2>3 DEF SyncTypeOK, SyncSteps, Stopping
  <2>5. HeadsInv' /\ HistoryInv' /\ OriginInv'
    BY <1>1, <2>1, <2>2, <2>3 DEF HeadsInv, HistoryInv, OriginInv, Unbooted, Stopping, SyncTypeOK
  <2>6. CompareInv' /\ EpochsInv'
    BY <2>1, <2>3 DEF CompareInv, EpochsInv, Comparing, Compared, Unbooted
  <2> QED
    BY <2>4, <2>5, <2>6
<1> QED
  BY <1>3, <1>4, <1>5, <1>6, <1>7

-----------------------------------------------------------------------------
(***************************************************************************)
(* The inductive invariant.                                                *)
(***************************************************************************)
LEMMA SyncInvInit == SyncInit => SyncInv
<1> SUFFICES ASSUME SyncInit PROVE SyncInv
  OBVIOUS
<1>1. SyncTypeOK
  <2>1. fork \in Forks \cup {NoFork} /\ hole \in Holes \cup {{}} /\ lossy \in BOOLEAN /\ checkpoint \in BOOLEAN
    BY DEF SyncInit
  <2>2. EpochLength \in Nat /\ 2 * EpochLength \in Nat
    BY SyncConstants
  <2> QED
    BY <2>1, <2>2 DEF SyncInit, SyncTypeOK, SyncSteps, Unbooted
<1>2. HeadsInv
  BY SyncConstants DEF SyncInit, HeadsInv
<1>3. HistoryInv
  BY DEF SyncInit, HistoryInv, Specs, Unbooted, Stopping
<1>4. OriginInv
  <2>1. NodeFinalized \in Nat
    BY <1>1, <1>2, NodeFinalizedFacts
  <2>2. 0 <= NodeFinalized /\ 0 <= source
    BY <1>1, <2>1 DEF SyncTypeOK
  <2> QED
    BY <2>2 DEF SyncInit, OriginInv, Unbooted
<1>5. CompareInv /\ EpochsInv
  BY DEF SyncInit, CompareInv, EpochsInv, Unbooted, Comparing, Compared
<1> QED
  BY <1>1, <1>2, <1>3, <1>4, <1>5 DEF SyncInv

LEMMA SyncInvStep == SyncInv /\ [SyncNext]_syncVars => SyncInv'
<1> SUFFICES ASSUME SyncInv, [SyncNext]_syncVars PROVE SyncInv'
  OBVIOUS
<1>1. CASE RunOut
  <2>1. /\ Watching /\ EndSpec("timeout", TRUE) /\ tip = deadline
        /\ step \notin {"write", "start", "boot", "origin", "ended", "checkpoint"}
    BY <1>1 DEF RunOut, Waits
  <2> QED
    BY <2>1, EndSpecStep
<1>2. CASE UNCHANGED syncVars
  <2>1. /\ UNCHANGED <<tip, source, execution, beacon, running, origin, checkpoint, fork, hole, lossy, step>>
        /\ UNCHANGED <<deadline, written, first, before, head, epochs, agreed, began, verdict>>
    BY <1>2 DEF syncVars, network, node, faults, suite, reads
  <2>2. NodeFinalized' = NodeFinalized
    BY <2>1 DEF NodeFinalized
  <2>3. SyncTypeOK' /\ HeadsInv'
    BY <2>1 DEF SyncInv, SyncTypeOK, HeadsInv
  <2>4. HistoryInv' /\ OriginInv'
    BY <2>1, <2>2 DEF SyncInv, HistoryInv, OriginInv
  <2>5. CompareInv' /\ EpochsInv'
    <3>1. (NoGap(beacon) <=> NoGap(beacon)') /\ (NoGap(agreed) <=> NoGap(agreed)')
      BY <2>1 DEF NoGap
    <3>2. CompareInv'
      BY <2>1, <3>1 DEF SyncInv, CompareInv
    <3>3. EpochsInv'
      BY <2>1 DEF SyncInv, EpochsInv
    <3> QED
      BY <3>2, <3>3
  <2> QED
    BY <2>3, <2>4, <2>5 DEF SyncInv
<1> QED
  BY <1>1, <1>2, ChainSteps, HistorySteps, StartSteps, WaitSteps, ComparisonSteps, EpochSteps, CatchUpSteps
  DEF SyncNext

LEMMA SyncInvCorrect == SyncSpec => []SyncInv
  BY SyncInvInit, SyncInvStep, PTL DEF SyncSpec

(***************************************************************************)
(* The node of a suite that has passed started from a checkpoint the       *)
(* written history was behind.                                             *)
(***************************************************************************)
THEOREM HistoryIsBehind == SyncSpec => []HistoryBehindCheckpoint
<1>1. SyncInv => HistoryBehindCheckpoint
  BY DEF SyncInv, HistoryInv, HistoryBehindCheckpoint
<1> QED
  BY <1>1, SyncInvCorrect, PTL

(***************************************************************************)
(* The specs on the node pass at their last step only.                     *)
(***************************************************************************)
LEMMA OnlyRelayPasses ==
  ASSUME SyncInv, SyncNext, NEW spec \in {"sync", "catch up"}, Ends(spec, "passed")
  PROVE  step = "relay" /\ Watching
<1> USE DEF SyncInv
<1>1. verdict' # verdict /\ verdict[spec] = "none" /\ verdict'[spec] = "passed"
  BY DEF Ends
<1>2. ASSUME NEW how \in {"failed", "timeout"}, NEW started \in BOOLEAN, EndSpec(how, started) PROVE FALSE
  <2>1. spec \in Specs /\ verdict'[spec] \in {how, "failed", verdict[spec]}
    BY <1>2 DEF EndSpec, Specs
  <2> QED
    BY <1>1, <2>1
<1>3. ASSUME NEW holds, NEW next, NEW slots, CheckOr(holds, next, slots) PROVE FALSE
  BY <1>1, <1>2, <1>3 DEF CheckOr, GoOn
<1>4. ~AwaitHistory
  <2>1. SUFFICES ASSUME AwaitHistory PROVE FALSE
    OBVIOUS
  <2>2. step = "history" /\ EndSpec("passed", TRUE)
    BY <2>1 DEF AwaitHistory
  <2>3. SpecOf(step) = "history"
    BY <2>2 DEF SpecOf
  <2>4. verdict'[spec] = verdict[spec]
    BY <2>2, <2>3 DEF EndSpec, Specs
  <2> QED
    BY <1>1, <2>4
<1>5. ~(Slot \/ SourceImports \/ NodeImports)
  BY <1>1 DEF Slot, SourceImports, NodeImports, suite
<1>6. ~(Write \/ StartNode \/ ReadOrigin)
  BY <1>1 DEF Write, StartNode, ReadOrigin, GoOn
<1>7. ~Boot
  BY <1>1, <1>3 DEF Boot
<1>8. ~CheckOrigin
  BY <1>2, <1>3 DEF CheckOrigin
<1>9. ~(ReadExecutionHead \/ ReadBeaconHead \/ ReportsSynced \/ ReadHead)
  BY <1>1 DEF ReadExecutionHead, ReadBeaconHead, ReportsSynced, ReadHead, GoOn
<1>10. ~(CompareChain \/ CompareBlocks \/ CheckResumed)
  BY <1>3 DEF CompareChain, CompareBlocks, CheckResumed
<1>11. ~ReadFinalized
  BY <1>1, <1>2 DEF ReadFinalized, GoOn
<1>12. ~(CompareCheckpoints \/ NextEpoch \/ AwaitEpoch)
  BY <1>1 DEF CompareCheckpoints, NextEpoch, AwaitEpoch, GoOn
<1>13. ~KeepHead
  BY <1>1 DEF KeepHead, GoOn
<1>14. ~(ReadStopped \/ Stop \/ AwaitFinalized \/ Resume)
  BY <1>1 DEF ReadStopped, Stop, AwaitFinalized, Resume, GoOn
<1>15. ~RunOut
  BY <1>2 DEF RunOut
<1>16. Relay
  BY <1>4, <1>5, <1>6, <1>7, <1>8, <1>9, <1>10, <1>11, <1>12, <1>13, <1>14, <1>15 DEF SyncNext
<1> QED
  BY <1>16 DEF Relay

(***************************************************************************)
(* A spec that passes had a node that followed the source, whatever fork   *)
(* or run of lost blocks the node had.                                     *)
(***************************************************************************)
THEOREM PassedFollowed == SyncSpec => PassedMeansFollowed
<1>1. ASSUME SyncInv, [SyncNext]_syncVars, NEW spec \in {"sync", "catch up"}, Ends(spec, "passed")
      PROVE  /\ Epoch(agreed) >= Epoch(began) + KeptEpochs
             /\ fork > agreed
             /\ hole \subseteq first .. FinalizedSlot(began - Behind) =>
                  Cardinality(hole) < Max({(agreed - first) \div Samples, 1})
  <2>1. verdict' # verdict
    BY <1>1 DEF Ends
  <2>2. SyncNext
    BY <1>1, <2>1 DEF syncVars, suite
  <2>3. step = "relay"
    BY <1>1, <2>2, OnlyRelayPasses
  <2>4. epochs > 0 /\ epochs = KeptEpochs /\ Epoch(agreed) >= Epoch(began) + epochs /\ agreed < fork
    BY <1>1, <2>3 DEF SyncInv, EpochsInv, Compared
  <2>5. NoGap(agreed)
    BY <1>1, <2>3 DEF SyncInv, CompareInv
  <2> QED
    BY <2>4, <2>5 DEF NoGap, ShortGap
<1>2. SyncInv /\ [SyncNext]_syncVars =>
        [\A spec \in {"sync", "catch up"} : Ends(spec, "passed") =>
           /\ Epoch(agreed) >= Epoch(began) + KeptEpochs
           /\ fork > agreed
           /\ LET last == FinalizedSlot(began - Behind)
                  distance == Max({(agreed - first) \div Samples, 1})
              IN hole \subseteq first .. last => Cardinality(hole) < distance]_syncVars
  BY <1>1
<1> QED
  BY <1>2, SyncInvCorrect, PTL DEF SyncSpec, PassedMeansFollowed

(***************************************************************************)
(* What makes a check fail that is made only once.                         *)
(***************************************************************************)
LEMMA HealthyNode ==
  ASSUME SyncInv, Healthy
  PROVE  /\ \A block \in Nat : block <= beacon => block < fork
         /\ \A slot \in Nat : slot \in origin .. beacon => Serves(slot)
<1>1. beacon \in Nat /\ beacon <= MaxBlock /\ fork = MaxBlock + 1 /\ hole = {}
  BY SyncConstants DEF SyncInv, SyncTypeOK, HeadsInv, Healthy, NoFork
<1>2. beacon < fork
  BY <1>1, SyncConstants
<1> QED
  BY <1>1, <1>2, SyncConstants DEF Serves

LEMMA OriginFailsInRace ==
  ASSUME SyncInv, Healthy, step = "checkpoint", ~(FromCheckpoint /\ first > 0)
  PROVE  \/ FinalizedSlot(source) >= before + 2 * EpochLength
         \/ FinalizedSlot(source) < first
<1> USE DEF SyncInv
<1>1. PICK f \in Nat : f = FinalizedSlot(source) /\ f % EpochLength = 0 /\ f <= source
  BY FinalizedSlotNat, FinalizedSlotBehind DEF SyncTypeOK
<1>2. SUFFICES ASSUME first <= f PROVE f >= before + 2 * EpochLength
  BY <1>1 DEF SyncTypeOK
<1>3. /\ first \in Nat /\ before \in Nat /\ 0 < before /\ before <= first
      /\ before % EpochLength = 0 /\ first % EpochLength = 0
  BY DEF OriginInv, SyncTypeOK
<1>4. Same(first)
  <2>1. first <= source
    BY <1>1, <1>2, <1>3 DEF SyncTypeOK
  <2>2. first <= beacon
    BY NodeFinalizedFacts, <1>3 DEF OriginInv, SyncTypeOK
  <2> QED
    BY <1>3, <2>1, <2>2, HealthyNode DEF Same
<1>5. first # before /\ first # f
  BY <1>1, <1>3, <1>4 DEF FromCheckpoint
<1>6. before + EpochLength <= first /\ first + EpochLength <= f
  BY <1>1, <1>2, <1>3, <1>5, NextBegins
<1> QED
  BY <1>1, <1>3, <1>6, SyncConstants

LEMMA HealthyChainHolds ==
  ASSUME SyncInv, Healthy, step = "compare", ~HoldsChain
  PROVE  head > source
<1> USE DEF SyncInv
<1>1. PICK n \in SampledRange(0, head) : ~Same(n)
  BY DEF HoldsChain
<1>2. n \in Nat /\ n <= head
  BY <1>1 DEF SampledRange, SyncTypeOK
<1>3. n <= beacon
  BY <1>2 DEF CompareInv, HeadsInv, SyncTypeOK
<1> QED
  BY <1>1, <1>2, <1>3, HealthyNode DEF Same, SyncTypeOK

LEMMA HealthyBlocksHold ==
  ASSUME SyncInv, Healthy, step = "blocks", NEW slot \in SampledRange(0, first - 1), first > 0
  PROVE  NoOtherBlockAtSlot(slot)
<1> USE DEF SyncInv
<1>1. slot \in Nat /\ slot <= first
  BY DEF SampledRange, SyncTypeOK
<1>2. first <= source /\ first <= beacon
  BY NodeFinalizedFacts DEF OriginInv, SyncTypeOK
<1>3. slot <= source /\ slot <= beacon
  BY <1>1, <1>2 DEF SyncTypeOK
<1> QED
  BY <1>1, <1>3, HealthyNode DEF NoOtherBlockAtSlot, Same

LEMMA HealthyKeepsBlocks ==
  ASSUME SyncInv, Healthy, step = "resumed"
  PROVE  KeptItsBlocks
  BY DEF SyncInv, SyncTypeOK, CompareInv, Healthy, KeptItsBlocks

(***************************************************************************)
(* A healthy node is failed only in the races of the code with the network.*)
(***************************************************************************)
THEOREM HealthyFailsInRace == SyncSpec => HealthyFailsOnlyInRace
<1> DEFINE Race == \/ step = "compare" /\ head > source
                   \/ /\ step = "checkpoint"
                      /\ \/ FinalizedSlot(source) >= before + 2 * EpochLength
                         \/ FinalizedSlot(source) < first
<1>1. ASSUME SyncInv, SyncNext, NEW spec \in Specs, Ends(spec, "failed"), Healthy, ~Race
      PROVE  FALSE
  <2> USE DEF SyncInv
  <2>1. verdict' # verdict /\ verdict[spec] = "none" /\ verdict'[spec] = "failed"
    BY <1>1 DEF Ends
  <2>2. ASSUME NEW how \in {"passed", "timeout"}, EndSpec(how, TRUE) PROVE FALSE
    <3>1. verdict'[spec] \in {how, verdict[spec]}
      BY <2>2 DEF EndSpec
    <3> QED
      BY <2>1, <3>1
  <2>3. ASSUME NEW next, NEW slots, NEW holds, holds, CheckOr(holds, next, slots) PROVE FALSE
    BY <2>1, <2>3 DEF CheckOr, GoOn
  <2>5. ~(Slot \/ SourceImports \/ NodeImports)
    BY <2>1 DEF Slot, SourceImports, NodeImports, suite
  <2>6. ~(Write \/ StartNode \/ ReadOrigin)
    BY <2>1 DEF Write, StartNode, ReadOrigin, GoOn
  <2>7. ~Boot
    BY <2>1 DEF Boot, CheckOr, GoOn
  <2>8. ~CheckOrigin
    <3>1. SUFFICES ASSUME CheckOrigin PROVE FALSE
      OBVIOUS
    <3>2. step = "checkpoint" /\ FromCheckpoint /\ first > 0
      BY <1>1, <3>1, OriginFailsInRace DEF CheckOrigin
    <3> QED
      BY <2>1, <3>1, <3>2 DEF CheckOrigin, CheckOr, GoOn
  <2>9. ~(ReadExecutionHead \/ ReadBeaconHead \/ ReportsSynced \/ ReadHead)
    BY <2>1 DEF ReadExecutionHead, ReadBeaconHead, ReportsSynced, ReadHead, GoOn
  <2>10. ~CompareChain
    <3>1. SUFFICES ASSUME CompareChain PROVE FALSE
      OBVIOUS
    <3>2. step = "compare" /\ HoldsChain
      BY <1>1, <3>1, HealthyChainHolds DEF CompareChain
    <3> QED
      BY <2>1, <3>1, <3>2 DEF CompareChain, CheckOr, GoOn
  <2>11. ~ReadFinalized
    <3>1. SUFFICES ASSUME ReadFinalized PROVE FALSE
      OBVIOUS
    <3>2. NodeFinalized >= first
      BY <1>1, NodeFinalizedFacts DEF OriginInv, SyncTypeOK
    <3> QED
      BY <2>1, <3>1, <3>2 DEF ReadFinalized, GoOn
  <2>12. ~CompareBlocks
    <3>1. SUFFICES ASSUME CompareBlocks PROVE FALSE
      OBVIOUS
    <3>2. step = "blocks"
      BY <3>1 DEF CompareBlocks
    <3>3. first > 0 => \A slot \in SampledRange(0, first - 1) : NoOtherBlockAtSlot(slot)
      BY <1>1, <3>2, HealthyBlocksHold
    <3> QED
      BY <2>1, <3>1, <3>3 DEF CompareBlocks, CheckOr, GoOn
  <2>13. ~CheckResumed
    <3>1. SUFFICES ASSUME CheckResumed PROVE FALSE
      OBVIOUS
    <3>2. KeptItsBlocks
      BY <1>1, <3>1, HealthyKeepsBlocks DEF CheckResumed
    <3> QED
      BY <2>1, <3>1, <3>2 DEF CheckResumed, CheckOr, GoOn
  <2>14. ~(CompareCheckpoints \/ NextEpoch \/ AwaitEpoch \/ KeepHead)
    BY <2>1 DEF CompareCheckpoints, NextEpoch, AwaitEpoch, KeepHead, GoOn
  <2>15. ~(ReadStopped \/ Stop \/ AwaitFinalized \/ Resume)
    BY <2>1 DEF ReadStopped, Stop, AwaitFinalized, Resume, GoOn
  <2>16. ~(AwaitHistory \/ Relay \/ RunOut)
    BY <2>2 DEF AwaitHistory, Relay, RunOut
  <2> QED
    BY <1>1, <2>5, <2>6, <2>7, <2>8, <2>9, <2>10, <2>11, <2>12, <2>13, <2>14, <2>15, <2>16 DEF SyncNext
<1>2. SyncInv /\ [SyncNext]_syncVars =>
        [\A spec \in Specs : Ends(spec, "failed") /\ Healthy => Race]_syncVars
  BY <1>1
<1> QED
  BY <1>2, SyncInvCorrect, PTL DEF SyncSpec, HealthyFailsOnlyInRace
=============================================================================
