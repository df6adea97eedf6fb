---------------------------- MODULE Environment ----------------------------
(***************************************************************************)
(* devnet/environment.go, profiles.go and parameters.go: who takes part in *)
(* a network.  A profile says which validators of genesis its participants *)
(* run, and labels their services.  An environment is found again from the *)
(* services of the enclave: they come as a map, are visited in the order   *)
(* Go's runtime chooses, and each belongs to the participant its label or  *)
(* else its name says.                                                     *)
(***************************************************************************)
EXTENDS Naturals, Sequences, FiniteSets, FiniteSetsExt, Functions

CONSTANTS
  Positions,  \* bound: participants of a profile
  MaxCount,   \* bound: validators of a participant, and spares
  MaxChanges, \* bound: services that are not as the profile rendered them
  None        \* no service, no label

ASSUME EnvironmentAssumption ==
  Positions \in Nat \ {0} /\ MaxCount \in Nat \ {0} /\ MaxChanges \in Nat

VARIABLES
  counts,       \* the validator counts of the profile's participants
  registered,   \* preregisteredValidators of the profile
  services,     \* services[n]: the service of a name in the enclave
  left,         \* the names the loop has not visited
  byIndex,      \* byIndex[i][type]: the name of a service of participant i
  participants, \* the result, in order
  failed        \* the resolution returned an error

profile == <<counts, registered>>
vars == <<profile, services, left, byIndex, participants, failed>>

ClientTypes == {"execution", "beacon", "validator"}
Bad == 0

\* A service has a type, and by qrl-package's convention its name an index; a
\* name can have none, and the label qrl-tests.participant can be wrong.
Names == (ClientTypes \X (1 .. Positions)) \cup {<<"beacon", Bad>>, <<"other", Bad>>}

\* Absent, or with a label and with or without its public ports.
Service == [label : {None, Bad} \cup 1 .. Positions, public : BOOLEAN]
ServiceChoices == {None} \cup Service

ASSUME NoneAssumption == None \notin Names \cup (Bad .. Positions) \cup Service

-----------------------------------------------------------------------------
(***************************************************************************)
(* The profile.                                                            *)
(***************************************************************************)
\* The validators run by the first participants.
Assigned[n \in 0 .. Len(counts)] == IF n = 0 THEN 0 ELSE Assigned[n - 1] + counts[n]

Total == Assigned[Len(counts)]

\* Faulty: the participants are given equal shares.
EqualShares(position) ==
  {position * counts[position + 1] + offset : offset \in 0 .. counts[position + 1] - 1}

\* The indices run by the participant at a position from 0: the ones after
\* those of the participants before it.
ParticipantValidators(position) ==
  IF position \notin 0 .. Len(counts) - 1 THEN {}
  ELSE {Assigned[position] + offset : offset \in 0 .. counts[position + 1] - 1}

SpareValidators == Total .. registered - 1

\* profileParameters: every service carries the index of its participant.
Rendered ==
  [n \in Names |->
    IF n[2] \in 1 .. Len(counts) THEN [label |-> n[2], public |-> TRUE]
    ELSE IF n[1] = "other" THEN [label |-> None, public |-> FALSE] ELSE None]

\* qrl-package registers what the participants run, or what it is told to.
Registered == {0, Total, Total + MaxCount}

Changed == {n \in Names : services[n] # Rendered[n]}

\* EnclaveClient.Services: every service of the enclave, under its name.
Listed == {n \in Names : services[n] # None}

Init ==
  /\ counts \in UNION {[1 .. n -> 1 .. MaxCount] : n \in 1 .. Positions}
  /\ registered \in Registered
  /\ services \in
       {[n \in Names |-> IF n \in DOMAIN change THEN change[n] ELSE Rendered[n]] :
          change \in UNION {[names -> ServiceChoices] : names \in kSubset(MaxChanges, Names)}}
  /\ left = Listed
  /\ byIndex = <<>> /\ participants = <<>> /\ failed = FALSE

-----------------------------------------------------------------------------
(***************************************************************************)
(* The participants.                                                       *)
(***************************************************************************)
Done == failed \/ participants # <<>>

\* serviceIndex: the name's second segment.
ServiceIndex(n) == n[2]

ParticipantIndex(n) ==
  IF services[n].label # None THEN services[n].label ELSE ServiceIndex(n)

\* Service.PublicHostPort
HasEndpoint(n) == services[n].public

\* The ports an execution or beacon service must publish; all of a
\* validator's are optional.
EndpointMissing(n) == n[1] # "validator" /\ ~HasEndpoint(n)

Refuse == failed' = TRUE /\ UNCHANGED <<byIndex, participants>>

\* One round of the loop over the map.
Visit(n) ==
  /\ ~Done /\ n \in left /\ left' = left \ {n}
  /\ \/ n[1] \notin ClientTypes /\ UNCHANGED <<byIndex, participants, failed>>
     \/ /\ n[1] \in ClientTypes /\ (ParticipantIndex(n) = Bad \/ EndpointMissing(n))
        /\ Refuse
     \/ /\ n[1] \in ClientTypes /\ ParticipantIndex(n) # Bad /\ ~EndpointMissing(n)
        /\ LET index == ParticipantIndex(n)
               known == IF index \in DOMAIN byIndex THEN byIndex[index]
                        ELSE [type \in ClientTypes |-> None]
           IN byIndex' = [i \in DOMAIN byIndex \cup {index} |->
                            IF i = index THEN [known EXCEPT ![n[1]] = n] ELSE byIndex[i]]
        /\ UNCHANGED <<participants, failed>>
  /\ UNCHANGED <<profile, services>>

\* Faulty: only the execution service is asked for.
ExecutionSuffices(i) == byIndex[i]["execution"] # None

Complete(i) == byIndex[i]["execution"] # None /\ byIndex[i]["beacon"] # None

\* The participants, sorted by their indices.
Collect ==
  /\ ~Done /\ left = {}
  /\ \/ /\ byIndex = <<>> \/ \E i \in DOMAIN byIndex : ~Complete(i)
        /\ Refuse
     \/ /\ byIndex # <<>> /\ \A i \in DOMAIN byIndex : Complete(i)
        /\ participants' = [p \in 1 .. Cardinality(DOMAIN byIndex) |->
              LET index == CHOOSE i \in DOMAIN byIndex :
                             Cardinality({j \in DOMAIN byIndex : j <= i}) = p
              IN [index |-> index, services |-> byIndex[index]]]
        /\ UNCHANGED <<byIndex, failed>>
  /\ UNCHANGED <<profile, services, left>>

Next == Collect \/ \E n \in Names : Visit(n)

Spec == Init /\ [][Next]_vars

-----------------------------------------------------------------------------
Members == {n \in Listed : n[1] \in ClientTypes}
MembersOf(i, type) == {n \in Members : ParticipantIndex(n) = i /\ n[1] = type}
IndicesOf == {ParticipantIndex(n) : n \in Members}

\* What no order of the map may resolve.
Unresolvable ==
  \/ Members = {}
  \/ \E n \in Members : ParticipantIndex(n) = Bad \/ EndpointMissing(n)
  \/ \E i \in IndicesOf, type \in {"execution", "beacon"} : MembersOf(i, type) = {}

(***************************************************************************)
(* The order of the map decides neither whether an environment resolves    *)
(* nor into which participants: each index once, lowest first, each with   *)
(* services of its own, and with its validator client if it has one.       *)
(* Where two services of one type have the index, one of them stays: the   *)
(* loop lets the later one replace the earlier, so the order of the map    *)
(* decides which, and this does not say.                                   *)
(***************************************************************************)
ResolutionIsExact ==
  Done =>
    /\ failed <=> Unresolvable
    /\ ~failed =>
         /\ {participants[p].index : p \in DOMAIN participants} = IndicesOf
         /\ \A p, q \in DOMAIN participants :
              p < q => participants[p].index < participants[q].index
         /\ \A p \in DOMAIN participants, type \in ClientTypes :
              LET own == MembersOf(participants[p].index, type)
              IN participants[p].services[type] \in IF own = {} THEN {None} ELSE own

(***************************************************************************)
(* The participant a suite finds at a position of the environment is the   *)
(* one that runs the validators the profile gives for that position, and   *)
(* every validator of genesis is run by one participant or is a spare.     *)
(***************************************************************************)
EnvironmentMatchesProfile ==
  Done /\ Changed = {} =>
    /\ Len(participants) = Len(counts)
    /\ \A p \in DOMAIN participants :
         participants[p].services["validator"] = <<"validator", p>>
    /\ \A index \in 0 .. Total + MaxCount :
         Cardinality({p \in DOMAIN participants : index \in ParticipantValidators(p - 1)})
           + (IF index \in SpareValidators THEN 1 ELSE 0)
         = IF index < Max({registered, Total}) THEN 1 ELSE 0
=============================================================================
