---------------------------- MODULE AttachProofs ----------------------------
(***************************************************************************)
(* The environment of a network and the images of a lane that attaches to  *)
(* it, for any number of participants, any services that are not as the    *)
(* profile rendered them, and any events meanwhile.                        *)
(*                                                                         *)
(* The inductive invariant of the loop over the map says that what was     *)
(* gathered is what the services visited so far say, whichever they are;   *)
(* that of its result, which rank every participant has.                   *)
(***************************************************************************)
EXTENDS Attach, FiniteSetTheorems, TLAPS

TypeOK ==
  /\ services \in [Names -> ServiceChoices]
  /\ left \in SUBSET Listed
  /\ failed \in BOOLEAN

Found == Members \ left
FoundOf(i, type) == MembersOf(i, type) \ left
Either(names) == IF names = {} THEN {None} ELSE names
UpTo(D, i) == {j \in D : j <= i}

(***************************************************************************)
(* The loop over the map, until it is left with a result or an error.      *)
(***************************************************************************)
LoopInv ==
  ~Done =>
    /\ \A n \in Found : ParticipantIndex(n) # Bad /\ ~EndpointMissing(n)
    /\ DOMAIN byIndex = {ParticipantIndex(n) : n \in Found}
    /\ byIndex = <<>> <=> Found = {}
    /\ \A i \in DOMAIN byIndex :
         /\ byIndex[i] \in [ClientTypes -> Names \cup {None}]
         /\ \A type \in ClientTypes : byIndex[i][type] \in Either(FoundOf(i, type))

(***************************************************************************)
(* The participants found are in the order of their ranks, and the profile *)
(* stays the one the network was rendered from.                            *)
(***************************************************************************)
RankInv ==
  Done /\ ~failed =>
    /\ participants = [p \in 1 .. Cardinality(IndicesOf) |-> participants[p]]
    /\ \A p \in DOMAIN participants :
         LET index == participants[p].index
         IN  index \in IndicesOf /\ Cardinality(UpTo(IndicesOf, index)) = p

ProfileInv ==
  /\ Len(counts) \in 1 .. Positions /\ counts \in [1 .. Len(counts) -> 1 .. MaxCount]
  /\ registered \in Registered

IInv == TypeOK /\ LoopInv /\ RankInv /\ ResolutionIsExact

-----------------------------------------------------------------------------
(***************************************************************************)
(* The elements of a finite set of numbers have ranks, each its own, in    *)
(* the order of the elements.                                              *)
(***************************************************************************)
LEMMA Ranks ==
  ASSUME NEW D \in SUBSET Nat, IsFiniteSet(D)
  PROVE  /\ Cardinality(D) \in Nat
         /\ \A i \in D : Cardinality(UpTo(D, i)) \in 1 .. Cardinality(D)
         /\ \A i, j \in D : i < j => Cardinality(UpTo(D, i)) < Cardinality(UpTo(D, j))
         /\ \A p \in 1 .. Cardinality(D) : \E i \in D : Cardinality(UpTo(D, i)) = p
<1>1. Cardinality(D) \in Nat
  BY FS_CardinalityType
<1>2. ASSUME NEW i \in D
      PROVE  /\ IsFiniteSet(UpTo(D, i)) /\ Cardinality(UpTo(D, i)) \in Nat
             /\ Cardinality(UpTo(D, i)) \in 1 .. Cardinality(D)
  <2>1. UpTo(D, i) \in SUBSET D /\ i \in UpTo(D, i)
    BY DEF UpTo
  <2>2. IsFiniteSet(UpTo(D, i)) /\ Cardinality(UpTo(D, i)) <= Cardinality(D)
    BY <2>1, FS_Subset
  <2>3. Cardinality(UpTo(D, i)) \in Nat
    BY <2>2, FS_CardinalityType
  <2>4. Cardinality(UpTo(D, i)) # 0
    BY <2>1, <2>2, FS_EmptySet
  <2> QED
    BY <1>1, <2>2, <2>3, <2>4
<1>3. ASSUME NEW i \in D, NEW j \in D, i < j
      PROVE  Cardinality(UpTo(D, i)) < Cardinality(UpTo(D, j))
  <2>0. i \in Nat /\ j \in Nat /\ ~(j <= i) /\ j <= j /\ \A k \in Nat : k <= i => k <= j
    BY <1>3
  <2>1. UpTo(D, i) \in SUBSET UpTo(D, j) /\ j \in UpTo(D, j) /\ j \notin UpTo(D, i)
    BY <2>0 DEF UpTo
  <2>2. /\ Cardinality(UpTo(D, i)) <= Cardinality(UpTo(D, j))
        /\ Cardinality(UpTo(D, i)) # Cardinality(UpTo(D, j))
    BY <1>2, <2>1, FS_Subset
  <2> QED
    BY <1>2, <2>2
<1>4. ASSUME NEW p \in 1 .. Cardinality(D)
      PROVE  \E i \in D : Cardinality(UpTo(D, i)) = p
  <2> DEFINE rank == [i \in D |-> Cardinality(UpTo(D, i))]
  <2>1. rank \in [D -> 1 .. Cardinality(D)]
    BY <1>2
  <2>2. \A i, j \in D : rank[i] = rank[j] => i = j
    <3>1. \A i, j \in D : i # j => i < j \/ j < i
      OBVIOUS
    <3>2. \A i, j \in D : i < j => rank[i] < rank[j]
      BY <1>3
    <3>3. \A i \in D : rank[i] \in Nat
      BY <1>2
    <3> HIDE DEF rank
    <3>4. \A i, j \in D : i < j => rank[i] # rank[j]
      BY <3>2, <3>3
    <3> QED
      BY <3>1, <3>4
  <2>3. rank \in Injection(D, 1 .. Cardinality(D))
    BY <2>1, <2>2 DEF Injection, IsInjective
  <2>4. IsFiniteSet(1 .. Cardinality(D)) /\ Cardinality(1 .. Cardinality(D)) = Cardinality(D)
    BY <1>1, FS_Interval
  <2> HIDE DEF rank
  <2>5. rank \in Surjection(D, 1 .. Cardinality(D))
    BY <2>3, <2>4, FS_Injection
  <2>6. \E i \in D : rank[i] = p
    BY <2>5 DEF Surjection
  <2> QED
    BY <2>6 DEF rank
<1> QED
  BY <1>1, <1>2, <1>3, <1>4

(***************************************************************************)
(* Every set of numbers has a least one.                                   *)
(***************************************************************************)
LEMMA LeastNumber ==
  ASSUME NEW S \in SUBSET Nat, S # {}
  PROVE  \E least \in S : \A other \in S : least <= other
<1>1. PICK least \in S : \A other \in S : ~(<<other, least>> \in OpToRel(<, Nat))
  BY NatLessThanWellFounded, WFMin
<1>2. \A other \in S : ~(other < least)
  BY <1>1 DEF OpToRel
<1>3. \A other \in S : least <= other
  BY <1>2
<1> QED
  BY <1>3

(***************************************************************************)
(* The sums of the first numbers of a list exist, are numbers and grow.    *)
(***************************************************************************)
SumsOf(list, sums, n) == sums = [k \in 0 .. n |-> IF k = 0 THEN 0 ELSE sums[k - 1] + list[k]]

LEMMA SumsAreNumbers ==
  ASSUME NEW n \in Nat, NEW list, \A k \in 1 .. n : list[k] \in Nat, NEW sums, SumsOf(list, sums, n)
  PROVE  \A k \in 0 .. n : sums[k] \in Nat
<1> DEFINE Wrong == {k \in 0 .. n : sums[k] \notin Nat}
<1>1. Wrong # {} => FALSE
  <2>1. SUFFICES ASSUME Wrong # {} PROVE FALSE
    OBVIOUS
  <2>2. PICK k \in Wrong : \A other \in Wrong : k <= other
    <3>1. Wrong \in SUBSET Nat
      OBVIOUS
    <3> HIDE DEF Wrong
    <3> QED
      BY <2>1, <3>1, LeastNumber
  <2>3. k \in 0 .. n /\ sums[k] = IF k = 0 THEN 0 ELSE sums[k - 1] + list[k]
    BY DEF SumsOf
  <2>4. k # 0
    BY <2>3
  <2>5. k - 1 \in 0 .. n /\ k - 1 \notin Wrong /\ k \in 1 .. n
    BY <2>2, <2>3, <2>4
  <2>6. sums[k - 1] \in Nat /\ list[k] \in Nat
    BY <2>5
  <2>7. sums[k] \in Nat
    BY <2>3, <2>4, <2>6
  <2> QED
    BY <2>7
<1> QED
  BY <1>1

LEMMA SumsExist ==
  ASSUME NEW n \in Nat, NEW list, \A k \in 1 .. n : list[k] \in Nat
  PROVE  \E sums : SumsOf(list, sums, n)
<1> DEFINE Wrong == {k \in 0 .. n : ~\E sums : SumsOf(list, sums, k)}
<1>1. ASSUME Wrong # {}
      PROVE  FALSE
  <2>1. PICK k \in Wrong : \A other \in Wrong : k <= other
    <3>1. Wrong \in SUBSET Nat
      OBVIOUS
    <3> HIDE DEF Wrong
    <3> QED
      BY <1>1, <3>1, LeastNumber
  <2>2. k # 0
    <3>1. SumsOf(list, [j \in 0 .. 0 |-> 0], 0)
      BY DEF SumsOf
    <3> QED
      BY <3>1
  <2>3. k - 1 \in 0 .. n /\ k \in 0 .. n /\ k - 1 \notin Wrong
    BY <2>1, <2>2
  <2>4. PICK less : SumsOf(list, less, k - 1)
    BY <2>3
  <2> DEFINE sums == [j \in 0 .. k |-> IF j = k THEN less[k - 1] + list[k] ELSE less[j]]
  <2>5. ASSUME NEW j \in 0 .. k
        PROVE  sums[j] = IF j = 0 THEN 0 ELSE sums[j - 1] + list[j]
    <3>1. CASE j = k
      BY <2>2, <2>3, <3>1
    <3>2. CASE j # k
      <4>1. j \in 0 .. k - 1 /\ sums[j] = less[j]
        BY <2>3, <3>2
      <4>2. less[j] = IF j = 0 THEN 0 ELSE less[j - 1] + list[j]
        BY <2>4, <4>1 DEF SumsOf
      <4>3. j # 0 => sums[j - 1] = less[j - 1]
        BY <2>3, <4>1
      <4> QED
        BY <4>1, <4>2, <4>3
    <3> QED
      BY <3>1, <3>2
  <2>6. SumsOf(list, sums, k)
    BY <2>5 DEF SumsOf
  <2> QED
    BY <2>6
<1>2. n \notin Wrong /\ n \in 0 .. n
  BY <1>1
<1> QED
  BY <1>2

LEMMA SumsGrow ==
  ASSUME NEW n \in Nat, NEW list, \A k \in 1 .. n : list[k] \in Nat, NEW sums, SumsOf(list, sums, n),
         NEW j \in 0 .. n, NEW k \in 0 .. n, j <= k
  PROVE  sums[j] <= sums[k]
<1>0. \A i \in 0 .. n : sums[i] \in Nat
  BY SumsAreNumbers
<1> DEFINE Wrong == {i \in j .. n : sums[i] < sums[j]}
<1>1. ASSUME Wrong # {}
      PROVE  FALSE
  <2>1. PICK i \in Wrong : \A other \in Wrong : i <= other
    <3>1. Wrong \in SUBSET Nat
      OBVIOUS
    <3> HIDE DEF Wrong
    <3> QED
      BY <1>1, <3>1, LeastNumber
  <2>2. i \in j .. n /\ sums[i] < sums[j] /\ i # j
    BY <1>0
  <2>3. i - 1 \in j .. n /\ i - 1 \notin Wrong /\ i \in 1 .. n /\ i \in 0 .. n /\ i - 1 \in 0 .. n
    BY <2>1, <2>2
  <2>4. sums[i] = sums[i - 1] + list[i]
    BY <2>3 DEF SumsOf
  <2>5. list[i] \in Nat /\ sums[i] \in Nat /\ sums[i - 1] \in Nat /\ sums[j] \in Nat
    BY <1>0, <2>3
  <2>6. ~(sums[i - 1] < sums[j])
    BY <2>3
  <2> QED
    BY <2>2, <2>4, <2>5, <2>6
<1>2. k \in j .. n /\ k \notin Wrong
  BY <1>1
<1>3. ~(sums[k] < sums[j]) /\ sums[k] \in Nat /\ sums[j] \in Nat
  BY <1>0, <1>2
<1> QED
  BY <1>3

(***************************************************************************)
(* A number below the sum of the list is in the share of one member.       *)
(***************************************************************************)
LEMMA OneShare ==
  ASSUME NEW n \in Nat, NEW list, \A k \in 1 .. n : list[k] \in Nat, NEW sums, SumsOf(list, sums, n),
         NEW index \in Nat
  PROVE  LET owners == {k \in 1 .. n : sums[k - 1] <= index /\ index < sums[k]}
         IN  IF index < sums[n] THEN \E k \in 1 .. n : owners = {k} ELSE owners = {}
<1> DEFINE owners == {k \in 1 .. n : sums[k - 1] <= index /\ index < sums[k]}
<1>0. \A i \in 0 .. n : sums[i] \in Nat
  BY SumsAreNumbers
<1>1. \A j, k \in 0 .. n : j <= k => sums[j] <= sums[k]
  BY SumsGrow
<1>2. \A k \in 1 .. n : k \in 0 .. n /\ k - 1 \in 0 .. n
  OBVIOUS
<1>3. ASSUME NEW j \in owners, NEW k \in owners, j < k
      PROVE  FALSE
  <2>1. j \in 0 .. n /\ k - 1 \in 0 .. n /\ j <= k - 1
    BY <1>3
  <2>2. sums[j] <= sums[k - 1] /\ index < sums[j] /\ sums[k - 1] <= index
    BY <1>1, <2>1
  <2> QED
    BY <1>0, <2>1, <2>2
<1>4. ASSUME index < sums[n]
      PROVE  owners # {}
  <2> DEFINE Above == {k \in 0 .. n : index < sums[k]}
  <2>1. PICK k \in Above : \A other \in Above : k <= other
    <3>1. Above \in SUBSET Nat /\ n \in Above
      BY <1>4
    <3> HIDE DEF Above
    <3> QED
      BY <3>1, LeastNumber
  <2>2. sums[0] = 0
    BY DEF SumsOf
  <2>3. k # 0
    BY <2>1, <2>2
  <2>4. k \in 1 .. n /\ k - 1 \in 0 .. n /\ k - 1 \notin Above
    BY <2>1, <2>3
  <2>5. sums[k - 1] <= index
    BY <1>0, <2>4
  <2>6. k \in owners
    BY <2>1, <2>4, <2>5
  <2> QED
    BY <2>6
<1>5. ASSUME NEW k \in owners
      PROVE  index < sums[n]
  <2>1. k \in 0 .. n /\ n \in 0 .. n /\ k <= n /\ index < sums[k]
    OBVIOUS
  <2>2. sums[k] <= sums[n]
    BY <1>1, <2>1
  <2> QED
    BY <1>0, <2>1, <2>2
<1>6. \A j, k \in owners : j = k
  <2>1. \A j, k \in owners : j \in Nat /\ k \in Nat
    OBVIOUS
  <2> HIDE DEF owners
  <2> QED
    BY <1>3, <2>1
<1>7. owners \subseteq 1 .. n
  OBVIOUS
<1> HIDE DEF owners
<1>8. IF index < sums[n] THEN \E k \in 1 .. n : owners = {k} ELSE owners = {}
  BY <1>4, <1>5, <1>6, <1>7
<1> QED
  BY <1>8 DEF owners

-----------------------------------------------------------------------------
(***************************************************************************)
(* The services.                                                           *)
(***************************************************************************)
LEMMA MembersHaveIndices ==
  ASSUME TypeOK
  PROVE  /\ Members \subseteq Names
         /\ \A n \in Members : n[1] \in ClientTypes /\ ParticipantIndex(n) \in Nat
         /\ IsFiniteSet(IndicesOf) /\ IndicesOf \subseteq Nat
         /\ \A i, type : MembersOf(i, type) \subseteq Members
<1>1. Positions \in Nat /\ Bad = 0
  BY EnvironmentAssumption DEF Bad
<1>2. Members \subseteq Names /\ \A n \in Members : n[1] \in ClientTypes /\ services[n] # None
  BY DEF Members, Listed
<1>3. ASSUME NEW n \in Members
      PROVE  ParticipantIndex(n) \in 0 .. Positions
  <2>1. services[n] \in Service
    BY <1>2 DEF TypeOK, ServiceChoices
  <2>2. services[n].label # None => services[n].label \in 0 .. Positions
    BY <1>1, <2>1 DEF Service
  <2>3. n[2] \in 0 .. Positions
    BY <1>1, <1>2 DEF Names
  <2> QED
    BY <2>2, <2>3 DEF ParticipantIndex, ServiceIndex
<1>4. IndicesOf \in SUBSET (0 .. Positions)
  BY <1>3 DEF IndicesOf
<1>5. IsFiniteSet(0 .. Positions)
  BY <1>1, FS_Interval
<1>6. IsFiniteSet(IndicesOf)
  BY <1>4, <1>5, FS_Subset
<1> QED
  BY <1>1, <1>2, <1>3, <1>4, <1>6 DEF MembersOf

\* The services stay as they are, and with them everything read off them.
LEMMA ServicesStay ==
  ASSUME services' = services
  PROVE  /\ Listed' = Listed /\ Members' = Members /\ IndicesOf' = IndicesOf
         /\ Unresolvable' = Unresolvable
         /\ \A n : ParticipantIndex(n)' = ParticipantIndex(n) /\ EndpointMissing(n)' = EndpointMissing(n)
         /\ \A i, type : MembersOf(i, type)' = MembersOf(i, type)
BY DEF Listed, Members, IndicesOf, Unresolvable, ParticipantIndex, EndpointMissing, HasEndpoint,
       ServiceIndex, MembersOf

(***************************************************************************)
(* One round of the loop.                                                  *)
(***************************************************************************)
LEMMA VisitStep ==
  ASSUME IInv, NEW n \in Names, Visit(n)
  PROVE  IInv'
<1>a. /\ TypeOK /\ ~Done /\ n \in left /\ left' = left \ {n} /\ participants' = participants
      /\ services' = services /\ participants = <<>> /\ failed = FALSE
  BY DEF IInv, Visit, Refuse, Done, TypeOK
<1>b. /\ \A m \in Found : ParticipantIndex(m) # Bad /\ ~EndpointMissing(m)
      /\ DOMAIN byIndex = {ParticipantIndex(m) : m \in Found}
      /\ byIndex = <<>> <=> Found = {}
      /\ \A i \in DOMAIN byIndex :
           /\ byIndex[i] \in [ClientTypes -> Names \cup {None}]
           /\ \A type \in ClientTypes : byIndex[i][type] \in Either(FoundOf(i, type))
  BY <1>a DEF IInv, LoopInv
<1>c. /\ Listed' = Listed /\ Members' = Members /\ Unresolvable' = Unresolvable
      /\ \A m : ParticipantIndex(m)' = ParticipantIndex(m) /\ EndpointMissing(m)' = EndpointMissing(m)
      /\ \A i, type : MembersOf(i, type)' = MembersOf(i, type)
  BY <1>a, ServicesStay
<1>d. n \in Members <=> n[1] \in ClientTypes
  BY <1>a DEF Members, TypeOK
<1>1. CASE n[1] \notin ClientTypes
  <2>1. UNCHANGED <<byIndex, failed>>
    BY <1>1 DEF Visit
  <2>2. Found' = Found
    BY <1>1, <1>a, <1>c, <1>d DEF Found
  <2>3. \A i, type : FoundOf(i, type)' = FoundOf(i, type)
    BY <1>1, <1>a, <1>c, <1>d DEF FoundOf, MembersOf
  <2>4. TypeOK' /\ ~Done'
    BY <1>a, <1>c, <2>1 DEF TypeOK, Done
  <2>5. LoopInv'
    BY <1>b, <1>c, <2>1, <2>2, <2>3 DEF LoopInv, Either
  <2> QED
    BY <2>4, <2>5 DEF IInv, RankInv, ResolutionIsExact
<1>2. CASE n[1] \in ClientTypes /\ (ParticipantIndex(n) = Bad \/ EndpointMissing(n))
  <2>1. failed' = TRUE
    BY <1>2 DEF Visit, Refuse
  <2>2. Unresolvable'
    BY <1>2, <1>c, <1>d DEF Unresolvable
  <2>3. TypeOK' /\ Done'
    BY <1>a, <1>c, <2>1 DEF TypeOK, Done
  <2> QED
    BY <2>1, <2>2, <2>3 DEF IInv, LoopInv, RankInv, ResolutionIsExact
<1>3. CASE n[1] \in ClientTypes /\ ParticipantIndex(n) # Bad /\ ~EndpointMissing(n)
  <2> DEFINE index == ParticipantIndex(n)
             known == IF index \in DOMAIN byIndex THEN byIndex[index]
                      ELSE [type \in ClientTypes |-> None]
  <2>1. /\ byIndex' = [i \in DOMAIN byIndex \cup {index} |->
                          IF i = index THEN [known EXCEPT ![n[1]] = n] ELSE byIndex[i]]
        /\ failed' = FALSE
    BY <1>3, <1>a DEF Visit, Refuse
  <2>2. Found' = Found \cup {n} /\ n \in Members
    BY <1>3, <1>a, <1>c, <1>d DEF Found
  <2>3. ASSUME NEW i, NEW type
        PROVE  FoundOf(i, type)' = IF i = index /\ type = n[1] THEN FoundOf(i, type) \cup {n}
                                   ELSE FoundOf(i, type)
    <3>1. FoundOf(i, type)' = MembersOf(i, type) \ (left \ {n})
      BY <1>a, <1>c DEF FoundOf
    <3>2. n \in MembersOf(i, type) <=> i = index /\ type = n[1]
      BY <2>2 DEF MembersOf
    <3> QED
      BY <3>1, <3>2 DEF FoundOf
  <2>4. TypeOK' /\ ~Done'
    BY <1>a, <1>c, <2>1 DEF TypeOK, Done
  <2>5. known \in [ClientTypes -> Names \cup {None}]
    BY <1>b
  <2>6. \A type \in ClientTypes : known[type] \in Either(FoundOf(index, type))
    <3>1. CASE index \in DOMAIN byIndex
      BY <1>b, <3>1
    <3>2. CASE index \notin DOMAIN byIndex
      <4>1. \A type \in ClientTypes : FoundOf(index, type) = {}
        BY <1>b, <3>2 DEF FoundOf, MembersOf, Found
      <4> QED
        BY <3>2, <4>1 DEF Either
    <3> QED
      BY <3>1, <3>2
  <2> HIDE DEF known
  <2>7. DOMAIN byIndex' = DOMAIN byIndex \cup {index}
    BY <2>1
  <2>8. ASSUME NEW i \in DOMAIN byIndex'
        PROVE  /\ byIndex'[i] \in [ClientTypes -> Names \cup {None}]
               /\ \A type \in ClientTypes : byIndex'[i][type] \in Either(FoundOf(i, type)')
    <3>1. CASE i = index
      <4>1. byIndex'[i] = [known EXCEPT ![n[1]] = n]
        BY <2>1, <3>1
      <4>2. byIndex'[i] \in [ClientTypes -> Names \cup {None}]
        BY <2>5, <4>1
      <4>3. ASSUME NEW type \in ClientTypes
            PROVE  byIndex'[i][type] \in Either(FoundOf(i, type)')
        <5>1. CASE type = n[1]
          <6>1. byIndex'[i][type] = n
            BY <1>3, <2>5, <4>1, <5>1
          <6>2. n \in FoundOf(i, type)'
            BY <2>3, <3>1, <5>1
          <6> QED
            BY <6>1, <6>2 DEF Either
        <5>2. CASE type # n[1]
          <6>1. byIndex'[i][type] = known[type]
            BY <2>5, <4>1, <5>2
          <6>2. FoundOf(i, type)' = FoundOf(index, type)
            BY <2>3, <3>1, <5>2
          <6> QED
            BY <2>6, <6>1, <6>2
        <5> QED
          BY <5>1, <5>2
      <4> QED
        BY <4>2, <4>3
    <3>2. CASE i # index
      <4>1. i \in DOMAIN byIndex /\ byIndex'[i] = byIndex[i]
        BY <2>1, <2>7, <3>2
      <4>2. \A type : FoundOf(i, type)' = FoundOf(i, type)
        BY <2>3, <3>2
      <4> QED
        BY <1>b, <4>1, <4>2
    <3> QED
      BY <3>1, <3>2
  <2>9. DOMAIN byIndex' = {ParticipantIndex(m)' : m \in Found'}
    BY <1>b, <1>c, <2>2, <2>7
  <2>10. byIndex' # <<>> /\ Found' # {}
    BY <2>2, <2>7
  <2>11. \A m \in Found' : ParticipantIndex(m)' # Bad /\ ~EndpointMissing(m)'
    BY <1>3, <1>b, <1>c, <2>2
  <2>12. LoopInv'
    BY <2>8, <2>9, <2>10, <2>11 DEF LoopInv, Either
  <2> QED
    BY <2>4, <2>12 DEF IInv, RankInv, ResolutionIsExact
<1> QED
  BY <1>1, <1>2, <1>3

(***************************************************************************)
(* The end of the loop: the participants in the order of their indices.    *)
(***************************************************************************)
LEMMA CollectStep ==
  ASSUME IInv, Collect
  PROVE  IInv'
<1>a. TypeOK /\ ~Done /\ left = {} /\ left' = left /\ services' = services
  BY DEF IInv, Collect
<1>b. /\ \A n \in Members : ParticipantIndex(n) # Bad /\ ~EndpointMissing(n)
      /\ DOMAIN byIndex = IndicesOf
      /\ byIndex = <<>> <=> Members = {}
      /\ \A i \in DOMAIN byIndex, type \in ClientTypes : byIndex[i][type] \in Either(MembersOf(i, type))
  BY <1>a DEF IInv, LoopInv, Found, FoundOf, IndicesOf
<1>c. /\ Listed' = Listed /\ Unresolvable' = Unresolvable /\ IndicesOf' = IndicesOf
      /\ \A i, type : MembersOf(i, type)' = MembersOf(i, type)
  BY <1>a, ServicesStay
<1>d. \A i \in IndicesOf, type \in ClientTypes : byIndex[i][type] = None <=> MembersOf(i, type) = {}
  <2>1. \A i, type : None \notin MembersOf(i, type)
    BY <1>a, MembersHaveIndices, NoneAssumption
  <2> QED
    BY <1>b, <2>1 DEF Either
<1>e. TypeOK'
  BY <1>a, <1>c DEF TypeOK, Collect, Refuse
<1>1. CASE /\ byIndex = <<>> \/ \E i \in DOMAIN byIndex : ~Complete(i)
           /\ Refuse
  <2>1. Unresolvable
    <3>1. CASE byIndex = <<>>
      BY <1>b, <3>1 DEF Unresolvable
    <3>2. CASE \E i \in DOMAIN byIndex : ~Complete(i)
      <4>1. PICK i \in IndicesOf : ~Complete(i)
        BY <1>b, <3>2
      <4>2. MembersOf(i, "execution") = {} \/ MembersOf(i, "beacon") = {}
        BY <1>d, <4>1 DEF Complete, ClientTypes
      <4> QED
        BY <4>2 DEF Unresolvable
    <3> QED
      BY <1>1, <3>1, <3>2
  <2> QED
    BY <1>1, <1>c, <1>e, <2>1 DEF IInv, LoopInv, RankInv, ResolutionIsExact, Refuse, Done
<1>2. CASE /\ byIndex # <<>> /\ \A i \in DOMAIN byIndex : Complete(i)
           /\ participants' = [p \in 1 .. Cardinality(DOMAIN byIndex) |->
                 LET index == CHOOSE i \in DOMAIN byIndex :
                                Cardinality({j \in DOMAIN byIndex : j <= i}) = p
                 IN [index |-> index, services |-> byIndex[index]]]
           /\ UNCHANGED <<byIndex, failed>>
  <2> DEFINE D == IndicesOf
             at(p) == CHOOSE i \in D : Cardinality(UpTo(D, i)) = p
  <2>1. ~Unresolvable
    <3>1. Members # {}
      BY <1>2, <1>b
    <3>2. \A i \in IndicesOf : MembersOf(i, "execution") # {} /\ MembersOf(i, "beacon") # {}
      BY <1>2, <1>b, <1>d DEF Complete, ClientTypes
    <3> QED
      BY <1>b, <3>1, <3>2 DEF Unresolvable
  <2>2. D \in SUBSET Nat /\ IsFiniteSet(D)
    BY <1>a, MembersHaveIndices
  <2>3. /\ Cardinality(D) \in Nat
        /\ \A i \in D : Cardinality(UpTo(D, i)) \in 1 .. Cardinality(D)
        /\ \A i, j \in D : i < j => Cardinality(UpTo(D, i)) < Cardinality(UpTo(D, j))
        /\ \A p \in 1 .. Cardinality(D) : \E i \in D : Cardinality(UpTo(D, i)) = p
    BY <2>2, Ranks
  <2>4. participants' = [p \in 1 .. Cardinality(D) |-> [index |-> at(p), services |-> byIndex[at(p)]]]
    BY <1>2, <1>b DEF UpTo
  <2>5. \A p \in 1 .. Cardinality(D) : at(p) \in D /\ Cardinality(UpTo(D, at(p))) = p
    BY <2>3
  <2>6. \A p, q \in 1 .. Cardinality(D) : p < q => at(p) < at(q)
    <3> SUFFICES ASSUME NEW p \in 1 .. Cardinality(D), NEW q \in 1 .. Cardinality(D), p < q
                 PROVE  at(p) < at(q)
      OBVIOUS
    <3> HIDE DEF at, D
    <3>1. at(p) \in Nat /\ at(q) \in Nat /\ at(p) \in D /\ at(q) \in D
      BY <2>2, <2>5
    <3>2. at(q) < at(p) => q < p
      BY <2>3, <2>5, <3>1
    <3>3. at(q) = at(p) => q = p
      BY <2>5
    <3>4. p \in Nat /\ q \in Nat
      BY <2>3
    <3> QED
      BY <3>1, <3>2, <3>3, <3>4
  <2>7. \A i \in D : at(Cardinality(UpTo(D, i))) = i
    <3> SUFFICES ASSUME NEW i \in D
                 PROVE  at(Cardinality(UpTo(D, i))) = i
      OBVIOUS
    <3> DEFINE j == at(Cardinality(UpTo(D, i)))
    <3>1. j \in D /\ Cardinality(UpTo(D, j)) = Cardinality(UpTo(D, i))
      BY <2>3, <2>5
    <3> HIDE DEF at, D
    <3>2. i \in Nat /\ j \in Nat
      BY <2>2, <3>1
    <3>4. Cardinality(UpTo(D, i)) \in Nat
      <4>1. Cardinality(UpTo(D, i)) \in 1 .. Cardinality(D)
        BY <2>3
      <4> QED
        BY <2>3, <4>1
    <3>3. ~(i < j) /\ ~(j < i)
      BY <2>3, <3>1, <3>4
    <3> QED
      BY <3>2, <3>3
  <2> HIDE DEF at
  <2>8. /\ DOMAIN participants' = 1 .. Cardinality(D)
        /\ \A p \in 1 .. Cardinality(D) : /\ participants'[p].index = at(p)
                                          /\ participants'[p].services = byIndex[at(p)]
    BY <2>4
  <2>9. {participants'[p].index : p \in DOMAIN participants'} = D
    <3>1. \A i \in D : \E p \in 1 .. Cardinality(D) : at(p) = i
      BY <2>3, <2>7
    <3> HIDE DEF D
    <3> QED
      BY <2>5, <2>8, <3>1
  <2>10. \A p, q \in DOMAIN participants' : p < q => participants'[p].index < participants'[q].index
    BY <2>6, <2>8
  <2>11. \A p \in DOMAIN participants', type \in ClientTypes :
           participants'[p].services[type] \in Either(MembersOf(participants'[p].index, type))
    BY <1>b, <2>5, <2>8
  <2>12. failed' = FALSE
    BY <1>2, <1>a DEF Done, TypeOK
  <2>13. Done'
    <3>1. D # {}
      BY <1>2, <1>b DEF IndicesOf
    <3>2. 1 \in DOMAIN participants'
      <4>1. Cardinality(D) # 0
        BY <2>2, <3>1, FS_EmptySet
      <4> QED
        BY <2>3, <2>8, <4>1
    <3> QED
      BY <3>2 DEF Done
  <2> HIDE DEF D
  <2>14. ResolutionIsExact'
    BY <1>c, <2>1, <2>9, <2>10, <2>11, <2>12 DEF ResolutionIsExact, Either, D
  <2>15. RankInv'
    <3>1. IndicesOf' = D
      BY <1>c DEF D
    <3>2. participants' = [p \in 1 .. Cardinality(D) |-> participants'[p]]
      BY <2>4
    <3>3. \A p \in DOMAIN participants' :
            /\ participants'[p].index \in D
            /\ Cardinality(UpTo(D, participants'[p].index)) = p
      BY <2>5, <2>8
    <3> QED
      BY <3>1, <3>2, <3>3 DEF RankInv, UpTo
  <2> QED
    BY <1>e, <2>13, <2>14, <2>15 DEF IInv, LoopInv
<1> QED
  BY <1>1, <1>2 DEF Collect

LEMMA IInvStep == IInv /\ [Next]_vars => IInv'
<1>1. ASSUME IInv, UNCHANGED vars
      PROVE  IInv'
  <2>1. UNCHANGED <<services, left, byIndex, participants, failed>>
    BY <1>1 DEF vars
  <2>2. /\ Listed' = Listed /\ Members' = Members /\ IndicesOf' = IndicesOf
        /\ Unresolvable' = Unresolvable
        /\ \A n : ParticipantIndex(n)' = ParticipantIndex(n) /\ EndpointMissing(n)' = EndpointMissing(n)
        /\ \A i, type : MembersOf(i, type)' = MembersOf(i, type)
    BY <2>1, ServicesStay
  <2>3. TypeOK' /\ Done' = Done
    BY <1>1, <2>1, <2>2 DEF IInv, TypeOK, Done
  <2>4. LoopInv'
    BY <1>1, <2>1, <2>2, <2>3 DEF IInv, LoopInv, Found, FoundOf, Either
  <2>5. ResolutionIsExact'
    BY <1>1, <2>1, <2>2, <2>3 DEF IInv, ResolutionIsExact
  <2>6. RankInv'
    BY <1>1, <2>1, <2>2, <2>3 DEF IInv, RankInv, UpTo
  <2> QED
    BY <2>3, <2>4, <2>5, <2>6 DEF IInv
<1> QED
  BY <1>1, VisitStep, CollectStep DEF Next

LEMMA IInvInit == Init => IInv
<1> SUFFICES ASSUME Init
             PROVE  IInv
  OBVIOUS
<1>1. Rendered \in [Names -> ServiceChoices]
  <2>1. ASSUME NEW n \in Names, n[2] \in 1 .. Len(counts)
        PROVE  [label |-> n[2], public |-> TRUE] \in Service
    <3>1. n[2] # Bad
      BY <2>1 DEF Bad
    <3>2. n[2] \in 1 .. Positions
      BY <2>1, <3>1 DEF Names
    <3> QED
      BY <3>2 DEF Service
  <2>2. [label |-> None, public |-> FALSE] \in Service
    BY DEF Service
  <2> QED
    BY <2>1, <2>2 DEF Rendered, ServiceChoices
<1>2. PICK change :
        /\ \E names \in SUBSET Names : change \in [names -> ServiceChoices]
        /\ services = [n \in Names |-> IF n \in DOMAIN change THEN change[n] ELSE Rendered[n]]
  BY DEF Init, kSubset
<1>3. services \in [Names -> ServiceChoices]
  BY <1>1, <1>2
<1>4. left = Listed /\ byIndex = <<>> /\ participants = <<>> /\ failed = FALSE
  BY DEF Init
<1>5. TypeOK /\ ~Done
  BY <1>3, <1>4 DEF TypeOK, Done
<1>6. Found = {}
  BY <1>4 DEF Found, Members
<1> QED
  BY <1>4, <1>5, <1>6 DEF IInv, LoopInv, RankInv, ResolutionIsExact

-----------------------------------------------------------------------------
(***************************************************************************)
(* The validators of genesis, in the shares of the participants.           *)
(***************************************************************************)
LEMMA AssignedSums ==
  ASSUME ProfileInv
  PROVE  SumsOf(counts, Assigned, Len(counts)) /\ \A p \in 1 .. Len(counts) : counts[p] \in Nat
<1>1. Len(counts) \in Nat /\ \A p \in 1 .. Len(counts) : counts[p] \in Nat
  BY EnvironmentAssumption DEF ProfileInv
<1>2. \E sums : SumsOf(counts, sums, Len(counts))
  BY <1>1, SumsExist
<1>3. SumsOf(counts, Assigned, Len(counts))
  BY <1>2 DEF Assigned, SumsOf
<1> QED
  BY <1>1, <1>3

\* A participant runs a validator that those before it do not reach.
LEMMA ShareOf ==
  ASSUME ProfileInv, NEW p \in 1 .. Len(counts), NEW index \in Nat
  PROVE  index \in ParticipantValidators(p - 1) <=> Assigned[p - 1] <= index /\ index < Assigned[p]
<1>1. SumsOf(counts, Assigned, Len(counts)) /\ Len(counts) \in Nat /\ counts[p] \in Nat
  BY AssignedSums DEF ProfileInv
<1>2. Assigned[p - 1] \in Nat /\ Assigned[p] \in Nat
  BY <1>1, AssignedSums, SumsAreNumbers
<1>3. Assigned[p] = Assigned[p - 1] + counts[p]
  BY <1>1 DEF SumsOf
<1>4. ParticipantValidators(p - 1) = {Assigned[p - 1] + offset : offset \in 0 .. counts[p] - 1}
  <2>1. p - 1 \in 0 .. Len(counts) - 1 /\ (p - 1) + 1 = p
    BY <1>1
  <2> QED
    BY <2>1 DEF ParticipantValidators
<1>5. ASSUME Assigned[p - 1] <= index, index < Assigned[p]
      PROVE  index \in ParticipantValidators(p - 1)
  <2>1. index - Assigned[p - 1] \in 0 .. counts[p] - 1
        /\ index = Assigned[p - 1] + (index - Assigned[p - 1])
    BY <1>1, <1>2, <1>3, <1>5
  <2> QED
    BY <1>4, <2>1
<1>6. ASSUME index \in ParticipantValidators(p - 1)
      PROVE  Assigned[p - 1] <= index /\ index < Assigned[p]
  <2>1. PICK offset \in 0 .. counts[p] - 1 : index = Assigned[p - 1] + offset
    BY <1>4, <1>6
  <2> QED
    BY <1>1, <1>2, <1>3, <2>1
<1> QED
  BY <1>5, <1>6

\* The larger of two numbers.
LEMMA LargerNumber ==
  ASSUME NEW a \in Nat, NEW b \in Nat
  PROVE  Max({a, b}) = IF a < b THEN b ELSE a
<1>1. \A x \in {a, b} : x = Max({a, b}) <=> \A y \in {a, b} : x >= y
  <2>1. \E x \in {a, b} : \A y \in {a, b} : x >= y
    OBVIOUS
  <2>2. Max({a, b}) \in {a, b} /\ \A y \in {a, b} : Max({a, b}) >= y
    BY <2>1 DEF Max
  <2> QED
    BY <2>2
<1> QED
  BY <1>1

LEMMA EveryValidatorOnce ==
  ASSUME ProfileInv, NEW index \in Nat
  PROVE  Cardinality({p \in 1 .. Len(counts) : index \in ParticipantValidators(p - 1)})
           + (IF index \in SpareValidators THEN 1 ELSE 0)
         = IF index < Max({registered, Total}) THEN 1 ELSE 0
<1> DEFINE owners == {p \in 1 .. Len(counts) : index \in ParticipantValidators(p - 1)}
<1>1. /\ SumsOf(counts, Assigned, Len(counts)) /\ Len(counts) \in Nat
      /\ \A p \in 1 .. Len(counts) : counts[p] \in Nat
  BY AssignedSums DEF ProfileInv
<1>2. owners = {p \in 1 .. Len(counts) : Assigned[p - 1] <= index /\ index < Assigned[p]}
  BY ShareOf
<1>3. IF index < Total THEN \E p \in 1 .. Len(counts) : owners = {p} ELSE owners = {}
  BY <1>1, <1>2, OneShare DEF Total
<1> HIDE DEF owners
<1>4. Cardinality(owners) = IF index < Total THEN 1 ELSE 0
  BY <1>3, FS_Singleton, FS_EmptySet
<1>5. Total \in Nat /\ registered \in Nat
  <2>1. Total \in Nat
    BY <1>1, SumsAreNumbers DEF Total
  <2>2. MaxCount \in Nat
    BY EnvironmentAssumption
  <2> QED
    BY <2>1, <2>2 DEF ProfileInv, Registered
<1>6. Max({registered, Total}) = IF registered < Total THEN Total ELSE registered
  BY <1>5, LargerNumber
<1>7. index \in SpareValidators <=> Total <= index /\ index < registered
  BY <1>5 DEF SpareValidators
<1> HIDE DEF SpareValidators
<1>8. Cardinality(owners) + (IF index \in SpareValidators THEN 1 ELSE 0)
      = IF index < Max({registered, Total}) THEN 1 ELSE 0
  BY <1>4, <1>5, <1>6, <1>7
<1> QED
  BY <1>8 DEF owners

(***************************************************************************)
(* The services as the profile rendered them.                              *)
(***************************************************************************)
LEMMA RenderedMembers ==
  ASSUME TypeOK, ProfileInv, Changed = {}
  PROVE  /\ ~Unresolvable /\ IndicesOf = 1 .. Len(counts)
         /\ \A p \in 1 .. Len(counts) : MembersOf(p, "validator") = {<<"validator", p>>}
<1>0. Positions \in Nat /\ Len(counts) \in 1 .. Positions /\ 1 .. Len(counts) \subseteq 1 .. Positions
  BY EnvironmentAssumption DEF ProfileInv
<1>1. \A n \in Names : services[n] = Rendered[n]
  BY DEF Changed
<1>2. ASSUME NEW n \in Names
      PROVE  /\ n[2] \in 1 .. Len(counts) => n[1] \in ClientTypes
             /\ n \in Members <=> n[2] \in 1 .. Len(counts)
             /\ n[2] \in 1 .. Len(counts) => ParticipantIndex(n) = n[2] /\ ~EndpointMissing(n)
  <2>1. CASE n[2] \in 1 .. Len(counts)
    <3>1. n[2] # Bad
      BY <2>1 DEF Bad
    <3>2. n[1] \in ClientTypes /\ n[2] \in 1 .. Positions
      BY <3>1 DEF Names
    <3>3. services[n] = [label |-> n[2], public |-> TRUE]
      BY <1>1, <2>1 DEF Rendered
    <3>4. n[2] # None /\ services[n] # None
      <4>1. [label |-> n[2], public |-> TRUE] \in Service
        BY <3>2 DEF Service
      <4>2. n[2] \in Bad .. Positions
        BY <3>2 DEF Bad
      <4> QED
        BY <3>3, <4>1, <4>2, NoneAssumption
    <3>5. n \in Members
      BY <3>2, <3>4 DEF Members, Listed
    <3>6. ParticipantIndex(n) = n[2] /\ ~EndpointMissing(n)
      BY <3>3, <3>4 DEF ParticipantIndex, EndpointMissing, HasEndpoint
    <3> QED
      BY <2>1, <3>2, <3>5, <3>6
  <2>2. CASE n[2] \notin 1 .. Len(counts)
    <3>1. n[1] # "other" => services[n] = None
      BY <1>1, <2>2 DEF Rendered
    <3>2. n[1] = "other" => n[1] \notin ClientTypes
      BY DEF ClientTypes
    <3>3. n \notin Members
      BY <3>1, <3>2 DEF Members, Listed
    <3> QED
      BY <2>2, <3>3
  <2> QED
    BY <2>1, <2>2
<1>3. \A n \in Members : n \in Names
  BY DEF Members, Listed
<1>4. ASSUME NEW p \in 1 .. Len(counts), NEW type \in ClientTypes
      PROVE  MembersOf(p, type) = {<<type, p>>}
  <2>1. <<type, p>> \in Names /\ <<type, p>>[2] = p /\ <<type, p>>[1] = type
    BY <1>0 DEF Names
  <2>2. <<type, p>> \in MembersOf(p, type)
    BY <1>2, <2>1 DEF MembersOf
  <2>3. ASSUME NEW n \in MembersOf(p, type)
        PROVE  n = <<type, p>>
    <3>1. n \in Members /\ ParticipantIndex(n) = p /\ n[1] = type /\ n \in Names
      BY <1>3 DEF MembersOf
    <3>2. n[2] = p
      BY <1>2, <3>1
    <3>3. n = <<n[1], n[2]>>
      BY <3>1 DEF Names
    <3> QED
      BY <3>1, <3>2, <3>3
  <2> QED
    BY <2>2, <2>3
<1>5. IndicesOf = 1 .. Len(counts)
  <2>1. \A n \in Members : ParticipantIndex(n) \in 1 .. Len(counts)
    BY <1>2, <1>3
  <2>2. ASSUME NEW p \in 1 .. Len(counts)
        PROVE  p \in IndicesOf
    <3>1. <<"beacon", p>> \in MembersOf(p, "beacon")
      BY <1>4 DEF ClientTypes
    <3> QED
      BY <3>1 DEF MembersOf, IndicesOf
  <2> QED
    BY <2>1, <2>2 DEF IndicesOf
<1>6. ~Unresolvable
  <2>1. Members # {}
    <3>1. 1 \in IndicesOf
      BY <1>0, <1>5
    <3> QED
      BY <3>1 DEF IndicesOf
  <2>2. \A n \in Members : ParticipantIndex(n) # Bad /\ ~EndpointMissing(n)
    BY <1>2, <1>3 DEF Bad
  <2>3. \A i \in IndicesOf, type \in {"execution", "beacon"} : MembersOf(i, type) # {}
    BY <1>4, <1>5 DEF ClientTypes
  <2> QED
    BY <2>1, <2>2, <2>3 DEF Unresolvable
<1> QED
  BY <1>4, <1>5, <1>6 DEF ClientTypes

LEMMA MatchesProfile ==
  ASSUME TypeOK, ProfileInv, RankInv, ResolutionIsExact
  PROVE  EnvironmentMatchesProfile
<1> SUFFICES ASSUME Done, Changed = {}
             PROVE  /\ Len(participants) = Len(counts)
                    /\ \A p \in DOMAIN participants :
                         participants[p].services["validator"] = <<"validator", p>>
                    /\ \A index \in 0 .. Total + MaxCount :
                         Cardinality({p \in DOMAIN participants : index \in ParticipantValidators(p - 1)})
                           + (IF index \in SpareValidators THEN 1 ELSE 0)
                         = IF index < Max({registered, Total}) THEN 1 ELSE 0
  BY DEF EnvironmentMatchesProfile
<1> DEFINE n == Len(counts)
<1>1. n \in Nat
  BY DEF ProfileInv
<1>2. /\ ~Unresolvable /\ IndicesOf = 1 .. n
      /\ \A p \in 1 .. n : MembersOf(p, "validator") = {<<"validator", p>>}
  BY RenderedMembers
<1>3. ~failed
  BY <1>2 DEF ResolutionIsExact
<1> HIDE DEF n
<1>4. IsFiniteSet(1 .. n) /\ Cardinality(1 .. n) = n
  BY <1>1, FS_Interval
<1>5. participants = [p \in 1 .. n |-> participants[p]]
  BY <1>2, <1>3, <1>4 DEF RankInv
<1>6. DOMAIN participants = 1 .. n
  BY <1>5
<1>7. Len(participants) = n
  <2>1. participants \in [1 .. n -> {participants[p] : p \in 1 .. n}]
    BY <1>5
  <2>2. participants \in Seq({participants[p] : p \in 1 .. n})
    BY <1>1, <2>1
  <2> QED
    BY <1>1, <1>6, <2>2
<1>8. ASSUME NEW p \in 1 .. n
      PROVE  participants[p].index = p
  <2> DEFINE index == participants[p].index
  <2>1. index \in 1 .. n /\ Cardinality(UpTo(1 .. n, index)) = p
    BY <1>2, <1>3, <1>6 DEF RankInv
  <2> HIDE DEF index
  <2>2. UpTo(1 .. n, index) = 1 .. index
    BY <1>1, <2>1 DEF UpTo
  <2>3. Cardinality(1 .. index) = index
    BY <1>1, <2>1, FS_Interval
  <2> QED
    BY <2>1, <2>2, <2>3 DEF index
<1>9. ASSUME NEW p \in 1 .. n
      PROVE  participants[p].services["validator"] = <<"validator", p>>
  <2>1. LET own == MembersOf(participants[p].index, "validator")
        IN  participants[p].services["validator"] \in IF own = {} THEN {None} ELSE own
    BY <1>3, <1>6 DEF ResolutionIsExact, ClientTypes
  <2>2. MembersOf(participants[p].index, "validator") = {<<"validator", p>>}
    BY <1>2, <1>8
  <2> QED
    BY <2>1, <2>2
<1>10. ASSUME NEW index \in 0 .. Total + MaxCount
       PROVE  Cardinality({p \in 1 .. n : index \in ParticipantValidators(p - 1)})
                + (IF index \in SpareValidators THEN 1 ELSE 0)
              = IF index < Max({registered, Total}) THEN 1 ELSE 0
  <2>1. index \in Nat
    OBVIOUS
  <2> QED
    BY <2>1, EveryValidatorOnce, Zenon DEF n
<1> QED
  BY <1>6, <1>7, <1>9, <1>10 DEF n

LEMMA ProfileStays == ProfileInv /\ [Next]_vars => ProfileInv'
<1> SUFFICES ASSUME ProfileInv, [Next]_vars
             PROVE  ProfileInv'
  OBVIOUS
<1>1. UNCHANGED <<counts, registered>>
  BY DEF Next, Visit, Collect, vars, profile
<1>2. Assigned' = Assigned
  BY <1>1 DEF Assigned
<1>3. Registered' = Registered
  BY <1>1, <1>2 DEF Registered, Total
<1> QED
  BY <1>1, <1>3 DEF ProfileInv

LEMMA ProfileInit == Init => ProfileInv
<1> SUFFICES ASSUME Init
             PROVE  ProfileInv
  OBVIOUS
<1>1. PICK n \in 1 .. Positions : counts \in [1 .. n -> 1 .. MaxCount]
  BY DEF Init
<1>2. n \in Nat /\ counts \in Seq(1 .. MaxCount)
  BY <1>1, EnvironmentAssumption
<1>3. Len(counts) = n
  BY <1>1, <1>2
<1> QED
  BY <1>1, <1>3 DEF ProfileInv, Init

-----------------------------------------------------------------------------
(***************************************************************************)
(* The steps of a lane.                                                    *)
(***************************************************************************)
LEMMA AttachStep == [AttachNext]_<<vars, attach>> => [Next]_vars
BY DEF AttachNext, World, Inspect, ResolveEnvironment, CheckReady, FirstBlock, AwaitAdvance,
       ReadBalance, ResolvePrimaryImage, ResolveToolsImage, NotNeeded

(***************************************************************************)
(* A lane that attaches sees one environment: whatever happens to the      *)
(* network, the participants are gathered as the environment's own         *)
(* specification says and are not looked at again (environment.go).        *)
(***************************************************************************)
THEOREM OneEnvironment == AttachSpec => Spec
<1>1. AttachInit => Init
  BY DEF AttachInit
<1> QED
  BY <1>1, AttachStep, PTL DEF AttachSpec, Spec

(***************************************************************************)
(* The environment resolves into its participants, each with services of   *)
(* its own, or not at all, in every order of the map (environment.go), for *)
(* every number of participants and any changed services.                  *)
(***************************************************************************)
THEOREM ResolutionsAreExact == AttachSpec => []ResolutionIsExact
<1>1. IInv => ResolutionIsExact
  BY DEF IInv
<1>2. Spec => []ResolutionIsExact
  BY <1>1, IInvInit, IInvStep, PTL DEF Spec
<1> QED
  BY <1>2, OneEnvironment, PTL

(***************************************************************************)
(* The participant at a position of the environment runs the validators    *)
(* the profile gives for that position (environment.go, profiles.go), and  *)
(* every validator of genesis has one participant or is a spare, for any   *)
(* number of participants and any validator counts.                        *)
(***************************************************************************)
THEOREM PositionsMatch == AttachSpec => []EnvironmentMatchesProfile
<1>1. Spec => []IInv
  BY IInvInit, IInvStep, PTL DEF Spec
<1>2. Spec => []ProfileInv
  BY ProfileInit, ProfileStays, PTL DEF Spec
<1>3. IInv /\ ProfileInv => EnvironmentMatchesProfile
  BY MatchesProfile DEF IInv
<1> QED
  BY <1>1, <1>2, <1>3, OneEnvironment, PTL

(***************************************************************************)
(* The images are resolved after the environment, and are an image of the  *)
(* primary that was found: nothing resolves an image before there is one.  *)
(***************************************************************************)
AttachInv ==
  /\ resolved = [role \in Roles |-> resolved[role]]
  /\ stage \in {"inspect", "resolve"} => \A role \in Roles : resolved[role] = None
  /\ ImagesAreTheNetworks

\* The Docker host a user's settings name, when it can be found.
LEMMA EndpointIsNamed ==
  ASSUME NEW settings \in Settings, Endpoint(settings) # None
  PROVE  Endpoint(settings) =
           IF settings.host # None THEN settings.host
           ELSE IF settings.context # None /\ settings.context # "default" THEN settings.context
           ELSE IF settings.context = None /\ settings.config = "named" THEN "named"
           ELSE "local"
<1>1. /\ settings.host \in {None, "remote", "malformed"}
      /\ settings.context \in {None, "default", "named"}
      /\ settings.config \in {"missing", "broken", None, "default", "named"}
  BY DEF Settings
<1>2. None \notin {"remote", "malformed", "default", "named", "local"}
  BY AttachAssumption
<1>3. CASE settings.host # None
  BY <1>1, <1>2, <1>3 DEF Endpoint, CurrentContext, DefaultEndpoint
<1>4. CASE settings.host = None /\ settings.context # None
  BY <1>1, <1>2, <1>4 DEF Endpoint, CurrentContext, DefaultEndpoint
<1>5. CASE settings.host = None /\ settings.context = None
  BY <1>1, <1>2, <1>5 DEF Endpoint, CurrentContext, ConfiguredContext, DefaultEndpoint
<1> QED
  BY <1>3, <1>4, <1>5

LEMMA AttachInvStep == AttachInv /\ [AttachNext]_<<vars, attach>> => AttachInv'
<1> SUFFICES ASSUME AttachInv, [AttachNext]_<<vars, attach>>
             PROVE  AttachInv'
  OBVIOUS
\* A step that resolves no image and gathers nothing.
<1>a. ASSUME UNCHANGED <<resolved, asked>>,
             participants' = participants \/ stage \in {"inspect", "resolve"},
             stage' \in {"inspect", "resolve"} => stage \in {"inspect", "resolve"}
      PROVE  AttachInv'
  <2>1. CASE participants' = participants
    BY <1>a, <2>1 DEF AttachInv, ImagesAreTheNetworks, Primary
  <2>2. CASE stage \in {"inspect", "resolve"}
    BY <1>a, <2>2 DEF AttachInv, ImagesAreTheNetworks, Roles
  <2> QED
    BY <1>a, <2>1, <2>2
<1>1. CASE UNCHANGED <<vars, attach>>
  BY <1>1, <1>a DEF vars, attach
<1>2. CASE World
  <2>1. UNCHANGED <<stage, resolved, asked, participants>>
    BY <1>2 DEF World, Happens, Grow, vars
  <2> QED
    BY <1>a, <2>1
<1>3. CASE Inspect \/ CheckReady \/ FirstBlock \/ AwaitAdvance \/ ReadBalance
  <2>1. UNCHANGED <<resolved, asked, participants>>
    BY <1>3 DEF Inspect, CheckReady, FirstBlock, AwaitAdvance, ReadBalance, Fail, vars
  <2>2. stage \in {"inspect", "resolve"} \/ stage' \notin {"inspect", "resolve"}
    BY <1>3 DEF Inspect, CheckReady, FirstBlock, AwaitAdvance, ReadBalance, Fail, Goto
  <2> QED
    BY <1>a, <2>1, <2>2
<1>4. CASE ResolveEnvironment
  <2>1. stage = "resolve" /\ UNCHANGED <<stage, resolved, asked>>
    BY <1>4 DEF ResolveEnvironment, attach
  <2> QED
    BY <1>a, <2>1
<1>5. ASSUME NEW role \in Roles, NotNeeded(role)
      PROVE  AttachInv'
  <2>1. UNCHANGED <<resolved, asked, participants>> /\ stage' = After(role)
    BY <1>5 DEF NotNeeded, Goto, vars
  <2>2. After(role) \notin {"inspect", "resolve"}
    BY DEF After, Roles, ClientTypes
  <2> QED
    BY <1>a, <2>1, <2>2
<1>6. ASSUME NEW type \in ClientTypes, ResolvePrimaryImage(type)
      PROVE  AttachInv'
  <2>1. CASE Fail
    BY <1>6, <1>a, <2>1 DEF ResolvePrimaryImage, Fail, Goto, vars
  <2>2. CASE ~Fail
    <3>1. PICK container \in ContainersOf(ServiceUUID(Primary.services[type], 1)) :
            Resolved(type, ImageOf(container))
      BY <1>6, <2>2 DEF ResolvePrimaryImage
    <3>2. container = ServiceUUID(Primary.services[type], 1)
      BY <3>1 DEF ContainersOf
    <3>3. /\ resolved' = [resolved EXCEPT ![type] = ImageOf(ServiceUUID(Primary.services[type], 1))]
          /\ stage' = After(type)
      BY <3>1, <3>2 DEF Resolved, Goto
    <3>4. UNCHANGED <<asked, participants>>
      BY <1>6, <2>2 DEF ResolvePrimaryImage, vars
    <3>5. After(type) \notin {"inspect", "resolve"} /\ type \in Roles /\ type # "tools"
      BY DEF After, Roles, ClientTypes
    <3> QED
      BY <3>3, <3>4, <3>5 DEF AttachInv, ImagesAreTheNetworks, Primary, Roles
  <2> QED
    BY <2>1, <2>2
<1>7. CASE ResolveToolsImage
  <2>1. CASE Fail
    BY <1>7, <1>a, <2>1 DEF ResolveToolsImage, Fail, Goto, vars
  <2>2. CASE ~Fail
    <3>1. PICK settings \in Settings :
            /\ Endpoint(settings) # None /\ asked' = settings
            /\ Resolved("tools", [docker |-> Endpoint(settings), build |-> version])
      BY <1>7, <2>2 DEF ResolveToolsImage
    <3>2. /\ resolved' = [resolved EXCEPT !["tools"] = [docker |-> Endpoint(settings), build |-> version]]
          /\ stage' = "done"
      BY <3>1 DEF Resolved, Goto, After
    <3>3. UNCHANGED participants
      BY <1>7 DEF ResolveToolsImage, vars
    <3>4. /\ resolved' = [role \in Roles |-> resolved'[role]]
          /\ resolved'["tools"].docker = Endpoint(settings)
          /\ \A type \in ClientTypes : resolved'[type] = resolved[type]
      BY <3>2 DEF AttachInv, Roles, ClientTypes
    <3>5. resolved'["tools"].docker =
            IF asked'.host # None THEN asked'.host
            ELSE IF asked'.context # None /\ asked'.context # "default" THEN asked'.context
            ELSE IF asked'.context = None /\ asked'.config = "named" THEN "named"
            ELSE "local"
      BY <3>1, <3>4, EndpointIsNamed
    <3> QED
      BY <3>2, <3>3, <3>4, <3>5 DEF AttachInv, ImagesAreTheNetworks, Primary
  <2> QED
    BY <2>1, <2>2
<1> QED
  BY <1>1, <1>2, <1>3, <1>4, <1>5, <1>6, <1>7 DEF AttachNext

(***************************************************************************)
(* The sidecars run the images of the network that was inspected, and a    *)
(* tool comes from the Docker host its user named (resolvePrimaryImages,   *)
(* internal/dockerapi), whatever happens to the network and the host.      *)
(***************************************************************************)
THEOREM ImagesAreRight == AttachSpec => []ImagesAreTheNetworks
<1>1. AttachInit => AttachInv
  BY DEF AttachInit, AttachInv, ImagesAreTheNetworks, Roles
<1>2. AttachInv => ImagesAreTheNetworks
  BY DEF AttachInv
<1> QED
  BY <1>1, <1>2, AttachInvStep, PTL DEF AttachSpec
=============================================================================
