-------------------------- MODULE DiagnosticsProofs --------------------------
(***************************************************************************)
(* The capture of a failed network, for any number of services, any number *)
(* of lines, and any calls that fail.  That a captured log is complete is  *)
(* proved for services of different names, and only for them: services     *)
(* that share a name share a file (the run Diagnostics_samename).          *)
(***************************************************************************)
EXTENDS Diagnostics, Integers, FiniteSetTheorems, TLAPS

Entries == [service : Uuids, captured : BOOLEAN]

TypeOK ==
  /\ known \in SUBSET Uuids /\ current \in SUBSET known
  /\ retained \in [Uuids -> Nat]
  /\ pc \in Steps
  /\ discovered \in SUBSET Uuids
  /\ sent \in [Uuids -> Nat] /\ missing \in SUBSET Uuids /\ streamErr \in BOOLEAN
  /\ outputErr \in SUBSET Uuids /\ opened \in SUBSET Uuids
  /\ written \in [Uuids -> Nat] /\ flushed \in [Uuids -> Nat]
  /\ DOMAIN file = Names
  /\ entries \in Seq(Entries)
  /\ manifest \in BOOLEAN

(***************************************************************************)
(* The lines of a service: those that arrived are in its writer or, up to  *)
(* an error of its own, nowhere; those that left the writer are in a file. *)
(* Once the stream has ended cleanly, all have arrived or none will.       *)
(***************************************************************************)
BeforeDiscovery == {"connect", "mkdir", "inspect"}
BeforeLines == BeforeDiscovery \cup {"save", "open", "request"}
AfterLines == {"finalize", "manifest", "returned"}

LinesInv ==
  \A u \in Uuids :
    /\ flushed[u] <= written[u] /\ written[u] <= sent[u] /\ sent[u] <= retained[u]
    /\ u \in discovered \ outputErr => written[u] = sent[u]
    /\ pc \in BeforeLines => sent[u] = 0
    /\ pc = "finalize" /\ ~streamErr /\ u \in discovered => sent[u] = retained[u] \/ u \in missing

(***************************************************************************)
(* The entries of the manifest and the open files.                         *)
(***************************************************************************)
EntriesInv ==
  /\ pc \in BeforeDiscovery => discovered = {}
  /\ pc \in BeforeDiscovery \cup {"save", "open"} => opened = {}
  /\ pc \notin AfterLines => entries = <<>>
  /\ Listed \subseteq discovered /\ opened \subseteq discovered \ Listed
  /\ pc \in {"manifest", "returned"} /\ "services" \notin errs => Listed = discovered
  /\ \A i \in DOMAIN entries :
       LET u == entries[i].service IN
       /\ entries[i].captured => flushed[u] = retained[u]
       /\ ~streamErr /\ u \notin missing \cup outputErr => entries[i].captured

(***************************************************************************)
(* What the absence of an error says.                                      *)
(***************************************************************************)
SilenceInv ==
  /\ streamErr => errs # {}
  /\ errs = {} =>
       /\ pc \notin BeforeDiscovery => discovered = known
       /\ \A i \in DOMAIN entries : entries[i].captured
       /\ pc = "returned" => manifest

IInv == TypeOK /\ LinesInv /\ EntriesInv /\ SilenceInv

\* Services of different names, each with a file of its own.
OwnNames == \A u, v \in Uuids : NameOf[u] = NameOf[v] => u = v

FileInv == \A u \in Uuids : file[NameOf[u]] = Log(u, flushed[u])
-----------------------------------------------------------------------------
(***************************************************************************)
(* The larger one of two numbers.                                          *)
(***************************************************************************)
LEMMA LargerOfTwo ==
  ASSUME NEW a \in Nat, NEW b \in Nat, a <= b
  PROVE  Max({a, b}) = b
<1>1. b \in {a, b} /\ \A y \in {a, b} : b >= y
  OBVIOUS
<1>2. \A x \in {a, b} : (\A y \in {a, b} : x >= y) => x = b
  OBVIOUS
<1> QED
  BY <1>1, <1>2 DEF Max

(***************************************************************************)
(* The writer of a service whose file holds what it has flushed appends    *)
(* the rest: the file holds the lines up to the last one written.          *)
(***************************************************************************)
LEMMA FlushAppends ==
  ASSUME NEW u \in Uuids, NEW lines \in Nat, NEW have \in Nat, have <= lines, flushed[u] = have,
         DOMAIN file = Names, file[NameOf[u]] = Log(u, have), Flush(u, lines)
  PROVE  /\ file'[NameOf[u]] = Log(u, lines)
         /\ DOMAIN file' = Names
         /\ \A v \in Uuids : NameOf[v] # NameOf[u] => file'[NameOf[v]] = file[NameOf[v]]
<1> DEFINE old == file[NameOf[u]]
           new == Log(u, lines)
           end == Max({Len(old), lines})
           appended == [i \in 1 .. end |-> IF i \in flushed[u] + 1 .. lines THEN new[i] ELSE old[i]]
<1>1. NameOf[u] \in Names /\ \A v \in Uuids : NameOf[v] \in Names
  BY DiagnosticsAssumption DEF Names, Range
<1>2. Len(old) = have
  BY DEF Log
<1>3. end = lines
  BY <1>2, LargerOfTwo
<1>4. appended = Log(u, lines)
  BY <1>3 DEF Log
<1>5. file' = [file EXCEPT ![NameOf[u]] = appended]
  BY DEF Flush
<1> QED
  BY <1>1, <1>4, <1>5

(***************************************************************************)
(* The steps that neither take a line nor add an entry.                    *)
(***************************************************************************)
Setup == Connect \/ MakeDirectory \/ Inspect \/ SaveInspection \/ OpenLogs \/ RequestLogs
Ending == EndOfStream \/ BreakStream \/ WriteManifest

LEMMA TypeStep ==
  ASSUME TypeOK, [Next]_vars
  PROVE  TypeOK'
<1> USE DEF TypeOK, Goto, Fail, Steps, engine, answers, outputs
<1>1. CASE Setup
  <2>1. CASE Connect \/ MakeDirectory
    BY <2>1 DEF Connect, MakeDirectory, Prepare
  <2>2. CASE Inspect
    BY <2>2 DEF Inspect, Merge
  <2>3. CASE SaveInspection \/ OpenLogs \/ RequestLogs
    BY <2>3 DEF SaveInspection, OpenLogs, RequestLogs
  <2> QED
    BY <1>1, <2>1, <2>2, <2>3 DEF Setup
<1>2. CASE Ending
  BY <1>2 DEF Ending, EndOfStream, BreakStream, WriteManifest
<1>3. ASSUME NEW u \in Uuids, ReportMissing(u)
      PROVE  TypeOK'
  BY <1>3 DEF ReportMissing
<1>4. ASSUME NEW u \in Uuids, DeliverLine(u)
      PROVE  TypeOK'
  <2>1. DOMAIN file' = Names
    BY <1>4 DEF DeliverLine, Buffer, Flush
  <2> QED
    BY <1>4, <2>1 DEF DeliverLine, Buffer
<1>5. ASSUME NEW u \in Uuids, Finalize(u)
      PROVE  TypeOK'
  <2>1. Captured(u) \in BOOLEAN
    BY DEF Captured
  <2>2. entries' \in Seq(Entries)
    BY <1>5, <2>1 DEF Finalize, Entries
  <2> QED
    BY <1>5, <2>2 DEF Finalize, Flush
<1>6. CASE UNCHANGED vars
  BY <1>6 DEF vars
<1> QED
  BY <1>1, <1>2, <1>3, <1>4, <1>5, <1>6 DEF Next, Setup, Ending

LEMMA LinesStep ==
  ASSUME TypeOK, LinesInv, EntriesInv, [Next]_vars
  PROVE  LinesInv'
<1> USE DEF TypeOK, LinesInv, Goto, BeforeLines, BeforeDiscovery, Steps, engine, answers, outputs
<1>1. CASE Setup
  <2>1. CASE Connect \/ MakeDirectory
    BY <2>1 DEF Connect, MakeDirectory, Prepare
  <2>2. CASE Inspect
    BY <2>2 DEF Inspect
  <2>3. CASE SaveInspection \/ OpenLogs \/ RequestLogs
    BY <2>3 DEF SaveInspection, OpenLogs, RequestLogs, EntriesInv
  <2> QED
    BY <1>1, <2>1, <2>2, <2>3 DEF Setup
<1>2. CASE Ending
  BY <1>2 DEF Ending, EndOfStream, BreakStream, WriteManifest
<1>3. ASSUME NEW u \in Uuids, ReportMissing(u)
      PROVE  LinesInv'
  BY <1>3 DEF ReportMissing
<1>4. ASSUME NEW u \in Uuids, DeliverLine(u)
      PROVE  LinesInv'
  BY <1>4 DEF DeliverLine, Buffer
<1>5. ASSUME NEW u \in Uuids, Finalize(u)
      PROVE  LinesInv'
  BY <1>5 DEF Finalize
<1>6. CASE UNCHANGED vars
  BY <1>6 DEF vars
<1> QED
  BY <1>1, <1>2, <1>3, <1>4, <1>5, <1>6 DEF Next, Setup, Ending

LEMMA EntriesStep ==
  ASSUME TypeOK, LinesInv, EntriesInv, [Next]_vars
  PROVE  EntriesInv'
<1> USE DEF TypeOK, EntriesInv, Listed, Goto, Fail, AfterLines, BeforeDiscovery, Steps,
            engine, answers, outputs
<1>1. CASE Setup
  <2>1. CASE Connect \/ MakeDirectory
    BY <2>1 DEF Connect, MakeDirectory, Prepare
  <2>2. CASE Inspect
    BY <2>2 DEF Inspect
  <2>3. CASE SaveInspection \/ OpenLogs \/ RequestLogs
    BY <2>3 DEF SaveInspection, OpenLogs, RequestLogs
  <2> QED
    BY <1>1, <2>1, <2>2, <2>3 DEF Setup
<1>2. CASE Ending
  <2>1. CASE EndOfStream \/ BreakStream
    <3>1. /\ pc = "stream" /\ pc' = "finalize" /\ entries = <<>>
          /\ UNCHANGED <<discovered, entries, opened>>
      BY <2>1 DEF EndOfStream, BreakStream
    <3> QED
      BY <3>1
  <2>2. CASE WriteManifest
    <3>1. /\ pc = "manifest" /\ pc' = "returned" /\ ("services" \in errs => "services" \in errs')
          /\ UNCHANGED <<discovered, missing, streamErr, outputErr, opened, entries, flushed, retained>>
      BY <2>2 DEF WriteManifest
    <3> QED
      BY <3>1
  <2> QED
    BY <1>2, <2>1, <2>2 DEF Ending
<1>3. ASSUME NEW u \in Uuids, ReportMissing(u)
      PROVE  EntriesInv'
  BY <1>3 DEF ReportMissing
<1>4. ASSUME NEW u \in Uuids, DeliverLine(u)
      PROVE  EntriesInv'
  BY <1>4 DEF DeliverLine, Buffer
<1>5. ASSUME NEW u \in Uuids, Finalize(u)
      PROVE  EntriesInv'
  <2> DEFINE entry == [service |-> u, captured |-> Captured(u)]
  <2>1. /\ pc = "finalize" /\ u \in discovered \ Listed
        /\ entries' = Append(entries, entry) /\ opened' = opened \ {u}
        /\ UNCHANGED <<discovered, missing, streamErr, retained>>
        /\ outputErr \subseteq outputErr' /\ outputErr' \subseteq outputErr \cup {u}
        /\ \A v \in Uuids \ {u} : flushed'[v] = flushed[v]
        /\ pc' \in {"finalize", "manifest"}
        /\ pc' = "manifest" => LastEntry(u)
    BY <1>5 DEF Finalize, Finalized
  <2>0. /\ DOMAIN entries = 1 .. Len(entries) /\ Len(entries) \in Nat
        /\ DOMAIN entries' = 1 .. (Len(entries) + 1)
    BY <2>1
  <2>2. /\ DOMAIN entries' = DOMAIN entries \cup {Len(entries) + 1}
        /\ entries'[Len(entries) + 1] = entry
        /\ \A i \in DOMAIN entries : entries'[i] = entries[i] /\ i # Len(entries) + 1
        /\ \A i \in DOMAIN entries : entries[i].service \in Uuids
    <3>1. DOMAIN entries' = DOMAIN entries \cup {Len(entries) + 1}
      BY <2>0
    <3>2. \A i \in DOMAIN entries : entries[i] \in Entries
      OBVIOUS
    <3>3. \A i \in DOMAIN entries : entries[i].service \in Uuids
      BY <3>2 DEF Entries
    <3> QED
      BY <2>0, <2>1, <3>1, <3>3
  <2>3. Listed' = Listed \cup {u}
    BY <2>2
  <2>4. pc' = "manifest" => Listed' = discovered
    <3>1. \A v : Finalized(v) <=> v \in Listed
      BY DEF Finalized
    <3>2. LastEntry(u) => discovered \ {u} \subseteq Listed
      BY <3>1 DEF LastEntry
    <3> QED
      BY <2>1, <2>3, <3>2
  <2>5. /\ Captured(u) => flushed'[u] = retained[u]
        /\ ~streamErr' /\ u \notin missing' \cup outputErr' => Captured(u)
    BY <1>5, <2>1 DEF Finalize, Captured, LinesInv
  <2>6. ASSUME NEW i \in DOMAIN entries'
        PROVE  LET v == entries'[i].service IN
               /\ entries'[i].captured => flushed'[v] = retained'[v]
               /\ ~streamErr' /\ v \notin missing' \cup outputErr' => entries'[i].captured
    <3>1. CASE i = Len(entries) + 1
      BY <2>1, <2>2, <2>5, <3>1
    <3>2. CASE i \in DOMAIN entries
      <4>1. entries[i].service \in Uuids \ {u}
        BY <2>1, <2>2, <3>2
      <4> QED
        BY <2>1, <2>2, <3>2, <4>1
    <3> QED
      BY <2>2, <3>1, <3>2
  <2> QED
    BY <2>1, <2>3, <2>4, <2>6
<1>6. CASE UNCHANGED vars
  BY <1>6 DEF vars
<1> QED
  BY <1>1, <1>2, <1>3, <1>4, <1>5, <1>6 DEF Next, Setup, Ending

\* An error is never forgotten.
LEMMA ErrorsStay ==
  ASSUME [Next]_vars, errs' = {}
  PROVE  UNCHANGED errs
<1> USE DEF Fail
<1>1. CASE Setup
  BY <1>1 DEF Setup, Connect, MakeDirectory, Prepare, Inspect, SaveInspection, OpenLogs, RequestLogs
<1>2. CASE Ending
  BY <1>2 DEF Ending, EndOfStream, BreakStream, WriteManifest
<1>3. CASE \E u \in Uuids : ReportMissing(u) \/ DeliverLine(u) \/ Finalize(u)
  BY <1>3 DEF ReportMissing, DeliverLine, Finalize
<1>4. CASE UNCHANGED vars
  BY <1>4 DEF vars
<1> QED
  BY <1>1, <1>2, <1>3, <1>4 DEF Next, Setup, Ending

LEMMA SilenceStep ==
  ASSUME TypeOK, EntriesInv, SilenceInv, [Next]_vars
  PROVE  SilenceInv'
<1> DEFINE Silence == /\ pc \notin BeforeDiscovery => discovered = known
                      /\ \A i \in DOMAIN entries : entries[i].captured
                      /\ pc = "returned" => manifest
<1> USE DEF Fail, Goto, engine, answers, outputs
<1>1. streamErr' => errs' # {}
  <2>1. streamErr' => streamErr \/ "stream" \in errs'
    <3>1. CASE Setup
      BY <3>1 DEF Setup, Connect, MakeDirectory, Prepare, Inspect, SaveInspection, OpenLogs, RequestLogs
    <3>2. CASE Ending
      BY <3>2 DEF Ending, EndOfStream, BreakStream, WriteManifest
    <3>3. CASE \E u \in Uuids : ReportMissing(u) \/ DeliverLine(u) \/ Finalize(u)
      BY <3>3 DEF ReportMissing, DeliverLine, Finalize
    <3> QED
      BY <3>1, <3>2, <3>3 DEF Next, Setup, Ending, vars
  <2> QED
    BY <2>1, ErrorsStay DEF SilenceInv
<1>2. ASSUME errs' = {}
      PROVE  Silence'
  <2>a. UNCHANGED errs /\ Silence /\ ~streamErr
    BY <1>2, ErrorsStay DEF SilenceInv
  <2>b. \A e : errs' # errs \cup {e}
    BY <1>2
  <2> USE <2>a, <2>b DEF BeforeDiscovery
  <2>1. CASE Connect \/ MakeDirectory
    BY <2>1 DEF Connect, MakeDirectory, Prepare
  <2>2. CASE Inspect
    <3>1. discovered' = known /\ pc' = "save" /\ UNCHANGED <<entries, manifest, known>>
      BY <1>2, <2>2 DEF Inspect, InspectErr, Merge, TypeOK
    <3> QED
      BY <3>1
  <2>3. CASE SaveInspection \/ OpenLogs \/ RequestLogs
    BY <2>3 DEF SaveInspection, OpenLogs, RequestLogs
  <2>4. CASE EndOfStream \/ BreakStream \/ WriteManifest
    BY <2>4 DEF EndOfStream, BreakStream, WriteManifest
  <2>5. ASSUME NEW u \in Uuids, ReportMissing(u) \/ DeliverLine(u)
        PROVE  Silence'
    BY <2>5 DEF ReportMissing, DeliverLine
  <2>6. ASSUME NEW u \in Uuids, Finalize(u)
        PROVE  Silence'
    <3>1. Captured(u)
      BY <1>2, <2>6 DEF Finalize, Captured
    <3>2. /\ UNCHANGED <<known, discovered, manifest>>
          /\ pc' \in {"finalize", "manifest"} /\ pc = "finalize"
          /\ entries' = Append(entries, [service |-> u, captured |-> Captured(u)])
      BY <2>6 DEF Finalize
    <3>3. /\ Len(entries) \in Nat /\ DOMAIN entries = 1 .. Len(entries)
          /\ DOMAIN entries' = 1 .. (Len(entries) + 1)
          /\ entries'[Len(entries) + 1].captured = Captured(u)
          /\ \A i \in 1 .. Len(entries) : entries'[i] = entries[i]
      BY <3>2 DEF TypeOK
    <3> QED
      BY <3>1, <3>2, <3>3
  <2>7. CASE UNCHANGED vars
    BY <2>7 DEF vars
  <2> QED
    BY <2>1, <2>2, <2>3, <2>4, <2>5, <2>6, <2>7 DEF Next
<1> QED
  BY <1>1, <1>2 DEF SilenceInv

LEMMA FileStep ==
  ASSUME OwnNames, TypeOK, LinesInv, FileInv, [Next]_vars
  PROVE  FileInv'
<1> DEFINE Kept == UNCHANGED <<flushed, file>>
<1>a. ASSUME Kept
      PROVE  FileInv'
  BY <1>a DEF FileInv
<1>b. ASSUME NEW u \in Uuids, NEW lines \in Nat, flushed[u] <= lines,
             Flush(u, lines), flushed' = [flushed EXCEPT ![u] = lines]
      PROVE  FileInv'
  <2>1. /\ file'[NameOf[u]] = Log(u, lines)
        /\ \A v \in Uuids : NameOf[v] # NameOf[u] => file'[NameOf[v]] = file[NameOf[v]]
    BY <1>b, FlushAppends DEF TypeOK, FileInv
  <2> QED
    BY <1>b, <2>1 DEF TypeOK, FileInv, OwnNames
<1> USE DEF engine, answers, outputs
<1>1. CASE Setup
  BY <1>1, <1>a DEF Setup, Connect, MakeDirectory, Prepare, Inspect, SaveInspection, OpenLogs, RequestLogs
<1>2. CASE Ending
  BY <1>2, <1>a DEF Ending, EndOfStream, BreakStream, WriteManifest
<1>3. ASSUME NEW u \in Uuids, ReportMissing(u)
      PROVE  FileInv'
  BY <1>3, <1>a DEF ReportMissing
<1>4. ASSUME NEW u \in Uuids, DeliverLine(u)
      PROVE  FileInv'
  <2>1. CASE Kept
    BY <1>a, <2>1
  <2>2. CASE Flush(u, written[u] + 1) /\ flushed' = [flushed EXCEPT ![u] = written[u] + 1]
    <3>1. written[u] + 1 \in Nat /\ flushed[u] <= written[u] + 1
      BY DEF TypeOK, LinesInv
    <3> QED
      BY <1>b, <2>2, <3>1
  <2> QED
    BY <1>4, <2>1, <2>2 DEF DeliverLine, Buffer, TypeOK
<1>5. ASSUME NEW u \in Uuids, Finalize(u)
      PROVE  FileInv'
  <2>1. CASE Kept
    BY <1>a, <2>1
  <2>2. CASE Flush(u, written[u]) /\ flushed' = [flushed EXCEPT ![u] = written[u]]
    BY <1>b, <2>2 DEF TypeOK, LinesInv
  <2> QED
    BY <1>5, <2>1, <2>2 DEF Finalize
<1>6. CASE UNCHANGED vars
  BY <1>6, <1>a DEF vars
<1> QED
  BY <1>1, <1>2, <1>3, <1>4, <1>5, <1>6 DEF Next, Setup, Ending

LEMMA InvInit == Init => IInv /\ FileInv
<1> SUFFICES ASSUME Init
             PROVE  IInv /\ FileInv
  OBVIOUS
<1>1. TypeOK
  <2>1. retained \in [Uuids -> Nat]
    <3>1. 0 .. MaxLines \subseteq Nat
      BY DiagnosticsAssumption
    <3> QED
      BY <3>1 DEF Init
  <2>2. known \in SUBSET Uuids /\ current \in SUBSET known
    BY DEF Init
  <2> QED
    <3>1. entries \in Seq(Entries) /\ DOMAIN file = Names
      BY DEF Init
    <3>2. /\ pc \in Steps /\ discovered = {} /\ missing = {} /\ outputErr = {} /\ opened = {}
          /\ streamErr = FALSE /\ manifest = FALSE
          /\ sent \in [Uuids -> Nat] /\ written \in [Uuids -> Nat] /\ flushed \in [Uuids -> Nat]
      BY DEF Init, Steps
    <3> QED
      BY <2>1, <2>2, <3>1, <3>2 DEF TypeOK
<1>2. entries = <<>> /\ DOMAIN entries = {}
  BY DEF Init
<1>3. LinesInv /\ EntriesInv /\ SilenceInv
  BY <1>1, <1>2 DEF Init, TypeOK, LinesInv, EntriesInv, SilenceInv, Listed, BeforeDiscovery
<1>4. FileInv
  <2>1. \A u \in Uuids : NameOf[u] \in Names
    BY DiagnosticsAssumption DEF Names, Range
  <2> QED
    BY <2>1 DEF Init, FileInv, Log
<1> QED
  BY <1>1, <1>3, <1>4 DEF IInv

LEMMA InvCorrect == Spec => []IInv
<1>1. IInv /\ [Next]_vars => IInv'
  BY TypeStep, LinesStep, EntriesStep, SilenceStep DEF IInv
<1> QED
  BY InvInit, <1>1, PTL DEF Spec

-----------------------------------------------------------------------------
(***************************************************************************)
(* Whatever was interleaved on the stream, a service listed as captured    *)
(* has all its retained lines in its file, if no other service shares its  *)
(* name: no break, no full disk and no late answer passes for a capture.   *)
(***************************************************************************)
THEOREM CapturesAreComplete ==
  ASSUME OwnNames
  PROVE  Spec => []CapturedIsComplete
<1>1. IInv /\ FileInv /\ [Next]_vars => FileInv'
  BY FileStep DEF IInv
<1>2. Spec => []FileInv
  BY InvInit, InvCorrect, <1>1, PTL DEF Spec
<1>3. ASSUME IInv, FileInv
      PROVE  CapturedIsComplete
  <2>1. ASSUME NEW u \in CapturedServices
        PROVE  Complete(u)
    <3>1. PICK i \in DOMAIN entries : entries[i].captured /\ entries[i].service = u
      BY <2>1 DEF CapturedServices
    <3>2. u \in Uuids /\ flushed[u] = retained[u]
      <4>1. entries \in Seq(Entries)
        BY <1>3 DEF IInv, TypeOK
      <4>2. entries[i] \in Entries
        BY <3>1, <4>1
      <4>3. u \in Uuids
        BY <3>1, <4>2 DEF Entries
      <4> QED
        BY <1>3, <3>1, <4>3 DEF IInv, EntriesInv
    <3> QED
      BY <1>3, <3>2 DEF FileInv, Complete
  <2> QED
    BY <2>1 DEF CapturedIsComplete
<1> QED
  BY <1>2, <1>3, InvCorrect, PTL

(***************************************************************************)
(* A collection that reports no error has listed and captured every        *)
(* service the enclave has or had, also services that share a name.        *)
(***************************************************************************)
THEOREM SilenceIsTrue == Spec => []SilenceMeansAll
<1>1. ASSUME IInv, Returned, errs = {}
      PROVE  manifest /\ CapturedServices = known
  <2>1. Listed = discovered /\ discovered = known /\ manifest
    BY <1>1 DEF IInv, EntriesInv, SilenceInv, Returned, BeforeDiscovery
  <2>2. CapturedServices = Listed
    BY <1>1 DEF IInv, SilenceInv, CapturedServices, Listed
  <2> QED
    BY <2>1, <2>2
<1>2. IInv => SilenceMeansAll
  BY <1>1 DEF SilenceMeansAll
<1> QED
  BY <1>2, InvCorrect, PTL

(***************************************************************************)
(* A failure costs what it concerns and nothing else.                      *)
(***************************************************************************)
THEOREM FailuresAreLocal == Spec => []FailuresStayLocal
<1>1. ASSUME IInv, Returned, "services" \notin errs
      PROVE  /\ Listed = discovered /\ opened = {}
             /\ ~streamErr => discovered \ (missing \cup outputErr) \subseteq CapturedServices
  <2>1. Listed = discovered /\ opened = {}
    BY <1>1 DEF IInv, EntriesInv, Returned
  <2>2. ASSUME ~streamErr, NEW u \in discovered \ (missing \cup outputErr)
        PROVE  u \in CapturedServices
    <3>1. PICK i \in DOMAIN entries : entries[i].service = u
      BY <2>1, <2>2 DEF Listed
    <3> QED
      BY <1>1, <2>2, <3>1 DEF IInv, EntriesInv, CapturedServices
  <2> QED
    BY <2>1, <2>2
<1>2. IInv => FailuresStayLocal
  BY <1>1 DEF FailuresStayLocal
<1> QED
  BY <1>2, InvCorrect, PTL

=============================================================================
