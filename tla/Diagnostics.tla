---------------------------- MODULE Diagnostics ----------------------------
(***************************************************************************)
(* devnet/diagnostics.go over devnet/internal/kurtosis/diagnostics.go: the *)
(* capture of a failed network.  The services of the enclave are found     *)
(* with two calls that fail apart from each other; the retained logs of    *)
(* all of them arrive on one stream, in any interleaving, and go through a *)
(* buffer each into a file each; a manifest says which were captured.      *)
(*                                                                         *)
(* Everything is best effort: what fails must not cost what does not, and  *)
(* what was lost must not be listed as captured.                           *)
(***************************************************************************)
EXTENDS Sequences, FiniteSets, Functions, FiniteSetsExt

CONSTANTS
  Uuids,      \* services the engine has logs of
  NameOf,     \* NameOf[u]: the name of service u, which names its file
  MaxLines,   \* bound: retained lines of a service
  Faults      \* what may fail: "engine" calls, the "stream", the "disk"

ASSUME DiagnosticsAssumption ==
  /\ DOMAIN NameOf = Uuids
  /\ MaxLines \in Nat
  /\ Faults \subseteq {"engine", "stream", "disk"}

VARIABLES
  known,      \* the services the enclave has or had; the others are another enclave's
  current,    \* the ones it has
  retained,   \* retained[u]: how many lines the engine kept of service u
  pc,         \* the step of CollectDiagnostics
  discovered, \* the services found by the inspection
  sent,       \* sent[u]: lines of u that have arrived
  missing,    \* notFound, the provisional answer of the stream
  streamErr,  \* the stream broke
  outputErr,  \* the outputs with an error of their own
  written,    \* written[u]: lines in the writer of u
  flushed,    \* flushed[u]: lines of u in its file
  opened,     \* the open files, by service
  file,       \* file[name]: the lines of a log file
  entries,    \* the service entries of the manifest: captured or not
  manifest,   \* diagnostics.json is on disk
  errs        \* the joined error

engine == <<known, current, retained>>
outputs == <<outputErr, written, flushed, opened, file>>
answers == <<sent, missing, streamErr>>
vars == <<engine, pc, discovered, answers, outputs, entries, manifest, errs>>

Names == Range(NameOf)
Steps == {"connect", "mkdir", "inspect", "save", "open", "request", "stream", "finalize",
          "manifest", "returned"}

\* The lines of a service, in order.
Log(u, n) == [i \in 1 .. n |-> <<u, i>>]

Init ==
  /\ known \in SUBSET Uuids /\ current \in SUBSET known
  /\ retained \in [Uuids -> 0 .. MaxLines]
  /\ pc = "connect"
  /\ discovered = {}
  /\ sent = [u \in Uuids |-> 0] /\ missing = {} /\ streamErr = FALSE
  /\ outputErr = {} /\ opened = {}
  /\ written = [u \in Uuids |-> 0] /\ flushed = [u \in Uuids |-> 0]
  /\ file = [name \in Names |-> <<>>]
  /\ entries = <<>>
  /\ manifest = FALSE /\ errs = {}

-----------------------------------------------------------------------------
Goto(step) == pc' = step
Fail(error) == errs' = errs \cup {error}
MayFail(fault) == fault \in Faults

\* The client of the engine, then the directory: without either, nothing.
Prepare(step, next, fault) ==
  /\ pc = step
  /\ \/ Goto(next) /\ UNCHANGED errs
     \/ MayFail(fault) /\ Goto("returned") /\ Fail(step)
  /\ UNCHANGED <<engine, discovered, answers, outputs, entries, manifest>>

Connect == Prepare("connect", "mkdir", "engine")
MakeDirectory == Prepare("mkdir", "inspect", "disk")

\* Faulty: an error of the identifiers is dropped when the services were read.
CurrentSpeaksForAll(identified, listed) == IF listed THEN {} ELSE {"inspect"}

InspectErr(identified, listed) == IF identified /\ listed THEN {} ELSE {"inspect"}

\* mergeServiceIdentities: what either call returned.
Merge(identified, listed) ==
  (IF identified THEN known ELSE {}) \cup (IF listed THEN current ELSE {})

\* Inspect: no running enclave, no creation time, or a stopped API container;
\* then the identifiers and the current services, each of which can fail.
Inspect ==
  /\ pc = "inspect" /\ Goto("save")
  /\ \/ /\ MayFail("engine") /\ Fail("inspect") /\ UNCHANGED discovered
     \/ \E identified, listed, created \in BOOLEAN :
          /\ MayFail("engine") \/ (identified /\ listed /\ created)
          /\ discovered' = Merge(identified, listed)
          /\ errs' = errs \cup InspectErr(identified, listed)
                          \cup (IF created THEN {} ELSE {"inspect"})
  /\ UNCHANGED <<engine, answers, outputs, entries, manifest>>

\* inspection.json, whatever the inspection found.
SaveInspection ==
  /\ pc = "save"
  /\ Goto(IF discovered = {} THEN "manifest" ELSE "open")
  /\ UNCHANGED errs \/ (MayFail("disk") /\ Fail("inspection.json"))
  /\ UNCHANGED <<engine, discovered, answers, outputs, entries, manifest>>

\* The directory and one file for each service, truncated.
OpenLogs ==
  /\ pc = "open"
  /\ \/ \E failing \in SUBSET discovered :
          /\ failing = {} \/ MayFail("disk")
          /\ outputErr' = failing /\ opened' = discovered \ failing
          /\ Goto("request") /\ UNCHANGED errs
     \/ /\ MayFail("disk") /\ Fail("services") /\ Goto("manifest")
        /\ UNCHANGED <<outputErr, opened>>
  /\ UNCHANGED <<engine, discovered, answers, written, flushed, file, entries, manifest>>

-----------------------------------------------------------------------------
(***************************************************************************)
(* The stream.                                                             *)
(***************************************************************************)
RequestLogs ==
  /\ pc = "request"
  /\ \/ Goto("stream") /\ UNCHANGED <<streamErr, errs>>
     \/ MayFail("stream") /\ Goto("finalize") /\ streamErr' = TRUE /\ Fail("stream")
  /\ UNCHANGED <<engine, discovered, sent, missing, outputs, entries, manifest>>

\* A service is reported as not found, which later lines of it take back.
ReportMissing(u) ==
  /\ sent[u] < retained[u] \/ retained[u] = 0
  /\ pc = "stream"
  /\ missing' = missing \cup ({u} \cap discovered)
  /\ UNCHANGED <<engine, pc, discovered, sent, streamErr, outputs, entries, manifest, errs>>

\* The writer of u hands its lines to the file, behind the ones it wrote there
\* before: every open file has an offset of its own.
Flush(u, lines) ==
  LET old == file[NameOf[u]]
      new == Log(u, lines)
      end == Max({Len(old), lines})
  IN file' = [file EXCEPT ![NameOf[u]] =
                [i \in 1 .. end |-> IF i \in flushed[u] + 1 .. lines THEN new[i] ELSE old[i]]]

\* writeLines: a line goes into the writer, which may be full and flush, and
\* fail to; an output with an error takes no more.
Buffer(u) ==
  /\ written' = [written EXCEPT ![u] = @ + 1]
  /\ \/ UNCHANGED <<outputErr, flushed, file>>
     \/ /\ Flush(u, written[u] + 1) /\ flushed' = [flushed EXCEPT ![u] = written'[u]]
        /\ UNCHANGED outputErr
     \/ /\ MayFail("disk") /\ outputErr' = outputErr \cup {u}
        /\ UNCHANGED <<flushed, file>>
  /\ UNCHANGED opened

\* A line of a service that was asked for takes back its report as missing.
DeliverLine(u) ==
  /\ pc = "stream" /\ sent[u] < retained[u]
  /\ sent' = [sent EXCEPT ![u] = @ + 1]
  /\ missing' = IF u \in discovered THEN missing \ {u} ELSE missing
  /\ IF u \in discovered \ outputErr THEN Buffer(u) ELSE UNCHANGED outputs
  /\ UNCHANGED <<engine, pc, discovered, streamErr, entries, manifest, errs>>

\* A clean end: every service asked for was delivered or not found.
EndOfStream ==
  /\ pc = "stream" /\ Goto("finalize")
  /\ \A u \in discovered : sent[u] = retained[u] \/ u \in missing
  /\ UNCHANGED <<engine, discovered, answers, outputs, entries, manifest, errs>>

\* The stream breaks: what was not found so far may still have come.
BreakStream ==
  /\ pc = "stream" /\ MayFail("stream") /\ Goto("finalize")
  /\ missing' = {} /\ streamErr' = TRUE /\ Fail("stream")
  /\ UNCHANGED <<engine, discovered, sent, outputs, entries, manifest>>

-----------------------------------------------------------------------------
(***************************************************************************)
(* The manifest.                                                           *)
(***************************************************************************)
Finalized(u) == \E i \in DOMAIN entries : entries[i].service = u

\* Faulty: the outcome is decided before the output is closed.
CapturedBeforeClose(u) == ~streamErr /\ u \notin missing /\ u \notin outputErr

\* The stream, the answer of the engine and the output, closed by now.
Captured(u) == ~streamErr /\ u \notin missing /\ u \notin outputErr'

\* Faulty: the first service with an error of its own ends the list.
LastUntilError(u) ==
  (\A v \in discovered \ {u} : Finalized(v)) \/ u \in missing \cup outputErr'

\* The list goes on after a service with an error of its own.
LastEntry(u) == \A v \in discovered \ {u} : Finalized(v)

\* finalizeCapture: flush what is left, close, and decide.
Finalize(u) ==
  /\ pc = "finalize" /\ u \in discovered /\ ~Finalized(u)
  /\ \/ /\ u \in outputErr /\ UNCHANGED <<outputErr, flushed, file>>
     \/ /\ u \notin outputErr
        /\ Flush(u, written[u]) /\ flushed' = [flushed EXCEPT ![u] = written[u]]
        /\ UNCHANGED outputErr
     \/ /\ u \notin outputErr /\ MayFail("disk")
        /\ outputErr' = outputErr \cup {u} /\ UNCHANGED <<flushed, file>>
  /\ opened' = opened \ {u}
  /\ entries' = Append(entries, [service |-> u, captured |-> Captured(u)])
  /\ errs' = IF u \in missing \cup outputErr' THEN errs \cup {"service"} ELSE errs
  /\ Goto(IF LastEntry(u) THEN "manifest" ELSE "finalize")
  /\ UNCHANGED <<engine, discovered, answers, written, manifest>>

WriteManifest ==
  /\ pc = "manifest" /\ Goto("returned")
  /\ \/ manifest' = TRUE /\ UNCHANGED errs
     \/ MayFail("disk") /\ Fail("diagnostics.json") /\ UNCHANGED manifest
  /\ UNCHANGED <<engine, discovered, answers, outputs, entries>>

Next ==
  \/ Connect \/ MakeDirectory \/ Inspect \/ SaveInspection \/ OpenLogs \/ RequestLogs
  \/ EndOfStream \/ BreakStream \/ WriteManifest
  \/ \E u \in Uuids : ReportMissing(u) \/ DeliverLine(u) \/ Finalize(u)

Spec == Init /\ [][Next]_vars

-----------------------------------------------------------------------------
Returned == pc = "returned"
Complete(u) == file[NameOf[u]] = Log(u, retained[u])
Listed == {entries[i].service : i \in DOMAIN entries}
CapturedServices == {entries[i].service : i \in {j \in DOMAIN entries : entries[j].captured}}

(***************************************************************************)
(* A service the manifest lists as captured has all its retained lines, in *)
(* their order and nothing else, in the file the manifest names: whatever  *)
(* the stream interleaved, a break, a full disk or a late answer do not    *)
(* pass for a capture.                                                     *)
(***************************************************************************)
CapturedIsComplete ==
  Returned /\ manifest => \A u \in CapturedServices : Complete(u)

(***************************************************************************)
(* A collection without an error collected everything: every service the   *)
(* enclave has or had is listed and captured.                              *)
(***************************************************************************)
SilenceMeansAll ==
  Returned /\ errs = {} => manifest /\ CapturedServices = known

(***************************************************************************)
(* Failures are independent: once the logs were streamed to the end, every *)
(* service that was discovered is listed, and captured unless the engine   *)
(* had no logs of it or its own file failed, whatever happened to the      *)
(* inspection, the other files and the manifest.                           *)
(***************************************************************************)
FailuresStayLocal ==
  Returned /\ discovered # {} /\ "services" \notin errs =>
    /\ Listed = discovered /\ opened = {}
    /\ ~streamErr => discovered \ (missing \cup outputErr) \subseteq CapturedServices
=============================================================================
