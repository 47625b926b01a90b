------------------------------ MODULE CommandLine ------------------------------
(***************************************************************************)
(* cli.py and reporting.py: the commands preflight, run and report on one  *)
(* output directory, each a process of its own. They share the config file *)
(* the user edits between them, the marker preflight.ok, the results file  *)
(* and the report files rendered from it.                                  *)
(*                                                                         *)
(* A run's store is taken at the level of RunJournal, which                *)
(* BenchmarkRunner implements: its flush replaces the results file in one  *)
(* step, by a rename. generate_reports does not rename: it truncates the   *)
(* file it finds and writes into it, so a process that opened the file     *)
(* before a rename writes into one nobody can open any more.               *)
(*                                                                         *)
(* A document is the number of its run, how many of the run's rows it has  *)
(* (always the first ones; their order is left out) and whether it is      *)
(* closed. redact only reads the results file and is left out. An operator *)
(* X_Y is X with a plausible mistake, Y, in it; no definition uses one.    *)
(***************************************************************************)
EXTENDS Integers, Sequences

CONSTANTS
  Process,       (* processes that can be alive at once                    *)
  Targets,       (* what config_hash covers: Config.resolved_targets       *)
  Settings,      (* what it does not: limits, repetitions, text storage    *)
  Interactive,   (* whether --force can be confirmed at a terminal         *)
  Overlap,       (* whether report is used while another command runs      *)
  KillWriting,   (* whether generate_reports can be killed while writing   *)
  MaxRows,       (* bound: rows of a run                                   *)
  MaxRuns        (* bound: runs started                                    *)

NoMarker == "no marker"
Empty    == "empty"        (* truncated and not written yet *)

ASSUME CommandAssumption ==
  /\ {NoMarker, Empty} \cap Targets = {}
  /\ {Interactive, Overlap, KillWriting} \subseteq BOOLEAN
  /\ MaxRows \in Nat
  /\ MaxRuns \in Nat \ {0}

VARIABLES
  config,        (* the config file                                        *)
  marker,        (* preflight.ok                                           *)
  results,       (* benchmark_results.json                                 *)
  store,         (* the latest run's metadata and results, in memory       *)
  pc,            (* each process: where its command is                     *)
  loaded,        (* each process: the config it loaded                     *)
  copy,          (* each process: the document generate_reports loaded     *)
  attached,      (* each process: the file it writes is still results      *)
  made,          (* agent calls of the latest run                          *)
  started,       (* history: each run's config and whether it was forced   *)
  passed,        (* history: configs a preflight or dry run wrote a marker for *)
  cut            (* history: the copy a report was killed writing, until   *)
                 (* the next flush; Absent otherwise                       *)

files  == <<marker, results>>
local  == <<loaded, copy, attached>>
ledger == <<made, started, passed>>
vars   == <<config, files, store, pc, local, ledger, cut>>

Config == [targets: Targets, settings: Settings]

Document(r, n, end) == [run |-> r, rows |-> n, closed |-> end]
Absent  == Document(0, 0, FALSE)
Torn    == [Absent EXCEPT !.rows = -1]      (* truncated, or not JSON *)
Whole(d) == d \notin {Absent, Torn}

Run == Len(started)
At(p, step) == pc' = [pc EXCEPT ![p] = step]
Running == {"gate", "construct", "loop", "called"}
Quiet   == \A q \in Process : pc[q] \in {"idle", "preflight", "marker"}

Init ==
  /\ config \in Config
  /\ marker = NoMarker
  /\ results = Absent
  /\ store = Absent
  /\ pc = [p \in Process |-> "idle"]
  /\ loaded = [p \in Process |-> config]
  /\ copy = [p \in Process |-> Absent]
  /\ attached = [p \in Process |-> FALSE]
  /\ made = 0
  /\ started = <<>>
  /\ passed = {}
  /\ cut = Absent

EditConfig ==
  /\ config' \in Config
  /\ UNCHANGED <<files, store, cut, pc, local, ledger>>

-----------------------------------------------------------------------------
(* preflight, and run --dry-run: load and validate, then write the marker. *)
StartPreflight(p) ==
  /\ pc[p] = "idle"
  /\ loaded' = [loaded EXCEPT ![p] = config]
  /\ At(p, "preflight")
  /\ UNCHANGED <<config, files, store, cut, copy, attached, ledger>>

OpenMarker(p) ==
  /\ pc[p] = "preflight"
  /\ marker' = Empty
  /\ At(p, "marker")
  /\ UNCHANGED <<config, results, store, cut, local, ledger>>

FillMarker(p) ==
  /\ pc[p] = "marker"
  /\ marker' = loaded[p].targets
  /\ passed' = passed \cup {loaded[p]}
  /\ At(p, "idle")
  /\ UNCHANGED <<config, results, store, cut, local, made, started>>

-----------------------------------------------------------------------------
(* run: the gate, the store, and the report of what it kept. *)

StartRun(p) ==
  /\ pc[p] = "idle"
  /\ Run < MaxRuns
  /\ Quiet \/ (Overlap /\ \A q \in Process : pc[q] \notin Running)
  /\ loaded' = [loaded EXCEPT ![p] = config]
  /\ At(p, "gate")
  /\ UNCHANGED <<config, files, store, cut, copy, attached, ledger>>

(* No marker, one that does not parse or another hash: not passed. *)
PreflightPassed_Exists(p) == marker # NoMarker
PreflightPassed(p) == marker = loaded[p].targets

EnterRun(p) ==
  /\ pc[p] = "gate"
  /\ PreflightPassed(p) \/ Interactive
  /\ started' = Append(started, [config |-> loaded[p], forced |-> ~PreflightPassed(p)])
  /\ made' = 0
  /\ At(p, "construct")
  /\ UNCHANGED <<config, files, store, cut, local, passed>>

Refuse(p) ==
  /\ pc[p] = "gate"
  /\ ~PreflightPassed(p)
  /\ At(p, "idle")
  /\ UNCHANGED <<config, files, store, cut, local, ledger>>

(* A flush: the rename leaves whoever has the old file open without a name. *)
Flush(document) ==
  /\ store' = document
  /\ results' = document
  /\ attached' = [q \in Process |-> FALSE]
  /\ cut' = Absent

Construct_Keeps(p) ==
  /\ pc[p] = "construct"
  /\ IF Whole(results) THEN Flush(Document(Run, results.rows, FALSE))
                       ELSE Flush(Document(Run, 0, FALSE))
  /\ At(p, "loop")
  /\ UNCHANGED <<config, marker, loaded, copy, ledger>>

Construct(p) ==
  /\ pc[p] = "construct"
  /\ Flush(Document(Run, 0, FALSE))
  /\ At(p, "loop")
  /\ UNCHANGED <<config, marker, loaded, copy, ledger>>

Call(p) ==
  /\ pc[p] = "loop"
  /\ made < MaxRows
  /\ made' = made + 1
  /\ At(p, "called")
  /\ UNCHANGED <<config, files, store, cut, local, started, passed>>

Record(p) ==
  /\ pc[p] = "called"
  /\ Flush([store EXCEPT !.rows = @ + 1])
  /\ At(p, "loop")
  /\ UNCHANGED <<config, marker, loaded, copy, ledger>>

(* finalize: at the end of the plan, at a guardrail or the runtime limit,  *)
(* or after Ctrl-C, which can find the last row appended or not.           *)
Close_AddsAgain(p) ==
  /\ pc[p] \in {"loop", "called"}
  /\ Flush([store EXCEPT !.closed = TRUE, !.rows = @ + 1])
  /\ At(p, "load")
  /\ UNCHANGED <<config, marker, loaded, copy, ledger>>

Close(p) ==
  /\ \/ pc[p] = "loop" /\ Flush([store EXCEPT !.closed = TRUE])
     \/ pc[p] = "called" /\ \E n \in {0, 1} :
          Flush([store EXCEPT !.closed = TRUE, !.rows = @ + n])
  /\ At(p, "load")
  /\ UNCHANGED <<config, marker, loaded, copy, ledger>>

-----------------------------------------------------------------------------
(* generate_reports, at the end of run and for report. *)

StartReport(p) ==
  /\ pc[p] = "idle"
  /\ Quiet \/ Overlap
  /\ At(p, "load")
  /\ UNCHANGED <<config, files, store, cut, local, ledger>>

(* load_results raises for a file that is missing or not JSON. *)
Load_TornIsEmpty(p) ==
  /\ pc[p] = "load"
  /\ results # Absent
  /\ copy' = [copy EXCEPT ![p] = IF results = Torn THEN Document(Run, 0, FALSE) ELSE results]
  /\ At(p, "open")
  /\ UNCHANGED <<config, files, store, cut, loaded, attached, ledger>>

Load(p) ==
  /\ pc[p] = "load"
  /\ Whole(results)
  /\ copy' = [copy EXCEPT ![p] = results]
  /\ At(p, "open")
  /\ UNCHANGED <<config, files, store, cut, loaded, attached, ledger>>

LoadFails(p) ==
  /\ pc[p] = "load"
  /\ ~Whole(results)
  /\ At(p, "idle")
  /\ UNCHANGED <<config, files, store, cut, local, ledger>>

Truncate(p) ==
  /\ pc[p] = "open"
  /\ results' = Torn
  /\ attached' = [attached EXCEPT ![p] = TRUE]
  /\ At(p, "fill")
  /\ UNCHANGED <<config, marker, store, cut, loaded, copy, ledger>>

(* Written over what another process wrote there since the truncation, the *)
(* document may leave the other's end behind it. The summary, report and   *)
(* trace links follow, from the same copy, in files of their own.          *)
Fill(p) ==
  /\ pc[p] = "fill"
  /\ results' \in IF ~attached[p] THEN {results}
                  ELSE IF results \in {Torn, copy[p]} THEN {copy[p]}
                  ELSE {copy[p], Torn}
  /\ attached' = [attached EXCEPT ![p] = FALSE]
  /\ copy' = [copy EXCEPT ![p] = Absent]
  /\ At(p, "idle")
  /\ UNCHANGED <<config, marker, store, cut, loaded, ledger>>

(* Any command can be killed, and Ctrl-C is a kill outside the run's loop. *)
Kill(p) ==
  /\ pc[p] # "idle"
  /\ pc[p] = "fill" => KillWriting
  /\ cut' = IF attached[p] THEN copy[p] ELSE cut
  /\ attached' = [attached EXCEPT ![p] = FALSE]
  /\ copy' = [copy EXCEPT ![p] = Absent]
  /\ At(p, "idle")
  /\ UNCHANGED <<config, files, store, loaded, ledger>>

Command(p) ==
  \/ OpenMarker(p) \/ FillMarker(p)
  \/ EnterRun(p) \/ Refuse(p) \/ Construct(p) \/ Call(p) \/ Record(p) \/ Close(p)
  \/ Load(p) \/ LoadFails(p) \/ Truncate(p) \/ Fill(p)

Next ==
  \/ EditConfig
  \/ \E p \in Process : StartPreflight(p) \/ StartRun(p) \/ StartReport(p) \/ Command(p) \/ Kill(p)

Spec == Init /\ [][Next]_vars

-----------------------------------------------------------------------------
DocumentType == [run: 0..MaxRuns, rows: -1..MaxRows, closed: BOOLEAN]

(* The type invariant of the directory, the processes and the ledger.      *)
TypeOK ==
  /\ config \in Config
  /\ marker \in Targets \cup {NoMarker, Empty}
  /\ results \in DocumentType
  /\ store \in DocumentType \ {Torn}
  /\ pc \in [Process -> Running \cup {"idle", "preflight", "marker", "load", "open", "fill"}]
  /\ loaded \in [Process -> Config]
  /\ copy \in [Process -> DocumentType \ {Torn}]
  /\ attached \in [Process -> BOOLEAN]
  /\ made \in 0..MaxRows
  /\ started \in Seq([config: Config, forced: BOOLEAN]) /\ Run <= MaxRuns
  /\ passed \subseteq Config
  /\ cut \in DocumentType \ {Torn}

(* A run that was not forced calls agents only at targets that a preflight *)
(* or dry run resolved and validated, whatever the user edits and however  *)
(* commands overlap or die (cli.py:38-59, 115-128).                        *)
UnforcedRunWasPreflighted ==
  \A i \in DOMAIN started :
    started[i].forced \/ \E c \in passed : c.targets = started[i].config.targets

(* Commands one after another, killed anywhere: a results file that parses *)
(* is what the latest run has flushed, never an older document or a part   *)
(* of one, and one that does not parse has a report writing it or had one  *)
(* killed over it (runner.py:77-82, reporting.py:225, 246-264).            *)
ReadersFindLatest ==
  /\ results # Torn => results = store
  /\ results = Torn => cut # Absent \/ \E p \in Process : pc[p] = "fill"

AllIdle == \A p \in Process : pc[p] = "idle"

(* README.md:95 has reports made "from persisted results at any time": so  *)
(* once nothing runs, the file still is what the latest run had persisted. *)
FileKeepsRows == AllIdle => results = store

(* runner.py:77-78 keeps "a single valid JSON document at all times, so an *)
(* interrupted run leaves a readable, report-able file behind".            *)
ReadableFileLeft == AllIdle => results # Torn

(* Commands one after another keep the journal: the results file, read as  *)
(* the copy a report is writing, or was killed writing, where it is torn,  *)
(* grows by the rows of one run at a time and keeps them. ReadableFileLeft *)
(* is about the torn file itself.                                          *)
Seen ==
  IF results # Torn THEN results
  ELSE IF \E p \in Process : pc[p] = "fill" /\ attached[p]
  THEN copy[CHOOSE p \in Process : pc[p] = "fill" /\ attached[p]]
  ELSE cut

Journal ==
  INSTANCE RunJournal WITH
    run  <- Run + 1,
    made <- made,
    file <- [run    |-> IF Seen = Absent THEN 0 ELSE Seen.run + 1,
             rows   |-> [i \in 1..Seen.rows |-> i],
             status |-> IF Seen = Absent THEN "absent"
                        ELSE IF Seen.closed THEN "completed" ELSE "running"]
JournalSpec == Journal!Spec
==============================================================================
