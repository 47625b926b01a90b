--------------------------- MODULE CommandLineProofs ---------------------------
(***************************************************************************)
(* The preflight gate, for any number of processes, targets, settings and  *)
(* runs, with reports overlapping and commands killed anywhere.            *)
(***************************************************************************)
EXTENDS CommandLine, TLAPS

(* What a marker that parses stands for, and the part of the type          *)
(* invariant that the gate reads.                                          *)
GateInv ==
  /\ config \in Config /\ loaded \in [Process -> Config]
  /\ started \in Seq([config: Config, forced: BOOLEAN])
  /\ marker \in {NoMarker, Empty} \/ \E c \in passed : c.targets = marker
  /\ UnforcedRunWasPreflighted

LEMMA InitGate == Init => GateInv
BY DEF Init, GateInv, UnforcedRunWasPreflighted

(* Entering a run keeps the property: unforced, its targets are the        *)
(* marker's, and a marker that is a target was written by a preflight.     *)
LEMMA EnterGate ==
  ASSUME GateInv, NEW p \in Process, EnterRun(p)
  PROVE  GateInv'
<1> DEFINE new == [config |-> loaded[p], forced |-> ~PreflightPassed(p)]
<1>1. /\ started' = Append(started, new) /\ UNCHANGED <<config, loaded, marker, passed>>
      /\ loaded[p] \in Config
  BY DEF EnterRun, files, local, GateInv
<1>2. new \in [config: Config, forced: BOOLEAN]
  BY <1>1
<1>3. started' \in Seq([config: Config, forced: BOOLEAN])
  BY <1>1, <1>2 DEF GateInv
<1>4. new.forced \/ \E c \in passed : c.targets = new.config.targets
  <2>1. SUFFICES ASSUME PreflightPassed(p)
                 PROVE  \E c \in passed : c.targets = loaded[p].targets
    BY DEF PreflightPassed
  <2>2. marker = loaded[p].targets /\ loaded[p].targets \in Targets
    BY <1>1, <2>1 DEF PreflightPassed, Config
  <2>3. marker \notin {NoMarker, Empty}
    BY <2>2, CommandAssumption
  <2>4. QED
    BY <2>2, <2>3 DEF GateInv
<1>5. ASSUME NEW i \in DOMAIN started'
      PROVE  \/ started'[i].forced
             \/ \E c \in passed : c.targets = started'[i].config.targets
  <2>1. \/ started'[i] = new
        \/ i \in DOMAIN started /\ started'[i] = started[i]
    <3> DEFINE E == [config: Config, forced: BOOLEAN]
    <3>1. started \in Seq(E) /\ new \in E /\ started' = Append(started, new)
      BY <1>1, <1>2 DEF GateInv
    <3>2. i \in 1..(Len(started) + 1)
      BY <1>5, <3>1
    <3> HIDE DEF E, new
    <3>3. QED
      BY <3>1, <3>2
  <2>2. CASE started'[i] = new
    BY <1>4, <2>2
  <2>3. CASE i \in DOMAIN started /\ started'[i] = started[i]
    BY <2>3 DEF GateInv, UnforcedRunWasPreflighted
  <2>4. QED
    BY <2>1, <2>2, <2>3
<1>6. QED
  BY <1>1, <1>3, <1>5 DEF GateInv, UnforcedRunWasPreflighted

LEMMA StepGate == GateInv /\ [Next]_vars => GateInv'
<1> SUFFICES ASSUME GateInv, [Next]_vars PROVE GateInv'
  OBVIOUS
<1>1. CASE EditConfig
  BY <1>1 DEF EditConfig, GateInv, UnforcedRunWasPreflighted, files, local, ledger
<1>2. ASSUME NEW p \in Process, StartPreflight(p) \/ StartRun(p) PROVE GateInv'
  BY <1>2 DEF StartPreflight, StartRun, GateInv, UnforcedRunWasPreflighted, files, ledger
<1>3. ASSUME NEW p \in Process, OpenMarker(p) PROVE GateInv'
  BY <1>3 DEF OpenMarker, GateInv, UnforcedRunWasPreflighted, local, ledger
<1>4. ASSUME NEW p \in Process, FillMarker(p) PROVE GateInv'
  <2>1. /\ marker' = loaded[p].targets /\ passed' = passed \cup {loaded[p]}
        /\ UNCHANGED <<config, loaded, started>>
    BY <1>4 DEF FillMarker, local
  <2>2. UnforcedRunWasPreflighted'
    BY <2>1 DEF GateInv, UnforcedRunWasPreflighted
  <2>3. QED
    BY <2>1, <2>2 DEF GateInv
<1>5. ASSUME NEW p \in Process, EnterRun(p) PROVE GateInv'
  BY <1>5, EnterGate
<1>6. ASSUME NEW p \in Process,
             \/ Refuse(p) \/ Construct(p) \/ Call(p) \/ Record(p) \/ Close(p) \/ StartReport(p)
             \/ Load(p) \/ LoadFails(p) \/ Truncate(p) \/ Fill(p) \/ Kill(p)
      PROVE  UNCHANGED <<config, loaded, marker, started, passed>>
  BY <1>6 DEF Refuse, Construct, Call, Record, Close, StartReport, Load, LoadFails, Truncate,
              Fill, Kill, Flush, files, local, ledger
<1>7. CASE UNCHANGED vars
  BY <1>7 DEF vars, files, local, ledger, GateInv, UnforcedRunWasPreflighted
<1>8. ASSUME UNCHANGED <<config, loaded, marker, started, passed>> PROVE GateInv'
  BY <1>8 DEF GateInv, UnforcedRunWasPreflighted
<1>9. QED
  BY <1>1, <1>2, <1>3, <1>4, <1>5, <1>6, <1>7, <1>8 DEF Next, Command

(* The gate of cmd_run (cli.py:51-59, 115-128): whatever is edited,        *)
(* overlapped or killed, a run that was not forced has targets that a      *)
(* preflight or dry run wrote a marker for.                                *)
THEOREM GateHolds == Spec => []UnforcedRunWasPreflighted
<1>1. GateInv => UnforcedRunWasPreflighted
  BY DEF GateInv
<1>2. QED
  BY <1>1, InitGate, StepGate, PTL DEF Spec

-----------------------------------------------------------------------------
(* One process at a time is a run, and the store is its: as many rows as   *)
(* calls between two of them, one fewer after a call.                      *)
RunInv ==
  /\ \A p, q \in Process : pc[p] \in Running /\ pc[q] \in Running => p = q
  /\ store.run <= Run
  /\ \A p \in Process :
       /\ pc[p] = "gate"               => Run < MaxRuns
       /\ pc[p] = "construct"          => store.run < Run /\ made = 0
       /\ pc[p] \in {"loop", "called"} => store.run = Run /\ Run > 0 /\ ~store.closed
       /\ pc[p] = "loop"               => store.rows = made
       /\ pc[p] = "called"             => store.rows + 1 = made /\ made > 0

TypedInv == TypeOK /\ RunInv

Steps   == Running \cup {"idle", "preflight", "marker", "load", "open", "fill"}
Started == [config: Config, forced: BOOLEAN]

LEMMA InitTyped == Init => TypedInv
<1> SUFFICES ASSUME Init PROVE TypedInv
  OBVIOUS
<1>1. Absent \in DocumentType \ {Torn} /\ Absent.run = 0
  BY CommandAssumption DEF Absent, Torn, Document, DocumentType
<1>2. started \in Seq(Started) /\ Run = 0
  BY DEF Init, Run
<1>3. TypeOK
  <2>1. /\ config \in Config /\ marker \in Targets \cup {NoMarker, Empty}
        /\ passed \subseteq Config /\ cut \in DocumentType \ {Torn}
    BY <1>1 DEF Init
  <2>2. results \in DocumentType /\ store \in DocumentType \ {Torn}
    BY <1>1 DEF Init
  <2>3. /\ pc \in [Process -> Running \cup {"idle", "preflight", "marker", "load", "open", "fill"}]
        /\ loaded \in [Process -> Config] /\ copy \in [Process -> DocumentType \ {Torn}]
        /\ attached \in [Process -> BOOLEAN]
    BY <1>1, <2>1 DEF Init
  <2>4. made \in 0..MaxRows /\ Run <= MaxRuns
    BY <1>2, CommandAssumption DEF Init
  <2>5. QED
    BY <1>2, <2>1, <2>2, <2>3, <2>4 DEF TypeOK, Started
<1>4. RunInv
  BY <1>1, <1>2, CommandAssumption DEF Init, RunInv, Running
<1>5. QED
  BY <1>3, <1>4 DEF TypedInv

(* Where one process goes, the others stay. *)
LEMMA Moves ==
  ASSUME TypeOK, NEW p \in Process, NEW step \in Steps, At(p, step)
  PROVE  /\ pc' \in [Process -> Steps] /\ pc'[p] = step
         /\ \A q \in Process : q # p => pc'[q] = pc[q]
BY DEF TypeOK, At, Steps

(* A document with a run of the directory and rows within the bound.       *)
LEMMA DocumentIs ==
  ASSUME NEW r \in 0..MaxRuns, NEW n \in 0..MaxRows, NEW end \in BOOLEAN
  PROVE  Document(r, n, end) \in DocumentType \ {Torn}
<1>1. Document(r, n, end) \in DocumentType /\ Document(r, n, end).rows = n
  BY CommandAssumption DEF Document, DocumentType
<1>2. Torn.rows = -1
  BY DEF Torn, Absent, Document
<1>3. QED
  BY <1>1, <1>2

LEMMA AbsentIs == Absent \in DocumentType \ {Torn} /\ Torn \in DocumentType
<1>1. 0 \in 0..MaxRuns /\ 0 \in -1..MaxRows /\ -1 \in -1..MaxRows
  BY CommandAssumption
<1>2. Absent \in DocumentType /\ Absent.rows = 0
  BY <1>1 DEF Absent, Document, DocumentType
<1>3. Torn \in DocumentType /\ Torn.rows = -1
  BY <1>1, <1>2 DEF Torn, DocumentType
<1>4. QED
  BY <1>2, <1>3

(* What a flush of the running process leaves.                             *)
LEMMA FlushTyped ==
  ASSUME TypeOK, NEW d \in DocumentType \ {Torn}, Flush(d)
  PROVE  /\ store' = d /\ store' \in DocumentType \ {Torn} /\ results' \in DocumentType
         /\ attached' \in [Process -> BOOLEAN]
BY DEF Flush

(* A step that leaves the run, its store and its calls alone, and turns no *)
(* process into a run.                                                     *)
LEMMA SameRun ==
  ASSUME RunInv, UNCHANGED <<store, made, started>>,
         \A q \in Process : pc'[q] \in Running => pc[q] = pc'[q]
  PROVE  RunInv'
BY DEF RunInv, Run, Running

(* What a report was cut writing is set by a kill and reset by a flush.     *)
LEMMA CutTyped ==
  ASSUME TypeOK, [Next]_vars
  PROVE  cut' \in DocumentType \ {Torn}
<1>0. /\ cut \in DocumentType \ {Torn} /\ Absent \in DocumentType \ {Torn}
      /\ copy \in [Process -> DocumentType \ {Torn}]
  BY CommandAssumption DEF TypeOK, DocumentType, Absent, Torn, Document
<1>1. CASE EditConfig \/ UNCHANGED vars
  BY <1>0, <1>1 DEF EditConfig, vars
<1>2. ASSUME NEW p \in Process, Kill(p) PROVE cut' \in DocumentType \ {Torn}
  <2>1. cut' \in {cut, copy[p]}
    BY <1>2 DEF Kill
  <2>2. QED
    BY <1>0, <2>1
<1>3. ASSUME NEW p \in Process, Construct(p) \/ Record(p) \/ Close(p)
      PROVE  cut' \in DocumentType \ {Torn}
  BY <1>0, <1>3 DEF Construct, Record, Close, Flush
<1>4. ASSUME NEW p \in Process,
             \/ StartPreflight(p) \/ OpenMarker(p) \/ FillMarker(p) \/ StartRun(p) \/ EnterRun(p)
             \/ Refuse(p) \/ Call(p) \/ StartReport(p) \/ Load(p) \/ LoadFails(p)
             \/ Truncate(p) \/ Fill(p)
      PROVE  cut' \in DocumentType \ {Torn}
  BY <1>0, <1>4 DEF StartPreflight, OpenMarker, FillMarker, StartRun, EnterRun, Refuse, Call,
                    StartReport, Load, LoadFails, Truncate, Fill
<1>5. QED
  BY <1>1, <1>2, <1>3, <1>4 DEF Next, Command

LEMMA StepTyped == TypedInv /\ [Next]_vars => TypedInv'
<1> SUFFICES ASSUME TypedInv, [Next]_vars PROVE TypedInv'
  OBVIOUS
<1> USE DEF TypedInv
<1>0. /\ TypeOK /\ RunInv
      /\ MaxRows \in Nat /\ MaxRuns \in Nat \ {0} /\ made \in 0..MaxRows
      /\ started \in Seq(Started) /\ Run \in Nat /\ Run = Len(started) /\ Run <= MaxRuns
  BY CommandAssumption DEF TypeOK, Run, Started
<1>s. store \in DocumentType \ {Torn} /\ store.run \in 0..MaxRuns /\ store.rows \in -1..MaxRows
  BY <1>0 DEF TypeOK, DocumentType
<1>c. cut' \in DocumentType \ {Torn}
  BY <1>0, CutTyped
(* The commands that leave the run, its store and its calls alone.         *)
<1>1. CASE EditConfig \/ UNCHANGED vars
  BY <1>0, <1>c, <1>1, SameRun DEF EditConfig, vars, files, local, ledger, TypeOK, Run
<1>2. ASSUME NEW p \in Process,
             \/ StartPreflight(p) \/ OpenMarker(p) \/ FillMarker(p) \/ Refuse(p)
             \/ StartReport(p) \/ Load(p) \/ LoadFails(p) \/ Truncate(p) \/ Fill(p) \/ Kill(p)
      PROVE  TypedInv'
  <2>1. PICK step \in Steps \ Running : At(p, step)
    BY <1>2 DEF StartPreflight, OpenMarker, FillMarker, Refuse, StartReport, Load, LoadFails,
                Truncate, Fill, Kill, Steps, Running
  <2>2. /\ pc' \in [Process -> Steps] /\ pc'[p] = step
        /\ \A q \in Process : q # p => pc'[q] = pc[q]
    BY <1>0, <2>1, Moves
  <2>3. UNCHANGED <<config, store, made, started>>
    BY <1>2 DEF StartPreflight, OpenMarker, FillMarker, Refuse, StartReport, Load, LoadFails,
                Truncate, Fill, Kill, files, local, ledger
  <2>4. RunInv'
    BY <1>0, <2>1, <2>2, <2>3, SameRun
  <2>5. marker' \in Targets \cup {NoMarker, Empty} /\ loaded' \in [Process -> Config]
        /\ passed' \subseteq Config
    BY <1>0, <1>2 DEF StartPreflight, OpenMarker, FillMarker, Refuse, StartReport, Load,
                LoadFails, Truncate, Fill, Kill, files, local, ledger, TypeOK, Config
  <2>6. results' \in DocumentType /\ copy' \in [Process -> DocumentType \ {Torn}]
        /\ attached' \in [Process -> BOOLEAN]
    <3>1. Torn \in DocumentType /\ Absent \in DocumentType \ {Torn}
      BY AbsentIs
    <3>2. CASE Load(p)
      BY <1>0, <3>2 DEF Load, Whole, TypeOK, files
    <3>3. CASE Truncate(p)
      BY <1>0, <3>1, <3>3 DEF Truncate, TypeOK
    <3>4. CASE Fill(p)
      <4>1. results' \in {results, copy[p], Torn}
        BY <3>4 DEF Fill
      <4>2. QED
        BY <1>0, <3>1, <3>4, <4>1 DEF Fill, TypeOK
    <3>5. CASE Kill(p)
      BY <1>0, <3>1, <3>5 DEF Kill, TypeOK, files
    <3>6. CASE \/ StartPreflight(p) \/ OpenMarker(p) \/ FillMarker(p) \/ Refuse(p)
               \/ StartReport(p) \/ LoadFails(p)
      BY <1>0, <3>6 DEF StartPreflight, OpenMarker, FillMarker, Refuse, StartReport, LoadFails,
                        files, local, TypeOK
    <3>7. QED
      BY <1>2, <3>2, <3>3, <3>4, <3>5, <3>6
  <2>7. QED
    BY <1>c, <1>0, <2>2, <2>3, <2>4, <2>5, <2>6 DEF TypeOK, Run, Steps
(* A run begins, and passes the gate.                                      *)
<1>3. ASSUME NEW p \in Process, StartRun(p) PROVE TypedInv'
  <2>1. At(p, "gate") /\ Run < MaxRuns /\ \A q \in Process : pc[q] \notin Running
    BY <1>3 DEF StartRun, Quiet, Running
  <2>2. /\ pc' \in [Process -> Steps] /\ pc'[p] = "gate"
        /\ \A q \in Process : q # p => pc'[q] = pc[q]
    BY <1>0, <2>1, Moves DEF Steps, Running
  <2>3. /\ UNCHANGED <<config, files, store, copy, attached, ledger>>
        /\ loaded' \in [Process -> Config]
    BY <1>0, <1>3 DEF StartRun, TypeOK
  <2>4. RunInv'
    BY <1>0, <2>1, <2>2, <2>3 DEF RunInv, Run, Running, ledger
  <2>5. QED
    BY <1>c, <1>0, <2>2, <2>3, <2>4 DEF TypeOK, Run, Steps, files, ledger
<1>4. ASSUME NEW p \in Process, EnterRun(p) PROVE TypedInv'
  <2> DEFINE new == [config |-> loaded[p], forced |-> ~PreflightPassed(p)]
  <2>1. /\ pc[p] = "gate" /\ At(p, "construct") /\ made' = 0
        /\ started' = Append(started, new)
        /\ UNCHANGED <<config, files, store, local, passed>>
    BY <1>4 DEF EnterRun
  <2>2. /\ pc' \in [Process -> Steps] /\ pc'[p] = "construct"
        /\ \A q \in Process : q # p => pc'[q] = pc[q]
    BY <1>0, <2>1, Moves DEF Steps, Running
  <2>3. new \in Started
    BY <1>0 DEF TypeOK, Started
  <2> HIDE DEF new
  <2>4. started' \in Seq(Started) /\ Run' = Run + 1 /\ Run < MaxRuns
    BY <1>0, <2>1, <2>3 DEF RunInv, Run
  <2>5. \A q \in Process : q # p => pc'[q] \notin Running
    BY <1>0, <2>1, <2>2 DEF RunInv, Running
  <2>6. RunInv'
    BY <1>0, <1>s, <2>1, <2>2, <2>4, <2>5 DEF RunInv, Running
  <2>7. QED
    BY <1>c, <1>0, <2>1, <2>2, <2>4, <2>6 DEF TypeOK, Steps, files, local, Started
(* The store is constructed, takes a row, and is closed.                   *)
<1>5. ASSUME NEW p \in Process, NEW step \in Steps, NEW d \in DocumentType \ {Torn},
             pc[p] \in Running \ {"gate"}, At(p, step), Flush(d), d.run = Run,
             UNCHANGED <<config, marker, loaded, copy, ledger>>,
             step \in Running => step = "loop" /\ Run > 0 /\ ~d.closed /\ d.rows = made
      PROVE  TypedInv'
  <2>1. /\ pc' \in [Process -> Steps] /\ pc'[p] = step
        /\ \A q \in Process : q # p => pc'[q] = pc[q]
    BY <1>0, <1>5, Moves
  <2>2. /\ store' = d /\ store' \in DocumentType \ {Torn} /\ results' \in DocumentType
        /\ attached' \in [Process -> BOOLEAN]
    BY <1>0, <1>5, FlushTyped
  <2>3. \A q \in Process : q # p => pc'[q] \notin Running
    BY <1>0, <1>5, <2>1 DEF RunInv
  <2>4. RunInv'
    BY <1>0, <1>5, <2>1, <2>2, <2>3 DEF RunInv, Run, Running, ledger
  <2>5. QED
    BY <1>c, <1>0, <1>5, <2>1, <2>2, <2>4 DEF TypeOK, Run, Steps, ledger
<1>6. ASSUME NEW p \in Process, Construct(p) PROVE TypedInv'
  <2>1. pc[p] = "construct" /\ At(p, "loop") /\ Flush(Document(Run, 0, FALSE))
        /\ UNCHANGED <<config, marker, loaded, copy, ledger>>
    BY <1>6 DEF Construct
  <2>2. Document(Run, 0, FALSE) \in DocumentType \ {Torn}
    <3>1. Run \in 0..MaxRuns /\ 0 \in 0..MaxRows /\ FALSE \in BOOLEAN
      BY <1>0
    <3>2. QED
      BY <3>1, DocumentIs, Zenon
  <2>3. Run > 0 /\ made = 0
    BY <1>0, <1>s, <2>1 DEF RunInv
  <2> DEFINE d == Document(Run, 0, FALSE)
  <2>4. d.run = Run /\ ~d.closed /\ d.rows = made
    BY <2>3 DEF Document
  <2> HIDE DEF d
  <2>5. QED
    BY <1>5, <2>1, <2>2, <2>3, <2>4 DEF Steps, Running, d
<1>7. ASSUME NEW p \in Process, Call(p) PROVE TypedInv'
  <2>1. /\ pc[p] = "loop" /\ made < MaxRows /\ made' = made + 1 /\ At(p, "called")
        /\ UNCHANGED <<config, files, store, local, started, passed>>
    BY <1>7 DEF Call
  <2>2. /\ pc' \in [Process -> Steps] /\ pc'[p] = "called"
        /\ \A q \in Process : q # p => pc'[q] = pc[q]
    BY <1>0, <2>1, Moves DEF Steps, Running
  <2>3. \A q \in Process : q # p => pc'[q] \notin Running
    BY <1>0, <2>1, <2>2 DEF RunInv, Running
  <2>4. RunInv'
    BY <1>0, <1>s, <2>1, <2>2, <2>3 DEF RunInv, Run, Running
  <2>5. QED
    BY <1>c, <1>0, <2>1, <2>2, <2>4 DEF TypeOK, Run, Steps, files, local
<1>8. ASSUME NEW p \in Process, Record(p) PROVE TypedInv'
  <2> DEFINE d == [store EXCEPT !.rows = store.rows + 1]
  <2>1. pc[p] = "called" /\ At(p, "loop") /\ Flush(d)
        /\ UNCHANGED <<config, marker, loaded, copy, ledger>>
    BY <1>8 DEF Record
  <2>2. store.run = Run /\ Run > 0 /\ ~store.closed /\ store.rows + 1 = made
    BY <1>0, <2>1 DEF RunInv
  <2>3. d \in DocumentType /\ d.run = Run /\ ~d.closed /\ d.rows = made
    BY <1>0, <1>s, <2>2 DEF DocumentType
  <2>4. d # Torn
    BY <1>0, <2>3 DEF Torn, Absent, Document
  <2> HIDE DEF d
  <2>5. QED
    BY <1>5, <2>1, <2>2, <2>3, <2>4 DEF Steps, Running
<1>9. ASSUME NEW p \in Process, Close(p) PROVE TypedInv'
  <2>1. PICK d : /\ At(p, "load") /\ Flush(d)
                 /\ UNCHANGED <<config, marker, loaded, copy, ledger>>
                 /\ \/ pc[p] = "loop" /\ d = [store EXCEPT !.closed = TRUE]
                    \/ pc[p] = "called" /\ \E n \in {0, 1} :
                         d = [store EXCEPT !.closed = TRUE, !.rows = store.rows + n]
    BY <1>9 DEF Close
  <2>2. pc[p] \in Running \ {"gate"} /\ store.run = Run
    BY <1>0, <2>1 DEF RunInv, Running
  <2>3. d \in DocumentType /\ d.run = Run /\ d.closed
    <3>1. pc[p] = "called" => store.rows + 1 = made
      BY <1>0 DEF RunInv
    <3>2. CASE d = [store EXCEPT !.closed = TRUE]
      BY <1>s, <2>2, <3>2 DEF DocumentType
    <3>3. ASSUME NEW n \in {0, 1}, pc[p] = "called",
                 d = [store EXCEPT !.closed = TRUE, !.rows = store.rows + n]
          PROVE  d \in DocumentType /\ d.run = Run /\ d.closed
      <4>1. store.rows + n \in -1..MaxRows
        BY <1>0, <1>s, <3>1, <3>3
      <4>2. QED
        BY <1>s, <2>2, <3>3, <4>1 DEF DocumentType
    <3>4. QED
      BY <2>1, <3>2, <3>3
  <2>4. d # Torn
    BY <2>3 DEF Torn, Absent, Document
  <2>5. QED
    BY <1>5, <2>1, <2>2, <2>3, <2>4 DEF Steps, Running
<1>10. QED
  BY <1>1, <1>2, <1>3, <1>4, <1>6, <1>7, <1>8, <1>9 DEF Next, Command

(* The files and locals of the commands keep their types; in particular no *)
(* store holds more rows than its run made calls, however commands overlap *)
(* or die (cli.py:115-168, reporting.py:246-264).                          *)
THEOREM TypesHold == Spec => []TypeOK
<1>1. Init => TypedInv
  BY InitTyped
<1>2. TypedInv /\ [Next]_vars => TypedInv'
  BY StepTyped
<1>3. TypedInv => TypeOK
  BY DEF TypedInv
<1>4. QED
  BY <1>1, <1>2, <1>3, PTL DEF Spec

-----------------------------------------------------------------------------
(* Commands one after another: what the file and the copies hold between   *)
(* two steps. A torn file has its writer, or was cut.                      *)
Resting == {"idle", "preflight", "marker"}

Alone == \A p, q \in Process : pc[p] \notin Resting /\ pc[q] \notin Resting => p = q

KeepsInv ==
  /\ Alone
  /\ ReadersFindLatest
  /\ cut # Absent => cut = store
  /\ \A p \in Process : /\ pc[p] = "open" => copy[p] = store /\ store # Absent
                        /\ pc[p] = "fill" => /\ copy[p] = store /\ store # Absent
                                            /\ results = Torn /\ attached[p]
                        /\ attached[p]    => pc[p] = "fill"

LEMMA InitKeeps == Init => KeepsInv
BY DEF Init, KeepsInv, ReadersFindLatest, Alone, Resting, Torn, Absent, Document

(* One process moves while the others rest: it alone can be in a command.  *)
LEMMA OneMoves ==
  ASSUME TypeOK, Alone, NEW p \in Process, NEW step \in Steps, At(p, step),
         step \in Resting \/ pc[p] \notin Resting \/ \A q \in Process : pc[q] \in Resting
  PROVE  /\ Alone' /\ pc'[p] = step
         /\ \A q \in Process : q # p => pc'[q] = pc[q]
         /\ step \notin Resting => \A q \in Process : q # p => pc[q] \in Resting
<1>1. pc'[p] = step /\ \A q \in Process : q # p => pc'[q] = pc[q]
  BY Moves
<1>2. QED
  BY <1>1 DEF Alone

LEMMA StepKeeps ==
  ASSUME ~Overlap, TypedInv, TypedInv', KeepsInv, [Next]_vars
  PROVE  KeepsInv'
<1>0. /\ TypeOK /\ store' # Torn /\ Alone /\ copy \in [Process -> DocumentType \ {Torn}]
      /\ attached \in [Process -> BOOLEAN]
  BY DEF TypedInv, TypeOK, KeepsInv
<1> USE DEF KeepsInv, ReadersFindLatest
<1>1. CASE EditConfig \/ UNCHANGED vars
  BY <1>1 DEF EditConfig, vars, files, local, Alone
(* Steps between resting places, and into the file's commands.             *)
<1>2. ASSUME NEW p \in Process, NEW step \in Steps, At(p, step),
             step \in Resting \/ pc[p] \notin Resting \/ \A q \in Process : pc[q] \in Resting,
             pc[p] # "fill", step \notin {"open", "fill"},
             UNCHANGED <<results, store, cut, copy, attached>>
      PROVE  KeepsInv'
  BY <1>0, <1>2, OneMoves
<1>3. ASSUME NEW p \in Process, \/ StartPreflight(p) \/ OpenMarker(p) \/ FillMarker(p)
                                \/ Refuse(p) \/ LoadFails(p)
      PROVE  KeepsInv'
  <2>1. PICK step \in Resting : At(p, step) /\ pc[p] # "fill"
    BY <1>3 DEF StartPreflight, OpenMarker, FillMarker, Refuse, LoadFails, Resting
  <2>2. UNCHANGED <<results, store, cut, copy, attached>>
    BY <1>3 DEF StartPreflight, OpenMarker, FillMarker, Refuse, LoadFails, files, local
  <2>3. QED
    BY <1>2, <2>1, <2>2 DEF Resting, Steps
<1>4. ASSUME NEW p \in Process, StartRun(p) \/ StartReport(p) PROVE KeepsInv'
  <2>1. /\ pc[p] = "idle" /\ \E step \in {"gate", "load"} : At(p, step)
        /\ \A q \in Process : pc[q] \in Resting
        /\ UNCHANGED <<results, store, cut, copy, attached>>
    BY <1>4 DEF StartRun, StartReport, Quiet, Resting, files, local
  <2>2. QED
    BY <1>2, <2>1 DEF Steps, Running
<1>5. ASSUME NEW p \in Process, EnterRun(p) \/ Call(p) PROVE KeepsInv'
  <2>1. /\ pc[p] \in {"gate", "loop"} /\ \E step \in {"construct", "called"} : At(p, step)
        /\ UNCHANGED <<results, store, cut, copy, attached>>
    BY <1>5 DEF EnterRun, Call, files, local
  <2>2. QED
    BY <1>2, <2>1 DEF Steps, Running, Resting
(* A flush renews the file and the store together. *)
<1>6. ASSUME NEW p \in Process, Construct(p) \/ Record(p) \/ Close(p) PROVE KeepsInv'
  <2>1. PICK d : Flush(d)
    BY <1>6 DEF Construct, Record, Close
  <2>2. PICK step \in {"loop", "load"} : At(p, step)
    BY <1>6 DEF Construct, Record, Close
  <2>3. pc[p] \in {"construct", "loop", "called"}
    BY <1>6 DEF Construct, Record, Close
  <2>4. results' = store' /\ cut' = Absent /\ \A q \in Process : ~attached'[q]
    BY <2>1 DEF Flush
  <2>5. /\ Alone' /\ pc'[p] = step /\ \A q \in Process : q # p => pc'[q] = pc[q]
        /\ \A q \in Process : q # p => pc[q] \in Resting
    BY <1>0, <2>2, <2>3, OneMoves DEF Steps, Running, Resting
  <2>6. QED
    BY <1>0, <2>2, <2>4, <2>5 DEF Resting
(* A report loads the file, truncates it and writes its copy back.         *)
<1>7. ASSUME NEW p \in Process, Load(p) PROVE KeepsInv'
  <2>1. /\ pc[p] = "load" /\ Whole(results) /\ At(p, "open") /\ copy' = [copy EXCEPT ![p] = results]
        /\ UNCHANGED <<results, store, cut, attached>>
    BY <1>7 DEF Load, files
  <2>2. /\ Alone' /\ pc'[p] = "open" /\ \A q \in Process : q # p => pc'[q] = pc[q]
        /\ \A q \in Process : q # p => pc[q] \in Resting
    BY <1>0, <2>1, OneMoves DEF Steps, Running, Resting
  <2>3. results = store /\ store # Absent
    BY <2>1 DEF Whole
  <2>4. QED
    BY <1>0, <2>1, <2>2, <2>3 DEF Resting
<1>8. ASSUME NEW p \in Process, Truncate(p) PROVE KeepsInv'
  <2>1. /\ pc[p] = "open" /\ At(p, "fill") /\ results' = Torn
        /\ attached' = [attached EXCEPT ![p] = TRUE] /\ UNCHANGED <<store, cut, copy>>
    BY <1>8 DEF Truncate
  <2>2. /\ Alone' /\ pc'[p] = "fill" /\ \A q \in Process : q # p => pc'[q] = pc[q]
        /\ \A q \in Process : q # p => pc[q] \in Resting
    BY <1>0, <2>1, OneMoves DEF Steps, Running, Resting
  <2>3. QED
    BY <1>0, <2>1, <2>2 DEF Resting
<1>9. ASSUME NEW p \in Process, Fill(p) PROVE KeepsInv'
  <2>1. /\ pc[p] = "fill" /\ At(p, "idle") /\ results' = store /\ UNCHANGED <<store, cut>>
        /\ attached' = [attached EXCEPT ![p] = FALSE] /\ copy' = [copy EXCEPT ![p] = Absent]
    BY <1>9 DEF Fill
  <2>2. /\ Alone' /\ pc'[p] = "idle" /\ \A q \in Process : q # p => pc'[q] = pc[q]
    BY <1>0, <2>1, OneMoves DEF Steps, Running, Resting
  <2>3. \A q \in Process : q # p => pc[q] \in Resting
    BY <1>0, <2>1 DEF Alone, Resting
  <2>4. QED
    BY <1>0, <2>1, <2>2, <2>3 DEF Resting
<1>10. ASSUME NEW p \in Process, Kill(p) PROVE KeepsInv'
  <2>1. /\ At(p, "idle") /\ UNCHANGED <<results, store>>
        /\ cut' = IF attached[p] THEN copy[p] ELSE cut
        /\ attached' = [attached EXCEPT ![p] = FALSE] /\ copy' = [copy EXCEPT ![p] = Absent]
    BY <1>10 DEF Kill, files
  <2>2. /\ Alone' /\ pc'[p] = "idle" /\ \A q \in Process : q # p => pc'[q] = pc[q]
    BY <1>0, <2>1, OneMoves DEF Steps, Running, Resting
  <2>3. QED
    BY <1>0, <2>1, <2>2 DEF Resting
<1>11. QED
  BY <1>1, <1>3, <1>4, <1>5, <1>6, <1>7, <1>8, <1>9, <1>10 DEF Next, Command

LEMMA KeepsAlways ==
  ASSUME ~Overlap
  PROVE  Spec => [](TypedInv /\ KeepsInv)
<1>1. Init => TypedInv /\ KeepsInv
  BY InitTyped, InitKeeps
<1>2. TypedInv /\ KeepsInv /\ [Next]_vars => (TypedInv /\ KeepsInv)'
  BY StepTyped, StepKeeps
<1>3. QED
  BY <1>1, <1>2, PTL DEF Spec

(* Commands one after another, killed anywhere: a results file that parses *)
(* is what the latest run has flushed, and one that does not is a report's *)
(* work, going on or killed (reporting.py:225, 246-264). Commands_overlap  *)
(* shows that the hypothesis is needed, Commands_killed that the second    *)
(* case occurs.                                                            *)
THEOREM LatestIsFound ==
  ASSUME ~Overlap
  PROVE  Spec => []ReadersFindLatest
<1>1. KeepsInv => ReadersFindLatest
  BY DEF KeepsInv
<1>2. QED
  BY <1>1, KeepsAlways, PTL

-----------------------------------------------------------------------------
(* The journal: read through the copy where a report rewrites it, or was   *)
(* killed doing so, the file is always the latest run's store.             *)
LEMMA SeenIsStore ==
  ASSUME TypedInv, KeepsInv
  PROVE  Seen = store
<1>1. CASE \E p \in Process : pc[p] = "fill" /\ attached[p]
  <2> DEFINE p == CHOOSE p \in Process : pc[p] = "fill" /\ attached[p]
  <2>1. p \in Process /\ pc[p] = "fill"
    BY <1>1
  <2>2. copy[p] = store /\ results = Torn
    BY <2>1 DEF KeepsInv
  <2>3. QED
    BY <1>1, <2>2 DEF Seen
<1>2. CASE ~\E p \in Process : pc[p] = "fill" /\ attached[p]
  <2>1. \/ results = store
        \/ results = Torn /\ cut = store
    BY <1>2 DEF KeepsInv, ReadersFindLatest
  <2>2. QED
    BY <1>2, <2>1 DEF Seen, TypedInv, TypeOK
<1>3. QED
  BY <1>1, <1>2

Rows(n) == [i \in 1..n |-> i]

LEMMA RowsGrow ==
  ASSUME NEW n \in Nat
  PROVE  /\ Len(Rows(n)) = n /\ Rows(0) = <<>>
         /\ Journal!ExtendsByOne(Rows(n), Rows(n + 1))
<1>1. Rows(n) \in Seq(Nat) /\ Len(Rows(n)) = n /\ Rows(n + 1) \in Seq(Nat) /\ Len(Rows(n + 1)) = n + 1
  BY DEF Rows
<1>2. \A i \in 1..n : Rows(n + 1)[i] = Rows(n)[i]
  BY DEF Rows
<1>3. Rows(0) = <<>>
  <2>1. Rows(0) \in Seq(Nat) /\ Len(Rows(0)) = 0
    BY DEF Rows
  <2>2. QED
    BY <2>1
<1>4. QED
  BY <1>1, <1>2, <1>3 DEF Journal!ExtendsByOne

(* The journal's file, of any document and of the one that is seen.        *)
Entry(d) ==
  [run    |-> IF d = Absent THEN 0 ELSE d.run + 1,
   rows   |-> [i \in 1..d.rows |-> i],
   status |-> IF d = Absent THEN "absent" ELSE IF d.closed THEN "completed" ELSE "running"]

File == Entry(Seen)

LEMMA JournalInit == Init => Journal!Init
<1> SUFFICES ASSUME Init PROVE Journal!Init
  OBVIOUS
<1>1. Seen = Absent
  BY DEF Init, Seen
<1>2. Run + 1 = 1 /\ made = 0
  BY DEF Init, Run
<1>3. Absent.rows = 0
  BY DEF Absent, Document
<1>4. Rows(0) = <<>>
  BY RowsGrow
<1>5. File = [run |-> 0, rows |-> <<>>, status |-> "absent"]
  BY <1>1, <1>3, <1>4 DEF File, Entry, Rows
<1>6. QED
  BY <1>2, <1>5 DEF Journal!Init, File, Entry

(* Each step of the commands is a step of the journal or leaves it alone.  *)
LEMMA JournalStep ==
  ASSUME TypedInv, Seen = store, Seen' = store', [Next]_vars
  PROVE  Journal!Next \/ UNCHANGED Journal!journal
<1>0. /\ RunInv /\ Run \in Nat /\ made \in Nat /\ store \in DocumentType
      /\ store.run \in Nat /\ store.closed \in BOOLEAN
  BY CommandAssumption DEF TypedInv, TypeOK, DocumentType, Run
<1>1. File = Entry(store)
  BY DEF File
<1>2. File' = Entry(store)'
  BY DEF File, Entry
<1>3. ASSUME UNCHANGED <<store, made, started>> PROVE UNCHANGED Journal!journal
  <2>1. File' = File /\ Run' = Run
    BY <1>1, <1>2, <1>3 DEF Entry, Run
  <2>2. QED
    BY <1>3, <2>1 DEF Journal!journal, File, Entry
<1>4. ASSUME NEW p \in Process, EnterRun(p) PROVE Journal!Next
  <2>1. Run' = Run + 1 /\ made' = 0 /\ UNCHANGED store
    <3>1. PICK new : started' = Append(started, new) /\ made' = 0 /\ UNCHANGED store
      BY <1>4 DEF EnterRun
    <3>2. started \in Seq(Started)
      BY DEF TypedInv, TypeOK, Started
    <3>3. QED
      BY <3>1, <3>2 DEF Run
  <2>2. File' = File
    BY <1>1, <1>2, <2>1 DEF Entry
  <2>3. Journal!Restart
    BY <2>1, <2>2 DEF Journal!Restart, File, Entry
  <2>4. QED
    BY <2>3 DEF Journal!Next
<1>5. ASSUME NEW p \in Process, Construct(p) PROVE Journal!Next
  <2>1. /\ store.run < Run /\ store' = Document(Run, 0, FALSE)
        /\ UNCHANGED <<made, started>> /\ UNCHANGED Run
    BY <1>0, <1>5 DEF Construct, Flush, RunInv, ledger, Run
  <2>2. File.run # Run + 1
    BY <1>0, <1>1, <2>1 DEF Entry
  <2>3. store' # Absent
    BY <1>0, <2>1 DEF Absent, Document
  <2>4. Entry(store)' = [run |-> Run + 1, rows |-> Rows(0), status |-> "running"]
    BY <2>1, <2>3 DEF Entry, Document, Rows
  <2>5. File' = [run |-> Run + 1, rows |-> <<>>, status |-> "running"]
    BY <1>2, <2>4, RowsGrow
  <2>6. Journal!Create
    BY <2>1, <2>2, <2>5 DEF Journal!Create, Journal!Current, File, Entry
  <2>7. QED
    BY <2>6 DEF Journal!Next
(* The running store is open and its rows are counted by its calls.        *)
<1>6. ASSUME NEW p \in Process, pc[p] \in {"loop", "called"}
      PROVE  /\ store.run = Run /\ Run > 0 /\ store # Absent /\ store.rows \in Nat
             /\ File.run = Run + 1 /\ File.status = "running" /\ File.rows = Rows(store.rows)
             /\ Len(File.rows) = store.rows
             /\ pc[p] = "loop" => made = store.rows
             /\ pc[p] = "called" => made = store.rows + 1
  <2>1. store.run = Run /\ Run > 0 /\ ~store.closed
    BY <1>0, <1>6 DEF RunInv
  <2>2. store # Absent
    BY <2>1 DEF Absent, Document
  <2>3. /\ store.rows \in Nat
        /\ pc[p] = "loop" => made = store.rows
        /\ pc[p] = "called" => made = store.rows + 1
    <3>1. CASE pc[p] = "loop"
      BY <1>0, <3>1 DEF RunInv
    <3>2. CASE pc[p] = "called"
      BY <1>0, <3>2 DEF RunInv, DocumentType
    <3>3. QED
      BY <1>6, <3>1, <3>2
  <2>4. File = [run |-> Run + 1, rows |-> Rows(store.rows), status |-> "running"]
    BY <1>1, <2>1, <2>2 DEF Entry, Rows
  <2>5. QED
    BY <2>1, <2>2, <2>3, <2>4, RowsGrow
<1>7. ASSUME NEW p \in Process, Call(p) PROVE Journal!Next
  <2>1. made' = made + 1 /\ UNCHANGED <<store, started>> /\ pc[p] = "loop"
    BY <1>7 DEF Call, files
  <2>2. File' = File /\ Run' = Run
    BY <1>1, <1>2, <2>1 DEF Entry, Run
  <2>3. File.run = Run + 1 /\ File.status = "running" /\ made = Len(File.rows)
    BY <1>6, <2>1
  <2>4. Journal!Call
    BY <2>1, <2>2, <2>3 DEF Journal!Call, Journal!Open, Journal!Current, File, Entry
  <2>5. QED
    BY <2>4 DEF Journal!Next
<1>8. ASSUME NEW p \in Process, Record(p) PROVE Journal!Next
  <2>1. /\ store' = [store EXCEPT !.rows = store.rows + 1] /\ pc[p] = "called"
        /\ UNCHANGED <<made, started>> /\ UNCHANGED Run
    BY <1>8 DEF Record, Flush, ledger, Run
  <2>2. /\ File.run = Run + 1 /\ File.status = "running" /\ made = Len(File.rows) + 1
        /\ File.rows = Rows(store.rows) /\ store.run = Run /\ Run > 0 /\ store.rows \in Nat
    BY <1>6, <2>1
  <2>3. store'.run = Run /\ store'.rows = store.rows + 1 /\ store'.closed = store.closed
    BY <1>0, <2>1, <2>2 DEF DocumentType
  <2>4. store' # Absent /\ ~store.closed
    BY <1>0, <2>1, <2>2, <2>3 DEF Absent, Document, RunInv
  <2>5. Entry(store)' = [run |-> Run + 1, rows |-> Rows(store.rows + 1), status |-> "running"]
    BY <2>3, <2>4 DEF Entry, Rows
  <2>6. File' = [run |-> Run + 1, rows |-> File'.rows, status |-> "running"]
    <3>1. File' = [run |-> Run + 1, rows |-> Rows(store.rows + 1), status |-> "running"]
      BY <1>2, <2>5
    <3>2. QED
      BY <3>1
  <2>7. Journal!ExtendsByOne(File.rows, File'.rows)
    <3>1. Journal!ExtendsByOne(Rows(store.rows), Rows(store.rows + 1))
      BY <2>2, RowsGrow
    <3>2. File'.rows = Rows(store.rows + 1)
      BY <1>2, <2>5
    <3>3. QED
      BY <2>2, <3>1, <3>2
  <2>8. Journal!Record
    BY <2>1, <2>2, <2>6, <2>7 DEF Journal!Record, Journal!Open, Journal!Current, File, Entry
  <2>9. QED
    BY <2>8 DEF Journal!Next
<1>9. ASSUME NEW p \in Process, Close(p) PROVE Journal!Next
  <2> DEFINE Closed(n) == [store EXCEPT !.closed = TRUE, !.rows = store.rows + n]
  <2>1. PICK n \in {0, 1} :
          /\ store' = Closed(n)
          /\ pc[p] \in {"loop", "called"}
          /\ n = 1 => pc[p] = "called"
          /\ UNCHANGED <<made, started>> /\ UNCHANGED Run
    <3>1. PICK d : /\ Flush(d) /\ UNCHANGED ledger
                   /\ \/ pc[p] = "loop" /\ d = [store EXCEPT !.closed = TRUE]
                      \/ pc[p] = "called" /\ \E n \in {0, 1} : d = Closed(n)
      BY <1>9 DEF Close
    <3>2. store' = d /\ UNCHANGED <<made, started>> /\ UNCHANGED Run
      BY <3>1 DEF Flush, ledger, Run
    <3>3. CASE pc[p] = "loop" /\ d = [store EXCEPT !.closed = TRUE]
      <4>1. store.rows + 0 = store.rows
        BY <1>6, <3>3
      <4>2. d = Closed(0)
        BY <1>0, <3>3, <4>1 DEF DocumentType
      <4> HIDE DEF Closed
      <4>3. QED
        BY <3>2, <3>3, <4>2
    <3> HIDE DEF Closed
    <3>4. QED
      BY <3>1, <3>2, <3>3
  <2>2. /\ File.run = Run + 1 /\ File.status = "running"
        /\ n = 1 => made = Len(File.rows) + 1
        /\ File.rows = Rows(store.rows) /\ store.run = Run /\ Run > 0 /\ store.rows \in Nat
    BY <1>6, <2>1
  <2>3. store'.run = Run /\ store'.rows = store.rows + n /\ store'.closed
    BY <1>0, <2>1, <2>2 DEF DocumentType
  <2>4. store' # Absent
    BY <2>2, <2>3 DEF Absent, Document
  <2>5. Entry(store)' = [run |-> Run + 1, rows |-> Rows(store.rows + n), status |-> "completed"]
    BY <2>3, <2>4 DEF Entry, Rows
  <2>6. /\ File' = [run |-> Run + 1, rows |-> File'.rows, status |-> File'.status]
        /\ File'.status = "completed"
    BY <1>2, <2>5
  <2>7. \/ File'.rows = File.rows
        \/ made = Len(File.rows) + 1 /\ Journal!ExtendsByOne(File.rows, File'.rows)
    <3>1. CASE n = 0
      BY <1>2, <2>2, <2>5, <3>1
    <3>2. CASE n = 1
      <4>1. Journal!ExtendsByOne(Rows(store.rows), Rows(store.rows + 1))
        BY <2>2, RowsGrow
      <4>2. File'.rows = Rows(store.rows + 1)
        BY <1>2, <2>5, <3>2
      <4>3. QED
        BY <2>2, <3>2, <4>1, <4>2
    <3>3. QED
      BY <3>1, <3>2
  <2>8. Journal!Close
    BY <2>1, <2>2, <2>6, <2>7
    DEF Journal!Close, Journal!Open, Journal!Current, Journal!ClosedStatus, File, Entry
  <2>9. QED
    BY <2>8 DEF Journal!Next
<1>10. ASSUME NEW p \in Process,
              \/ StartPreflight(p) \/ OpenMarker(p) \/ FillMarker(p) \/ StartRun(p) \/ Refuse(p)
              \/ StartReport(p) \/ Load(p) \/ LoadFails(p) \/ Truncate(p) \/ Fill(p) \/ Kill(p)
       PROVE  UNCHANGED <<store, made, started>>
  BY <1>10 DEF StartPreflight, OpenMarker, FillMarker, StartRun, Refuse, StartReport, Load,
               LoadFails, Truncate, Fill, Kill, files, local, ledger
<1>11. CASE EditConfig \/ UNCHANGED vars
  <2>1. UNCHANGED <<store, made, started>>
    BY <1>11 DEF EditConfig, vars, files, local, ledger
  <2>2. QED
    BY <1>3, <2>1
<1>12. QED
  BY <1>3, <1>4, <1>5, <1>7, <1>8, <1>9, <1>10, <1>11 DEF Next, Command

(* Commands one after another, killed anywhere, implement RunJournal       *)
(* (runner.py:3-8): what a run has put in evidence is not changed by the   *)
(* reports made of it (reporting.py:246-264), nor by a preflight, an edit  *)
(* or a kill, and a torn file was torn over just that.                     *)
THEOREM JournalKept ==
  ASSUME ~Overlap
  PROVE  Spec => JournalSpec
<1>1. Init => Journal!Init
  BY JournalInit
<1>2. TypedInv /\ KeepsInv => TypedInv /\ Seen = store
  BY SeenIsStore
<1>3. /\ TypedInv /\ Seen = store /\ [Next]_vars
      /\ (TypedInv /\ Seen = store)'
      => [Journal!Next]_(Journal!journal)
  BY JournalStep
<1>4. QED
  BY <1>1, <1>2, <1>3, KeepsAlways, PTL DEF Spec, JournalSpec, Journal!Spec
==============================================================================
