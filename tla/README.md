# A TLA+ model of the Genie / supervisor token benchmark harness

The program (`src/src/genie_benchmark`) asks a fixed set of questions to Databricks agents, one at a
time, over up to three invocation paths (*variants*), and keeps one row of evidence per call: status,
identifiers, latency and token counts. A Genie or supervisor call costs money and creates state, so
what matters is that calls are never repeated by accident, never lost from the evidence, and stop
when an authorization, budget or loop signal appears.

## The system

| part | source | state it keeps | operations |
|---|---|---|---|
| Serial orchestrator | `runner.py` `run_benchmark`, `_plan`, `classify_guardrail` | position in the plan, last conversation per (question, variant), `status`, `stop_reason` | build the plan, skip a variant without adapter, open a span, invoke, remember the conversation, stop at a guardrail, the runtime limit or Ctrl-C |
| ResultStore | `runner.py` `ResultStore` | `results`, `RunMetadata`, `benchmark_results.json` and its `.tmp` | construct, `add`, `finalize`, `_flush` |
| Adapter contract | `adapters/base.py` | none | `invoke`: one structured row whatever goes wrong |
| Direct Genie adapter | `adapters/direct_genie.py` | per call: ids, deadline, transient failure count, warnings | start a conversation or post into one, poll to a terminal state, build the row |
| Supervisor, supervisor MCP adapters | `adapters/supervisor*.py` | none | prepare a client (over MCP also discover its tools), one blocking call, normalise the payload |
| Tracing | `tracing.py` | none (the mlflow experiment) | open spans, add up token usage |
| Config, questions | `config.py`, `questions.py`, `models.py` | none | validate, hash the targets |
| CLI | `cli.py` | `preflight.ok` | preflight, run, report, redact, bootstrap |
| Reporting, billing | `reporting.py`, `billing.py` | report files, and the results file again | `generate_reports`, `redact_results_file` |
| Redaction, util | `redaction.py`, `util.py` | none | scrub strings, hash contents |
| Demo bootstrap | `bootstrap/provision.py` | cloud objects: warehouse, catalog, schema, tables, experiment, Genie spaces, agent, endpoint | create or reuse each, wait for the endpoint, tear down |
| Bootstrap settings and emission | `bootstrap/settings.py`, `emit.py` | the emitted config and questions file | validate settings, assemble and merge the config, write |
| Notebook | `notebooks/run_benchmark.py` | none | the same calls from a notebook |

How they interact: the CLI (or the notebook) loads the config and the questions, checks the preflight
marker and calls `run_benchmark` with the adapters it could build. The runner passes each adapter a
`RunContext`, with the conversation to reuse, and hands each row to the store. The store rewrites the
results file through a temporary file and a rename. `report` and `redact` read that file later, or
during the run. Everything is one thread; concurrency comes from outside it: the services that
work on messages, calls and SQL statements whether or not somebody waits, the user's Ctrl-C, kills
and restarts, and a second command on the same directory. The bootstrap produces the config the
other commands load, and keeps no record of what it made: teardown finds things again by title, name
and tag.

### What is hard, and what makes each part correct

* **Evidence** (modelled). A kill between any two steps of a flush, Ctrl-C between an answer, its
  append and its flush, and a rerun in the same directory. Correct: a reader always finds a whole
  document of one run; at most the last call is missing; a closed document is complete.
* **Money** (modelled). A guardrail signal or the runtime limit must stop the run before the next
  call; the request that creates state is sent once. Correct: no call after a signal, at most one
  call over the limit, one post per question.
* **Conversations** (modelled). A follow-up must see its parent's conversation, an independent
  question must not see any; the service still works on messages a timeout abandoned. Correct: the
  conversation of each call, and each row names its own question's message.
* **Polling** (modelled). Transient failures, unknown states, a service that never finishes. Correct:
  exact retry budget, spaced polls, every question returns.
* **Commands on one directory** (modelled). `report` rewrites the results file in place; a config
  edited after preflight. Correct: a results file that parses is what the latest run flushed, and no
  unforced run's targets went without a preflight.
* **Token accounting** (modelled). A trace comes in three shapes, with usage on some spans, on
  wrappers, or above them. Correct: a gap the code has a warning for is warned of, an unwarned sum is
  the whole of what the LLM calls spent and nothing else. Some gaps have no warning: see below.
* **Provisioning** (modelled). Crashes between cloud calls, statements that outlive their command,
  waits that accept the wrong state, teardown that stops half way. Correct: nothing of others is
  touched, a teardown empties the workspace, and no table is loaded twice unless a dead command left an
  INSERT running. That it can be then, and what a failed teardown strands, is below.
* **Emission** (modelled). A validated config merged into a torn or edited one. Correct: the harness
  loads the result, and it names this run's objects.

## Plan

In this order; all of it is modelled, checked and, except for liveness, proved.

1. `BenchmarkRunner` with its abstract specification `RunJournal`; proofs in `BenchmarkRunnerProofs`
   (evidence, guardrails, limit, journal) and `BenchmarkPlanProofs` (plan and conversations).
2. `DirectGenie` with its abstract specification `AgentAdapter`; proofs in `DirectGenieProofs`.
3. `CommandLine`: preflight marker, config edits, `run` and `report` as processes on one output
   directory, over the flushes `RunJournal` abstracts; proofs in `CommandLineProofs`.
4. `TokenUsage` and `SupervisorAdapters`, refining `AgentAdapter` too; proofs in `TokenUsageProofs`
   and `SupervisorAdaptersProofs`.
5. `ConfigRules`: what `parse_config` and `parse_bootstrap_settings` accept.
6. `Bootstrap`: provision, wait, emit and teardown with failures, crashes and reruns; proofs in
   `BootstrapProofs` (provision, the others' objects, the loads, the emitted config) and
   `TeardownProofs` (what a teardown leaves).

## Modules

### BenchmarkRunner (`runner.py`)

`pc` is where `run_benchmark` is. The actions, in the order of the code:

| action | code |
|---|---|
| `Construct` | `ResultStore.__init__`, up to its flush |
| `OpenTmp`, `FillTmp`, `ReplaceFile` | `_flush`: `write_text` opens (truncates) the temporary file and fills it; `replace` renames it. `flushFor` remembers the caller, `AfterFlush` goes on where it goes on |
| `EndOfPlan`, `StopAtDeadline`, `SkipVariant` | the head of the loop: plan exhausted, runtime limit reached, no adapter |
| `Invoke` | the reused conversation, the span (which may record a degradation, once per reason), the call going out |
| `Answer` | `adapter.invoke` returns; the row is only in the local `result` |
| `Add` | `store.add`: append, then flush |
| `Classify` | remember the conversation, break on a guardrail |
| `Finalize` | `store.finalize`: status, reason and counts, then flush |
| `Interrupt` | Ctrl-C anywhere inside the `try` (flushes of `add` included) |
| `Die` | a kill, or an exception nobody catches |
| `Tick`, `Rerun` | time passes; another run on the same directory |

`calls` is the agents' own ledger of this run's calls and is not the program's: it is what the
evidence is compared with. A row keeps its slot in the plan (so its question and variant), its
status, whether a conversation id came back, the guardrail signal families of its error and warnings,
and its completion time; texts, hashes and token counts are left out. A conversation is named by the
slot whose call opened it. `Outcomes` says what each variant's agent can answer.

### RunJournal (the promise of `runner.py:3-8` and `77-78`)

The evidence as an outsider sees it: the run's number, the calls made and the file. `Create`, `Call`,
`Record` and `Close` are its steps, `Restart` another run. `BenchmarkRunner` implements it with
`made <- Len(calls)` and the file's run, rows and status (`JournalSpec`).

### DirectGenie (`adapters/direct_genie.py`)

One `invoke` after another, against an external service. `Post` sends the one state-creating request;
`Accept` is the service taking it, which may happen although the call then fails (`InitialFails`).
`InitialReturns` binds the ids and only then sets the deadline, as the code does. `TimedOut`,
`GetMessage`, `KeepPolling`, `Terminal`, `TransientFailure`, `GetRaises` and `Sleep` are the poll
loop; a terminal answer that comes after the deadline is accepted, since the deadline is read only
before a call. `Work` moves any message of the service at any time, also those the adapter gave up on.
`Result` is `_result`, with the warning that is appended to a list nobody keeps (`RowWarnings`).
The four submitted/asking/executing states are one, unknown states are one, `FAILED` and `CANCELLED`
are one; time is in ticks and the initial call and each poll may take several.

### CommandLine (`cli.py`, `reporting.py`)

Each process runs one command at a time. `StartPreflight`, `OpenMarker` and `FillMarker` are
`preflight` and `run --dry-run`, which write the same marker. `StartRun`, `EnterRun` and `Refuse` are
the gate of `run`: the marker is compared with the hash of the config the process loaded, so a
missing, torn or different marker refuses unless the run is forced at a terminal (`Interactive`).
`Construct`, `Call`, `Record` and `Close` are the run at the level of `RunJournal`: `BenchmarkRunner`
is shown to take these steps, so its flush is one step here. `StartReport`, `Load`, `LoadFails`,
`Truncate` and `Fill` are `generate_reports`, at the end of `run` and for `report`. `attached` says
whether the file a process writes is still the one the name leads to: a run's rename puts another in
its place. `Kill` ends any command; `cut` remembers the copy a report was killed writing, until the
next flush. The journal is read from `Seen`, where such a copy stands for the torn file. A config is its targets (what `config_hash` covers) and its other
settings.

### TokenUsage (`tracing.py`)

Operators only. `UsageFromMapping`, `SpanUsage`, `TraceLevel`, `ChildSum`, `NormalizeTokenUsage` and
`CountCalls` are the functions of those names; the shape of the trace decides what `SpanType` and
`SpanUsage` can see. `SpanType` is the type as `sum_child_span_tokens` reads it: `_span_type` and
`_decode_maybe_json` exist and nothing calls them. A plain span may have no type at all.

### SupervisorAdapters (`adapters/supervisor.py`, `adapters/supervisor_mcp.py`)

One `invoke` after another over either path. `NotConfigured` and `PrepareFails` are what happens
before anything is sent, `Post` the one call, `CallReturns` and `CallRaises` its end, `Answer` the
agent's, which comes or does not come whether or not the adapter still waits. `SupervisorFields` and
`McpFields` are the two normalisations, `Result` the two `_result`. A raise inside the normalisation
is `CallRaises`: like any exception of the call it gives a `FAILED` row. Time is left out, because
the timeout handed to the caller is not used.

### ConfigRules (`config.py`, `bootstrap/settings.py`)

Operators only: a config is a record of the keys it gives, and `ParseConfigAccepts` is the
conjunction of the numbered steps of `parse_config` after `Overridden`, one operator per step.
`SettingsOf` fills a settings file up with the defaults, `SettingsAccepted` is what is refused of it.

### Bootstrap (`bootstrap/provision.py`, `bootstrap/emit.py`)

Commands one after another. `Start` begins a provision or a teardown; `Provision` and `Teardown` list
the steps in the order of the code. `cloud` is the workspace, `disk` the config file and the local
artifacts, `own` the locals of the command. A call the code guards has a second outcome, `Fails`,
after which the command goes on as its handler does; a call it does not guard fails by `Abort`,
which is also a kill and is possible after any step.

| code | actions |
|---|---|
| `resolve_warehouse`, `ensure_catalog_schema` | `ResolveWarehouse`, `EnsureCatalog`, `EnsureSchema` |
| `ensure_tables_and_data`, `run_sql` | `EnsureTable`, `SubmitInsert`, `InsertDone`; `Execute` is the warehouse |
| `ensure_experiment` | `EnsureExperiment` |
| `ensure_genie_spaces`, `create_genie_space` | `CreateProduction`, `CreateMaintenance`: by CLI, then by REST |
| `build_supervisor`, `_wait_endpoint_ready` | `BuildSupervisor`, `CreateTool`, `WaitReady`; `EndpointReady` is the service |
| `build_config_dict`, `write_config`, `write_questions` | `BuildConfig`, `OpenConfig`, `FillConfig`, `WriteQuestions` |
| `_teardown` and its helpers | `ListSpaces` to `RemoveArtifacts` |

`EditConfig` and `UseHarness` are what users do between two commands. A statement is one step, except
the INSERT: it is handed over, and runs although its command died. Short DDL left behind by a dead
command is taken as done or not done at once.

### AgentAdapter (the contract of `adapters/base.py`)

Questions asked, posts sent for the latest, answers returned; an answer comes once asked for.
`DirectGenie` and `SupervisorAdapters` implement it, fairness included (`ContractSpec`). `Safety` is
its part without fairness.

The `MC` modules are the instances TLC runs, the `Proofs` modules hold the theorems; the inductive
invariants they need (`IInv` and its parts) stand at the end of the module they are about, those of
the bootstrap and those that one chapter of proofs alone uses beside the proofs.

An operator named `X_Y` is `X` with the mistake `Y`; nothing uses it. Putting it in the place of `X`
shows that a property notices the mistake.

## Runs

Run TLC in this directory: `tlc -config Runner_evidence.cfg MCBenchmarkRunner`.

| cfg | states | shows |
|---|---|---|
| `Runner_evidence` | 218 thousand | Three variants, one without adapter, two repetitions, a question and its follow-up under a limit of one tick, run twice on one directory, killed or interrupted at any step: `WholeDocument`, `CallsAccountedFor`, `ClosedDocumentComplete`, `GuardrailEndsRun`, `FollowUpContext`, `CompletedMeansWholePlan`, `OneCallOverDeadline`, with fairness `RunCloses`, and the journal is implemented |
| `Runner_interrupt` | violated | `InterruptPreservesAnswers`: see below |
| `Commands_apart` | 339 thousand | Two processes, two runs of two rows, reports, preflights, config edits and kills anywhere, one command on the results file at a time: `UnforcedRunWasPreflighted`, `ReadersFindLatest`, and the directory implements the journal |
| `Commands_overlap` | violated | `FileKeepsRows` when a report overlaps a run: see below |
| `Commands_killed` | violated | `ReadableFileLeft`: see below |
| `Genie_polling` | 561 thousand | Two questions, the second perhaps in the first's conversation: `AnswerIsItsOwn`, `RetryBudget`, `PollsBounded`, `InvokeReturns`, and the adapter contract is implemented |
| `Supervisor_calls` | 84 thousand | Two questions over either path, with and without targets and MCP client, over native traces of up to three typed spans and some serialized ones: `NamedGapsAreWarned`, `UnwarnedTotalIsWhole`, and the adapter contract is implemented |
| `Supervisor_trace` | violated | `LlmUsageIsSummed` with types kept in attributes or not given, and with serialized traces: see below |
| `Bootstrap_reruns` | 699 thousand | Three commands over four settings files and three workspaces, one failure or death anywhere, edits and harness runs between: `SharedUntouched`, `TeardownRemovesEverything`, `ConfigIsThisRuns`, `EmittedConfigLoads`, `LoadsAreAccounted`, `BootstrapEnds` |
| `Bootstrap_catalog` | violated | `SharedUntouched` when the catalog was there before: see below |
| `Bootstrap_stranded` | violated | `NothingStranded`: see below |
| `Bootstrap_loads` | violated | `TablesLoadOnce`: see below |

**Bounds.** `MaxRuns = 2`: a rerun meets a file left by every way a run can end, and the third run
would meet nothing new because `Rerun` resets everything but the file. `MaxTime` stops the clock: one
tick past the limit, so that both "at" and "after" the deadline occur; for Genie, two ticks past the
timeout, so that a late answer occurs. Two questions, one a follow-up, and two
repetitions give a follow-up whose parent completed, timed out, or completed in one repetition only.
One retry (`MaxRetries = 1`) with three polls lets failures be consecutive, separated and exhausted.
`MaxInvokes = 2` lets an abandoned message and a new one share a conversation.
For the commands, two processes are a run and a report, or two preflights; two targets let a marker
be for another config; two rows let a report fall between them. `Overlap` is an
assumption on the use, not on the code: `Commands_overlap` shows what an overlap does. `KillWriting`
is FALSE only there, so that the overlap alone is to blame; `Commands_apart` has kills everywhere,
and `Commands_killed` shows what one inside a report's write leaves. The
processes are interchangeable, so `SYMMETRY` is used; no liveness is checked in those runs.
`Settings` has one value there: nothing these runs check tells settings apart.
For the supervisor paths, two questions let an abandoned call be answered beside the next one, and
three spans are a wrapper, an LLM call and a tool, or two LLM calls of which one tells nothing.
For the bootstrap, three commands are a provision, what it left behind met by a second command, and
a teardown; two tables let a command die between them. One fault (`MaxFaults`) may fall at any step
of any of them; two commands with two faults pass as well (352 thousand states), and
`Bootstrap_stranded` shows that one is enough to break what is not promised to hold.
The three environments say nothing, override a target, or name a profile; the edits are a harmless
one and one that a profile contradicts.
`Adopts` is an assumption on the workspace: `Bootstrap_catalog` shows what happens without it.

**Fairness.** `FairSpec` is weakly fair on `Program`, the process's own steps with the agents'
answers: the process keeps running and an agent call returns. It is not fair on `Interrupt`, `Die`,
`Tick` or `Rerun`. `DirectGenie`'s `Spec` is weakly fair on the adapter's steps: each client call
returns or raises, because the SDK below has timeouts of its own; the service is not fair, so a
message may never finish, and the deadline alone makes `InvokeReturns` true. `SupervisorAdapters` is
fair in the same way. `Bootstrap` is weakly fair on the command, which is one thread that never waits
for a user, and on `Execute`: `run_sql` has no deadline, so `BootstrapEnds` rests on a workspace that
finishes its statements. It is not fair on `EndpointReady`; the wait has a deadline.
Deadlock is not checked: the harness ends, after its last run or its last question.

**Disagreements found.**

* `Runner_interrupt`: Ctrl-C after the agent answered and before `store.add` (`runner.py:231-236`)
  loses that row from a document closed as interrupted, while `runner.py:248` tells the user that
  completed results were preserved.
* `Commands_overlap`: `report` writes the copy it loaded back over the results file
  (`reporting.py:225`), so rows flushed in between are lost, and the run's own report can fail on the
  truncated file; `README.md:95` says to use it at any time.
* `Commands_killed`: the same rewrite, also at the end of every `run`, truncates the file first, so a
  kill in between leaves one that is not JSON, while `runner.py:77-78` promises a valid document at
  all times, and "a readable, report-able file" after an interruption.
* `Supervisor_trace`: `sum_child_span_tokens` does not see types kept in attributes, so a wrapper
  span is counted beside its LLM spans, and sees no usage in serialized traces (`tracing.py:161`,
  `136-146`); `tracing.py:52-57` describes both shapes and says to accept them.
* `Bootstrap_catalog`: teardown drops the catalog, CASCADE, whenever `catalog.create` is set
  (`provision.py:631`), also one that `CREATE CATALOG IF NOT EXISTS` found; `provision.py:625` says
  "if we created it".
* `Bootstrap_stranded`: when DROP SCHEMA fails, the created warehouse is deleted all the same, and no
  later teardown has a warehouse to drop the schema with (`provision.py:634-641`), although it ends
  with "the environment is clean"; `provision.py:599-602` promises that one failure never strands
  the rest.
* `Bootstrap_loads`: an INSERT goes on when its command dies, and `COUNT` (`provision.py:234`) does
  not see it; the next command may send it again, and the table holds its rows twice, although
  `provision.py:3` calls the provisioner idempotent.

More were met while modelling and have no run; most are notes of the hazards. Several show in a single
call, where a unit test is the better place:

* `direct_genie.py:272` appends the missing-trace warning to a fresh list when there are no warnings
  yet, and a completed MCP row never has a trace id nor a warning of it (`supervisor_mcp.py:111-119`);
  `adapters/base.py:53-54` asks for both.
* Where one of input and output count is given, the total is made of it alone (`tracing.py:107-109`)
  and no warning says so; `tracing.py:196-197` says that warnings flag missing data.
* Genie rows of a timeout or a failed poll lose the ids the initial call returned
  (`direct_genie.py:154`, `base.py:51`).
* `NOT_READY` ends in `READY` (`provision.py:503`), so the wait for a new endpoint ends at its first
  poll.
* An endpoint is found through its agent, which goes first (`provision.py:361-381`): when its own
  deletion fails, no later teardown finds it.
* `config_hash` covers the targets only, where `README.md:92` says "this exact config".
* A config with `use_default_auth` added by hand is rejected once a rerun merges a profile into it, or
  where the environment names one, while `emit.py:4` says the bootstrap "can never produce a config the
  harness would reject". `EmittedConfigLoads` names this exception.
* A merge keeps the keys a run does not emit, such as the id of an experiment that was deleted since
  (`emit.py:74`).

## Proofs

Every theorem holds for every value of the constants that satisfies the module's named assumption,
which says what the loaders in the code validate or the types of the instance. TLC checked the
inductive invariants of the runner, the adapters and the bootstrap as invariants on the
instances of the runs before they were proved. `tlapm M.tla` checks module `M`.

**`BenchmarkRunnerProofs`**: any questions, follow-up relation, variants, adapters, repetitions and
limits, any set of outcomes, any number of runs, kills and interrupts. The assumptions are what
`questions.py` and `config.py` validate (positive counts, `follow_up_to` a known id).

1. `TypeCorrect`: `TypeOK` is not inductive alone: `Answer` needs the cursor inside the plan and a
   call outstanding, `Add` a real row. `LocalInv` says so by program counter. `DivBound` and
   `PlanType` show that the plan's div/mod enumeration stays inside the questions and the variants.
2. `StoreInv`: whose the file is and whether it is open, by program counter; the temporary file is
   the store's payload when it is renamed. From it `FileIsWhole`.
3. `LedgerInv`: results follow the calls and the file follows the results, each at most one behind
   and not both. From it `EveryCallAccounted`.
4. `GuardrailInv`: rows are clean until the last one, and the verdict is that row's. From it
   `GuardrailIsFinal`.
5. `ClosedIsComplete`: a closed document of the current run exists only at `pc = "done"`
   (`ClosedMeansDone`), where the file is the payload.
6. `JournalImplemented`: every step is a step of `RunJournal` or leaves its variables alone, from 2
   and 3: only `ReplaceFile`, `Invoke` and `Rerun` are visible.
7. `OverrunIsOneCall`: completion times never run ahead of the clock, and a call goes out only while
   every row is within the limit (`DeadlineInv`).

**`BenchmarkPlanProofs`**, on top of these. `PlanFollowed`: the calls go through the plan in its
order and every slot behind the cursor with an adapter has its row (`ProgressInv`).
`FollowUpsInContext`: the remembered conversation of a (question, variant) is that of its latest row
that kept one (`MemoryInv`), and rows added after a call change none of the rows it looked at, since
their slots come later. `CompletedIsWhole`: at the end of a completed run `ProgressInv` makes rows and
slots a bijection, and the slots of a question and variant are counted as repetitions times
occurrences of the variant. This one needs question ids to be distinct (`questions.py:58-59`): with
two questions of one id the counts would add up.

**`DirectGenieProofs`**: any number of questions, timeout, poll interval and retry budget, any
behaviour of the service. `TypeOK` is proved together with three parts. `LedgerInv`: the ids in hand
are those of the message this question's post created. `RetryInv`: `transient` is the length of the
run of failures the polls end with. `SpacingInv`: each poll so far has cost one interval since polling
began. With `AnswerIsItsOwn` itself they are inductive (`Inductive`), and give `AnswersAreOwn`,
`RetriesExact` and `PollsSpaced`. `ContractKept` is the refinement of `AgentAdapter!Safety`, step by
step; its fairness is not proved.

**`CommandLineProofs`**: any number of processes. `GateHolds` and `TypesHold` allow any overlap and any
kill. `GateInv` adds that a marker that parses was written for a config some preflight validated;
entering a run unforced then gives the property (`EnterGate`). `RunInv` says that one process runs
and how its row count stands to the store's. `LatestIsFound` and
`JournalKept` assume `~Overlap`, and allow any kill: `KeepsInv` says that every copy being written is
the store, and that a torn file is a report's work, going on or cut. So `Seen`, what the journal is
read from, is the store at all times (`SeenIsStore`).

**`TokenUsageProofs`**: traces of any length. `ChildSum` adds up with a recursive function of the
community modules, and the library's induction rules cannot be instantiated here, so the lemmas pick
a least counterexample (`Least`): the table of partial sums exists (`TableExists`), is what the
function gives (`TableRow`), and adds up the counted spans (`SumIsCount`). The lemma
`TokensNormalized` unfolds what `normalize_token_usage` returns of it, for the theorems about the
adapters' rows.

**`SupervisorAdaptersProofs`**: any questions, targets and payloads. `LedgerInv` and `RowInv` say that
each row is what `Result` makes of the answer to its own post. `NamedGapsWarned` and `UnwarnedIsWhole`
follow with `TokensNormalized`, and assume `TypesAreRead`: no payload keeps its span types in
attributes, or leaves a plain span without one. Those are the shapes of the finding
`Supervisor_trace`, where neither is to be had. The gaps the code has no warning for
are not claimed. Serialized traces are
covered: nothing is counted there, and the missing total is warned of. `ContractKept` as for Genie.

**`BootstrapProofs`**: any settings files, workspaces, tables, number of commands and faults. The
invariant (`IInv`) has these parts, in the order they rest on each other:

1. `ShapeInv`: types; no schema without a catalog.
2. `ObjectInv`: what a bootstrap makes has an id above 100, also the ids still in a teardown's hands.
   `OthersInv`: what was there before has an id below, and is there. So no step that removes by id
   meets another's object: `SharedKept`. It assumes `~Adopts`, that the catalog to be created was not
   there before; `Bootstrap_catalog` shows that it fails otherwise.
3. `SpacesInv`, `AgentInv`: the spaces, the agent with its tools and the endpoint which the later steps
   of a provision name were made by it and exist. An agent never has more than two tools, which the
   type of `cloud` needs.
4. `ConfigInv`: the config built (`DictNames`), and so the one merged into any old file
   (`MergedNames`), names them. With 3: `ConfigNamesThisRun`.
5. `LoadInv`: rows loaded, INSERTs under way and the INSERT about to be sent add up to at most one more
   than the INSERTs dead commands left (`Balanced`), and tables passed are loaded: `LoadsAccounted`. It
   allows the double load of `Bootstrap_loads`, and no other.
6. Beside `IInv`, `LoadableInv`: the config in hand has only keys `build_config_dict` emits, among
   them all that `RequiredGiven` asks for, and a whole file is `Sound`: it passes the rules that do
   not look at targets or profiles (credentials, `Guardrails`, the trace destination). Merging keeps
   this, since no emitted key and no environment override touches a key those rules read (`SoundKept`,
   `OverridesSpare`). With 4, `EmittedLoads`: every environment loads what a provision leaves, the
   exception named in `EmittedConfigLoads` apart. It assumes that no edit breaks those rules by itself
   or takes back the permission for a concurrency given earlier (`HarmlessEdit`): the bootstrap keeps
   every key it does not emit, so it cannot mend such an edit, and the theorem is false without this.

**`TeardownProofs`**, on top of these. Each step is classed by `StepClean`: it meets no failure
(`Quiet`), fails and says so (`Failed`), or begins or ends a command (`Elsewhere`).

1. `EverInv` holds whatever failed: there are no warehouses but those found and those tagged, none is
   tagged when one is pinned, and a bootstrap without a supervisor has no agent. The last is why a
   teardown that skips the agents leaves none.
2. `CleanInv` says of a command without failures what is gone by each step: a listed space or agent
   is still to do or removed, then no space, no agent, no experiment, no schema before the catalog, no
   schema or catalog, no tagged warehouse, no config. Only one step of a teardown skips something
   without failing: it finds no warehouse, and schema and catalog stay.
3. `FaultlessInv` says that this skip harms nothing while no command has failed: every endpoint has
   its agent, and where a bootstrap made a schema or a catalog there is a warehouse, because
   `ResolveWarehouse` comes first and `DeleteWarehouses` after both drops. `Bootstrap_stranded` shows
   that one failure breaks it.

`TeardownClears`, what a clean teardown has removed, needs no hypothesis. `TeardownEmpties` adds that
the workspace is as it was found when nothing failed before, and assumes `~Adopts`: where the catalog
was there at first, a teardown drops it, or finds no warehouse and leaves it.

**Model-checked only.** The safety invariants of the passing runs are all theorems, under the
hypotheses named above, and so are both refinements of the journal. What the prover cannot reach is
liveness: `RunCloses`, `InvokeReturns`, `BootstrapEnds`, and the fairness in `ContractSpec`, whose
safety part is proved.

## Not modelled

* Two bootstraps at the same time, or in one workspace: teardown deletes every warehouse with the tag
  and every space with the title, another bootstrap's too. The model has one, and others' objects
  carry neither.
* What the workspace may hold or say otherwise: a schema or experiment of the demo's names that was
  there before the first bootstrap, an agent listed without its endpoint's name
  (`provision.py:373-374` skips the endpoint then), a statement that is `CLOSED`.
* A settings file or a profile that changes between two bootstraps: they are fixed for a behaviour.
  `warehouse.create_if_missing: false` without a warehouse is an `Abort`, like any exception there.
* The notebook: widgets and display around the same calls, on one output directory, cell by cell.
* Question file validation: a pure check of one file; `BenchmarkRunner` assumes what it establishes.
* Redaction's regular expressions, hashes, report layout, cost estimate and SQL text, and the demo's
  data tables: data without steps.
* The SDK, mlflow and the MCP client, except as far as the harness depends on them; the setup of
  tracing (`configure_mlflow_tracing`) only as the degradations a run records.

`PROJECT.json` lists every part and every hazard known,
with the property that watches it or the reason there is none yet.
