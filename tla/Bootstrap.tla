------------------------------- MODULE Bootstrap -------------------------------
(***************************************************************************)
(* bootstrap/provision.py and bootstrap/emit.py: commands that provision   *)
(* the demo (run_bootstrap) and tear it down (_teardown), one after the    *)
(* other, against a workspace (external) and a local directory.            *)
(*                                                                         *)
(* Every call to the workspace and every write to the directory is a step. *)
(* A step can fail, and the command can die after any of them, by a kill   *)
(* or an exception nobody catches. An INSERT handed to the workspace goes  *)
(* on without the command that sent it. Objects are numbered as they come  *)
(* to exist; 0 is None. Titles are the kinds of object, and texts, DDL and *)
(* logs are left out. An operator X_Y is X with a plausible mistake, Y, in *)
(* it; no definition uses one.                                             *)
(***************************************************************************)
EXTENDS ConfigRules, Sequences

CONSTANTS
  Inputs,         (* bootstrap settings files                              *)
  Profiles,       (* --profile, or 0 for none                              *)
  Envs,           (* environments the harness is started in                *)
  UserKeys,       (* what users add to the config by hand                  *)
  Workspaces,     (* sets of warehouses that may be there at first         *)
  Adopts,         (* does the catalog exist before the first bootstrap     *)
  Tables,         (* ORDERED_TABLES                                        *)
  MaxRuns,        (* bound: commands started                               *)
  MaxFaults,      (* bound: calls that fail and commands that die          *)
  MaxPolls        (* polls that fit the wait for the endpoint              *)

ASSUME BootstrapAssumption ==
  /\ \A w \in UNION Workspaces :
       w \in [id: 1..100, serverless: BOOLEAN, managed: BOOLEAN] /\ ~w.managed
  /\ Adopts \in BOOLEAN
  /\ Tables \in Seq(STRING) /\ Tables # <<>>
  /\ {MaxRuns, MaxFaults, MaxPolls} \subseteq Nat

VARIABLES
  settings,     (* SettingsOf the file, and the profile                    *)
  cloud,        (* the workspace                                           *)
  disk,         (* config file and other local artifacts                   *)
  pc,           (* where the command is; "idle" between commands           *)
  own,          (* its locals, until they are not used any more            *)
  outcome,      (* how the latest command ended                            *)
  history       (* commands, faults, INSERTs left behind per table, and    *)
                (* the warehouses found before the first command           *)

vars == <<settings, cloud, disk, pc, own, outcome, history>>

None    == 0
Absent  == -1                       (* loads of a table that does not exist *)
Empty   == [key \in {} |-> None]     (* a config without keys               *)

TableSet == {Tables[i] : i \in DOMAIN Tables}
NoTables == [t \in TableSet |-> Absent]

Fresh == [clean |-> TRUE, warehouse |-> None, table |-> 1, fallback |-> FALSE,
          production |-> None, maintenance |-> None, agent |-> None, target |-> None,
          experiment |-> None, polls |-> 0, confirmed |-> FALSE, todo |-> {},
          output |-> "outputs", config |-> Empty]

Ids(items) == {item.id : item \in items}

(* A pinned warehouse exists; 1 and 2 are a space and an agent of others.  *)
Init ==
  /\ settings \in {Updated(SettingsOf(raw), [profile |-> p]) :
                     raw \in {r \in Inputs : SettingsAccepted(r)}, p \in Profiles}
  /\ \E found \in Workspaces :
       /\ settings.reuse \in Ids(found) \cup {None}
       /\ history = [runs |-> 0, faults |-> 0, left |-> [t \in TableSet |-> 0], found |-> found]
  /\ LET exists == Adopts \/ ~settings.create
     IN cloud = [made |-> 100, warehouses |-> history.found, catalog |-> exists,
                 schemas |-> IF exists THEN {"other"} ELSE {},
                 loads |-> NoTables, inserts |-> {}, experiment |-> None,
                 spaces |-> {[id |-> 1, title |-> "other"]},
                 agents |-> {[id |-> 2, name |-> "other", tools |-> {}]},
                 endpoints |-> {[id |-> 2, state |-> "READY"]}]
  /\ disk = [state |-> "absent", config |-> Empty, artifacts |-> {}]
  /\ pc = "idle"
  /\ own = Fresh
  /\ outcome = "none"

-----------------------------------------------------------------------------
(* A step of the command that works, and one that fails and is caught.     *)
Works(next, locals, world) ==
  /\ pc' = next
  /\ own' = locals
  /\ cloud' = world
  /\ UNCHANGED <<settings, disk, outcome, history>>

Fails(next, locals, world) ==
  /\ history.faults < MaxFaults
  /\ history' = [history EXCEPT !.faults = @ + 1]
  /\ pc' = next
  /\ own' = [locals EXCEPT !.clean = FALSE]
  /\ cloud' = world
  /\ UNCHANGED <<settings, disk, outcome>>

Writes(next, locals, files) ==
  /\ pc' = next
  /\ own' = locals
  /\ disk' = files
  /\ UNCHANGED <<settings, cloud, outcome, history>>

NewId == cloud.made + 1
With(field, item) == [[cloud EXCEPT !.made = NewId] EXCEPT ![field] = @ \cup {item}]
Without(field, items) == [cloud EXCEPT ![field] = @ \ items]

Serverless == {w \in cloud.warehouses : w.serverless}
Managed    == {w \in cloud.warehouses : w.managed}

-----------------------------------------------------------------------------
(* run_bootstrap *)

Start ==
  /\ pc = "idle"
  /\ history.runs < MaxRuns
  /\ history' = [history EXCEPT !.runs = @ + 1]
  /\ own' = Fresh
  /\ outcome' = "none"
  /\ pc' \in {"warehouse", "list_spaces"}     (* provision, --teardown *)
  /\ UNCHANGED <<settings, cloud, disk>>

(* resolve_warehouse: the pinned one, a serverless one, or a new one.      *)
ResolveWarehouse ==
  LET new == [id |-> NewId, serverless |-> TRUE, managed |-> TRUE]
      Uses(id) == [own EXCEPT !.warehouse = id]
  IN /\ pc = "warehouse"
     /\ \/ settings.reuse # None /\ Works("catalog", Uses(settings.reuse), cloud)
        \/ settings.reuse = None
             /\ \E w \in Serverless : Works("catalog", Uses(w.id), cloud)
        \/ settings.reuse = None /\ Serverless = {}
             /\ Works("catalog", Uses(NewId), With("warehouses", new))

(* ensure_catalog_schema *)
EnsureCatalog ==
  /\ pc = "catalog"
  /\ Works("schema", own, [cloud EXCEPT !.catalog = @ \/ settings.create])

EnsureSchema ==
  /\ pc = "schema"
  /\ cloud.catalog
  /\ Works("table", own, [cloud EXCEPT !.schemas = @ \cup {"demo"}])

(* ensure_tables_and_data: CREATE TABLE IF NOT EXISTS and COUNT, then the  *)
(* INSERT of a table without rows, which is waited for without a deadline. *)
Table == Tables[own.table]
Mine(t) == [table |-> t, run |-> history.runs]
AfterTable == IF own.table = Len(Tables) THEN "experiment" ELSE "table"
NextTable == [own EXCEPT !.table = IF @ = Len(Tables) THEN @ ELSE @ + 1]

EnsureTable_AlwaysLoads ==
  /\ pc = "table"
  /\ "demo" \in cloud.schemas
  /\ Works("insert", own, [cloud EXCEPT !.loads[Table] = IF @ = Absent THEN 0 ELSE @])

EnsureTable ==
  /\ pc = "table"
  /\ "demo" \in cloud.schemas
  /\ IF cloud.loads[Table] > 0 THEN Works(AfterTable, NextTable, cloud)
     ELSE Works("insert", own, [cloud EXCEPT !.loads[Table] = 0])

SubmitInsert ==
  /\ pc = "insert"
  /\ Works("loading", own, [cloud EXCEPT !.inserts = @ \cup {Mine(Table)}])

InsertDone ==
  /\ pc = "loading"
  /\ Mine(Table) \notin cloud.inserts
  /\ Works(AfterTable, NextTable, cloud)

(* ensure_experiment: reuse, create, or go on without.                     *)
EnsureExperiment ==
  LET id == IF cloud.experiment # None THEN cloud.experiment ELSE NewId
  IN /\ pc = "experiment"
     /\ \/ Works("production", [own EXCEPT !.experiment = id],
                 [cloud EXCEPT !.experiment = id, !.made = IF @ < id THEN id ELSE @])
        \/ Fails("production", own, cloud)

(* create_genie_space, for each of the two spaces: by CLI, and when that   *)
(* fails (before or after the space came to be) by REST. Never reused.     *)
CreateSpace(title, next) ==
  LET created == With("spaces", [id |-> NewId, title |-> title])
      got     == [[own EXCEPT !.fallback = FALSE] EXCEPT ![title] = NewId]
  IN /\ pc = title
     /\ \/ Works(next, got, created)
        \/ ~own.fallback /\ \E world \in {cloud, created} :
                              Fails(title, [own EXCEPT !.fallback = TRUE], world)

CreateProduction  == CreateSpace("production", "maintenance")
CreateMaintenance == CreateSpace("maintenance", IF settings.build THEN "agent" ELSE "emit")

(* build_supervisor: without its CLI, or after a response it does not      *)
(* understand, the bootstrap goes on without a target.                     *)
BuildSupervisor ==
  LET new == [id |-> NewId, name |-> "mine", tools |-> {}]
      created == [With("agents", new) EXCEPT !.endpoints = @ \cup {[id |-> NewId, state |-> "NOT_READY"]}]
  IN /\ pc = "agent"
     /\ \/ Works("tools", [own EXCEPT !.agent = NewId], created)
        \/ \E world \in {cloud, created} : Fails("emit", own, world)

CreateTool ==
  LET agent == CHOOSE a \in cloud.agents : a.id = own.agent
      space == IF agent.tools = {} THEN own.production ELSE own.maintenance
  IN /\ pc = "tools"
     /\ \E a \in cloud.agents : a.id = own.agent
     /\ Works(IF agent.tools = {} THEN "tools" ELSE "ready", own,
              [cloud EXCEPT !.agents = (@ \ {agent}) \cup {[agent EXCEPT !.tools = @ \cup {space}]}])

(* _wait_endpoint_ready: a poll that sees a state whose name ends in READY *)
(* is enough, and so is the deadline; a poll that raises is repeated.      *)
EndsInReady(state) == state \in {"READY", "NOT_READY"}

Target(wait) == [wait EXCEPT !.target = own.agent]

WaitReady_DeadlineRestarts ==
  /\ pc = "ready"
  /\ \/ \E e \in cloud.endpoints : e.id = own.agent /\ EndsInReady(e.state)
          /\ Works("emit", Target([own EXCEPT !.confirmed = TRUE]), cloud)
     \/ Works("ready", [own EXCEPT !.polls = IF @ < MaxPolls THEN @ + 1 ELSE 0], cloud)

WaitReady ==
  /\ pc = "ready"
  /\ \/ \E e \in cloud.endpoints : e.id = own.agent /\ EndsInReady(e.state)
          /\ Works("emit", Target([own EXCEPT !.confirmed = TRUE]), cloud)
     \/ own.polls < MaxPolls /\ Works("ready", [own EXCEPT !.polls = @ + 1], cloud)
     \/ own.polls = MaxPolls /\ Works("emit", Target(own), cloud)

-----------------------------------------------------------------------------
(* build_config_dict: the variants that got a target, and only what they   *)
(* need; parse_config checks it in the environment of the bootstrap.       *)
EmittedVariants ==
  IF own.target = None THEN settings.variants \ {"supervisor"} ELSE settings.variants

ConfigDict(variants) ==
  LET For(variant, id) == IF variant \in variants THEN id ELSE None
      optional == [databricks_profile |-> settings.profile, experiment_id |-> own.experiment,
                   supervisor_target |-> For("supervisor", own.target),
                   mcp_target |-> For("supervisor_mcp", own.production)]
      given == {key \in DOMAIN optional : optional[key] # None}
  IN Updated([workspace_host |-> 1, genie_space_id |-> own.production, variants |-> variants,
              questions_file |-> 1], [key \in given |-> optional[key]])

BuildConfig_KeepsVariants ==
  /\ pc = "emit"
  /\ Works("open", [own EXCEPT !.config = ConfigDict(settings.variants)], cloud)

BuildConfig ==
  LET config == ConfigDict(EmittedVariants)
  IN /\ pc = "emit"
     /\ \E env \in Envs :
          \/ ParseConfigAccepts(config, env) /\ Works("open", [own EXCEPT !.config = config], cloud)
          \/ /\ ~ParseConfigAccepts(config, env)      (* ConfigError ends the command *)
             /\ pc' = "idle" /\ outcome' = "rejected" /\ own' = Fresh
             /\ UNCHANGED <<settings, cloud, disk, history>>

(* write_config: what is new is merged into what a whole file has; the     *)
(* file is truncated, then filled.                                         *)
Merged_OldWins(old, new) == Updated(new, old)
Merged(old, new) == Updated(old, new)

OpenConfig_InPlace ==
  /\ pc = "open"
  /\ Writes("fill", own, [disk EXCEPT !.state = "torn"])

OpenConfig ==
  /\ pc = "open"
  /\ Writes("fill",
            [own EXCEPT !.config = IF disk.state = "whole" THEN Merged(disk.config, @) ELSE @],
            [disk EXCEPT !.state = "torn", !.config = Empty])

FillConfig ==
  /\ pc = "fill"
  /\ Writes("questions", [own EXCEPT !.config = Empty],
            [disk EXCEPT !.state = "whole", !.config = own.config])

WriteQuestions ==
  /\ pc = "questions"
  /\ disk' = [disk EXCEPT !.artifacts = @ \cup {"questions"}]
  /\ pc' = "idle"
  /\ outcome' = "provisioned"
  /\ UNCHANGED <<settings, cloud, own, history>>

-----------------------------------------------------------------------------
(* _teardown *)

Titled == {s \in cloud.spaces : s.title \in {"production", "maintenance"}}
Named  == {a \in cloud.agents : a.name = "mine"}
Todo(ids) == [own EXCEPT !.todo = ids]

(* Genie spaces by title: the first failure leaves the others.             *)
AfterSpaces == IF settings.build THEN "list_agents" ELSE "delete_experiment"

ListSpaces_ProductionOnly ==
  /\ pc = "list_spaces"
  /\ Works("trash", Todo(Ids({s \in cloud.spaces : s.title = "production"})), cloud)

ListSpaces ==
  /\ pc = "list_spaces"
  /\ \/ Works("trash", Todo(Ids(Titled)), cloud)
     \/ Fails(AfterSpaces, own, cloud)

TrashSpace ==
  /\ pc = "trash"
  /\ \/ own.todo = {} /\ Works(AfterSpaces, own, cloud)
     \/ \E id \in own.todo :
          \/ Works("trash", Todo(own.todo \ {id}),
                   Without("spaces", {s \in cloud.spaces : s.id = id}))
          \/ Fails(AfterSpaces, Todo({}), cloud)

(* delete_supervisor: the agents by display name, each with its endpoint,  *)
(* which the workspace may or may not have deleted with the agent.         *)
ListAgents ==
  /\ pc = "list_agents"
  /\ \/ Works("delete_agents", Todo(Ids(Named)), cloud)
     \/ Fails("delete_experiment", own, cloud)

Endpoints(id) == {e \in cloud.endpoints : e.id = id}

DeleteAgent ==
  /\ pc = "delete_agents"
  /\ \/ own.todo = {} /\ Works("delete_experiment", own, cloud)
     \/ \E id \in own.todo :
          LET gone == Without("agents", {a \in cloud.agents : a.id = id})
              next == [Todo(own.todo \ {id}) EXCEPT !.agent = id]
          IN \/ \E e \in {{}, Endpoints(id)} :
                  Works("delete_endpoint", next, [gone EXCEPT !.endpoints = @ \ e])
             \/ Fails("delete_agents", next, cloud)

DeleteEndpoint ==
  /\ pc = "delete_endpoint"
  /\ \/ Works("delete_agents", own, Without("endpoints", Endpoints(own.agent)))
     \/ Fails("delete_agents", own, cloud)

DeleteExperiment ==
  /\ pc = "delete_experiment"
  /\ \/ Works("find_warehouse", own, [cloud EXCEPT !.experiment = None])
     \/ Fails("find_warehouse", own, cloud)

(* _existing_warehouse_id: the pinned one, a serverless one, any, or none. *)
(* Nothing guards it: if it raises, the teardown is over.                  *)
FindWarehouse ==
  LET Uses(id) == Works("drop_schema", [own EXCEPT !.warehouse = id], cloud)
      found == IF Serverless # {} THEN Serverless ELSE cloud.warehouses
  IN /\ pc = "find_warehouse"
     /\ \/ settings.reuse # None /\ Uses(settings.reuse)
        \/ settings.reuse = None /\ \E w \in found : Uses(w.id)
        \/ settings.reuse = None /\ found = {} /\ Works("delete_warehouses", own, cloud)

(* DROP SCHEMA CASCADE, and DROP CATALOG CASCADE when catalog.create is    *)
(* set; the failure of one skips the other.                                *)
DropSchema ==
  /\ pc = "drop_schema"
  /\ \/ Works("drop_catalog", own, [cloud EXCEPT !.schemas = @ \ {"demo"}, !.loads = NoTables])
     \/ Fails("delete_warehouses", own, cloud)

DropCatalog ==
  /\ pc = "drop_catalog"
  /\ IF settings.create
     THEN \/ Works("delete_warehouses", own, [cloud EXCEPT !.catalog = FALSE, !.schemas = {}])
          \/ Fails("delete_warehouses", own, cloud)
     ELSE Works("delete_warehouses", own, cloud)

(* delete_created_warehouse: none when one is pinned, else the tagged ones. *)
DeleteWarehouses_AnyServerless ==
  /\ pc = "delete_warehouses"
  /\ \/ settings.reuse = None
          /\ \E w \in Serverless : Works("delete_warehouses", own, Without("warehouses", {w}))
     \/ (settings.reuse # None \/ Serverless = {}) /\ Works("remove_config", own, cloud)

DeleteWarehouses ==
  /\ pc = "delete_warehouses"
  /\ \/ settings.reuse = None
          /\ \E w \in Managed : \/ Works("delete_warehouses", own, Without("warehouses", {w}))
                               \/ Fails("remove_config", own, cloud)
     \/ (settings.reuse # None \/ Managed = {}) /\ Works("remove_config", own, cloud)

(* remove_local_artifacts: the config names the output directory and goes  *)
(* first; each removal that fails is skipped.                              *)
RemoveConfig ==
  LET knows == [own EXCEPT !.output = Get(disk.config, "output_dir", "outputs")]
  IN /\ pc = "remove_config"
     /\ \/ Writes("remove_rest", knows, [disk EXCEPT !.state = "absent", !.config = Empty])
        \/ Fails("remove_rest", knows, cloud)

RemoveArtifacts ==
  LET all == {"questions", own.output, "mlruns"}
      Removes(items) == /\ disk' = [disk EXCEPT !.artifacts = @ \ items]
                        /\ pc' = "idle"
                        /\ outcome' = "torn_down"
                        /\ UNCHANGED <<settings, cloud>>
  IN /\ pc = "remove_rest"
     /\ \/ Removes(all) /\ UNCHANGED <<own, history>>
        \/ /\ history.faults < MaxFaults
           /\ \E item \in all \cap disk.artifacts : Removes(all \ {item})
           /\ own' = [own EXCEPT !.clean = FALSE]
           /\ history' = [history EXCEPT !.faults = @ + 1]

-----------------------------------------------------------------------------
(* The command dies: a kill, or an exception that nobody catches. The      *)
(* INSERT it was waiting for goes on, or has failed.                       *)
Abort ==
  /\ pc # "idle"
  /\ history.faults < MaxFaults
  /\ pc' = "idle"
  /\ outcome' = "aborted"
  /\ own' = Fresh
  /\ cloud' \in {cloud, [cloud EXCEPT !.inserts = @ \ {Mine(Table)}]}
  /\ history' = [history EXCEPT
       !.faults = @ + 1,
       !.left[Table] = IF Mine(Table) \in cloud'.inserts THEN @ + 1 ELSE @]
  /\ UNCHANGED <<settings, disk>>

(* The workspace: an INSERT runs (or finds its table dropped), an endpoint *)
(* gets ready.                                                             *)
Execute ==
  /\ \E i \in cloud.inserts :
       cloud' = [cloud EXCEPT !.inserts = @ \ {i},
                              !.loads[i.table] = IF @ = Absent THEN Absent ELSE @ + 1]
  /\ UNCHANGED <<settings, disk, pc, own, outcome, history>>

EndpointReady ==
  /\ \E e \in cloud.endpoints :
       /\ e.state = "NOT_READY"
       /\ cloud' = [cloud EXCEPT !.endpoints = (@ \ {e}) \cup {[e EXCEPT !.state = "READY"]}]
  /\ UNCHANGED <<settings, disk, pc, own, outcome, history>>

(* Between commands users add keys to the config, and run the harness.     *)
EditConfig ==
  /\ pc = "idle"
  /\ disk.state = "whole"
  /\ \E keys \in UserKeys : disk' = [disk EXCEPT !.config = Updated(@, keys)]
  /\ outcome' = "none"
  /\ own' = Fresh
  /\ UNCHANGED <<settings, cloud, pc, history>>

UseHarness ==
  /\ pc = "idle"
  /\ disk.state = "whole"
  /\ \E env \in Envs :
       /\ ParseConfigAccepts(disk.config, env)
       /\ disk' = [disk EXCEPT !.artifacts = @ \cup
                     {Get(Overridden(disk.config, env), "output_dir", "outputs"), "mlruns"}]
  /\ outcome' = "none"
  /\ own' = Fresh
  /\ UNCHANGED <<settings, cloud, pc, history>>

Provision ==
  \/ ResolveWarehouse \/ EnsureCatalog \/ EnsureSchema \/ EnsureTable \/ SubmitInsert
  \/ InsertDone \/ EnsureExperiment \/ CreateProduction \/ CreateMaintenance
  \/ BuildSupervisor \/ CreateTool \/ WaitReady
  \/ BuildConfig \/ OpenConfig \/ FillConfig \/ WriteQuestions

Teardown ==
  \/ ListSpaces \/ TrashSpace \/ ListAgents \/ DeleteAgent \/ DeleteEndpoint
  \/ DeleteExperiment \/ FindWarehouse \/ DropSchema \/ DropCatalog \/ DeleteWarehouses
  \/ RemoveConfig \/ RemoveArtifacts

Next ==
  \/ Start \/ Provision \/ Teardown \/ Abort
  \/ Execute \/ EndpointReady \/ EditConfig \/ UseHarness

(* The command runs, and the workspace works on the statements it has.     *)
Spec == Init /\ [][Next]_vars /\ WF_vars(Provision \/ Teardown) /\ WF_vars(Execute)

-----------------------------------------------------------------------------
(* The type invariant of the workspace, the directory and the command.     *)
TypeOK ==
  /\ cloud.made \in Nat /\ cloud.catalog \in BOOLEAN /\ cloud.schemas \subseteq {"demo", "other"}
  /\ ~cloud.catalog => cloud.schemas = {}
  /\ cloud.loads \in [TableSet -> Nat \cup {Absent}]
  /\ cloud.inserts \subseteq [table: TableSet, run: 1..MaxRuns]
  /\ \A a \in cloud.agents : a.tools \subseteq 101..cloud.made /\ Cardinality(a.tools) <= 2
  /\ disk.state \in {"absent", "torn", "whole"}
  /\ disk.config # Empty <=> disk.state = "whole"
  /\ own.table \in DOMAIN Tables
  /\ outcome \in {"none", "provisioned", "torn_down", "aborted", "rejected"}
  /\ history.runs \in 0..MaxRuns /\ history.faults \in 0..MaxFaults

(* What the bootstrap did not create survives every command: warehouses    *)
(* and agents of others, their spaces, and their schema in a catalog the   *)
(* bootstrap was given or found (provision.py:306-331, 362-365, 625).      *)
SharedUntouched ==
  /\ history.found \subseteq cloud.warehouses
  /\ \E s \in cloud.spaces : s.title = "other"
  /\ \E a \in cloud.agents : a.name = "other"
  /\ 2 \in Ids(cloud.endpoints)
  /\ Adopts \/ ~settings.create => "other" \in cloud.schemas

(* The workspace is as the first bootstrap found it.                       *)
AsFound ==
  /\ cloud.warehouses = history.found /\ cloud.experiment = None
  /\ Titled = {} /\ Named = {} /\ Ids(cloud.endpoints) = {2}
  /\ "demo" \notin cloud.schemas
  /\ settings.create => ~cloud.catalog

TornDown == outcome = "torn_down" /\ own.clean

(* A teardown without failures removes all it can find: by title, by name, *)
(* by tag, by path; the schema and catalog if it had a warehouse. And when *)
(* no earlier command failed either, nothing is left (provision.py:597).   *)
TeardownRemovesEverything ==
  TornDown =>
    /\ Titled = {} /\ cloud.experiment = None
    /\ settings.build => Named = {}
    /\ settings.reuse = None => Managed = {}
    /\ own.warehouse # None => "demo" \notin cloud.schemas /\ (settings.create => ~cloud.catalog)
    /\ disk.state = "absent" /\ disk.artifacts \cap {"questions", "mlruns", own.output} = {}
    /\ history.faults = 0 => AsFound

(* The config a bootstrap leaves names the objects this bootstrap made,    *)
(* and they exist, whatever an earlier config or its editor said: the      *)
(* spaces of both tools and of the direct variant, and the endpoint        *)
(* (provision.py:551-573, emit.py:65-75).                                  *)
ConfigIsThisRuns ==
  outcome = "provisioned" =>
    LET c == disk.config
    IN /\ disk.state = "whole"
       /\ c.genie_space_id = own.production /\ own.production \in Ids(Titled)
       /\ "supervisor_mcp" \in c.variants => c.mcp_target = own.production
       /\ "supervisor" \in c.variants =>
            /\ c.supervisor_target \in Ids(cloud.endpoints)
            /\ \E a \in Named : a.id = c.supervisor_target
                               /\ a.tools = {own.production, own.maintenance}

(* The harness loads the config a bootstrap leaves, in every environment,  *)
(* also when it was merged into a torn or an edited one, unless a profile, *)
(* the config's or the environment's, meets the default authentication its *)
(* editor asked for. emit.py:4 knows no such exception: "can never produce *)
(* a config the harness would reject".                                     *)
EmittedConfigLoads ==
  outcome = "provisioned" =>
    \A env \in Envs : \/ ParseConfigAccepts(disk.config, env)
                      \/ ~AuthUnambiguous(Overridden(disk.config, env))

(* A table's loads, done and still running, beyond the first are each owed *)
(* to an INSERT a dead command left with the workspace: commands that end, *)
(* or die elsewhere, never load twice. A bootstrap that ends well leaves   *)
(* no table empty (provision.py:233-241). That an INSERT left behind does  *)
(* load a table twice is TablesLoadOnce.                                   *)
Pending(t) == {i \in cloud.inserts : i.table = t}
Loads(t)   == IF cloud.loads[t] = Absent THEN 0 ELSE cloud.loads[t]

LoadsAreAccounted ==
  /\ \A t \in TableSet : Loads(t) + Cardinality(Pending(t)) <= 1 + history.left[t]
  /\ outcome = "provisioned" => \A t \in TableSet : Loads(t) >= 1

(* Every command comes to an end.                                          *)
BootstrapEnds == (pc # "idle") ~> (pc = "idle")

(* provision.py:599-602 promises "a genuinely empty environment": "one     *)
(* failure never strands the rest", and the warehouse is "deleted only     *)
(* after the SQL DDL has run". So a teardown that meets no failure leaves  *)
(* nothing, also after one that did.                                       *)
NothingStranded == TornDown => AsFound

(* provision.py:3 calls what it does "create-or-reuse, idempotent": a      *)
(* table is loaded once. COUNT does not see an INSERT that still runs.     *)
TablesLoadOnce == \A t \in TableSet : cloud.loads[t] <= 1
==============================================================================
