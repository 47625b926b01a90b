---------------------------- MODULE BootstrapProofs ----------------------------
(***************************************************************************)
(* The demo bootstrap and its teardown, for every settings file, workspace *)
(* and table list, and any number of commands, failures and deaths.        *)
(***************************************************************************)
EXTENDS Bootstrap, FiniteSetTheorems, TLAPS

(* The inductive invariant behind TypeOK, SharedUntouched,             *)
(* LoadsAreAccounted and ConfigIsThisRuns. First the shapes.               *)
Space     == [id: Nat, title: {"production", "maintenance", "other"}]
Agent     == [id: Nat, name: {"mine", "other"}, tools: SUBSET Nat]
Endpoint  == [id: Nat, state: {"READY", "NOT_READY"}]
Warehouse == [id: Nat, serverless: BOOLEAN, managed: BOOLEAN]

CloudType ==
  [made: Nat, warehouses: SUBSET Warehouse,
   catalog: BOOLEAN, schemas: SUBSET {"demo", "other"},
   loads: [TableSet -> Nat \cup {Absent}], inserts: SUBSET [table: TableSet, run: 1..MaxRuns],
   experiment: Nat, spaces: SUBSET Space, agents: SUBSET Agent, endpoints: SUBSET Endpoint]

HistoryType == [runs: 0..MaxRuns, faults: 0..MaxFaults, left: [TableSet -> Nat],
                found: SUBSET Warehouse]

OwnType(o) ==
  [clean: BOOLEAN, warehouse: {o.warehouse}, table: DOMAIN Tables, fallback: BOOLEAN,
   production: Nat, maintenance: Nat, agent: Nat, target: Nat, experiment: Nat,
   polls: Nat, confirmed: BOOLEAN, todo: SUBSET Nat, output: {o.output}, config: {o.config}]

ShapeInv ==
  /\ cloud \in CloudType
  /\ disk \in [state: {"absent", "torn", "whole"}, config: {disk.config},
               artifacts: {disk.artifacts}]
  /\ own \in OwnType(own)
  /\ outcome \in {"none", "provisioned", "torn_down", "aborted", "rejected"}
  /\ history \in HistoryType
  /\ pc # "idle" => history.runs >= 1
  /\ ~cloud.catalog => cloud.schemas = {}

(* What a bootstrap made is numbered above 100, what it did not is not: so *)
(* no id a command works with is one of theirs.                            *)
Made(id) == id \in 101..cloud.made

ObjectInv ==
  /\ cloud.made >= 100
  /\ \A s \in cloud.spaces : s.title # "other" => Made(s.id)
  /\ \A a \in cloud.agents :
       /\ a.id <= cloud.made /\ (a.name # "other" => Made(a.id))
       /\ \A tool \in a.tools : Made(tool)
  /\ \A a, b \in cloud.agents : a.id = b.id => a = b
  /\ \A id \in own.todo : Made(id)
  /\ pc = "delete_endpoint" => Made(own.agent)

OthersInv ==
  /\ history.found \subseteq cloud.warehouses /\ \A w \in history.found : ~w.managed
  /\ \E s \in cloud.spaces : s.id = 1 /\ s.title = "other"
  /\ \E a \in cloud.agents : a.id = 2 /\ a.name = "other"
  /\ \E e \in cloud.endpoints : e.id = 2
  /\ ~settings.create => "other" \in cloud.schemas

(* What this run made is there while the run goes on and after it: the     *)
(* space the config names, and the agent with its tools.                   *)
HasProduction  == {"maintenance", "agent", "tools", "ready", "emit", "open", "fill", "questions"}
HasMaintenance == {"agent", "tools", "ready", "emit", "open", "fill", "questions"}
HasTarget      == {"emit", "open", "fill", "questions"}
Provisioned    == pc = "idle" /\ outcome = "provisioned"

Toolset == {own.production, own.maintenance}

SpacesInv ==
  /\ outcome = "provisioned" => pc = "idle"
  /\ pc \in HasProduction \/ Provisioned =>
       /\ Made(own.production)
       /\ \E s \in cloud.spaces : s.id = own.production /\ s.title = "production"
  /\ pc \in HasMaintenance \/ Provisioned => Made(own.maintenance)

AtMostTwo(tools) == \E x, y \in tools \cup {None} : tools \subseteq {x, y}

AgentInv ==
  /\ \A a \in cloud.agents : AtMostTwo(a.tools)
  /\ pc \in {"tools", "ready"} =>
       /\ Made(own.agent) /\ \E e \in cloud.endpoints : e.id = own.agent
       /\ \E a \in Named : a.id = own.agent
                           /\ a.tools \in IF pc = "ready" THEN {Toolset} ELSE {{}, {own.production}}
  /\ own.target # None =>
       /\ pc \in HasTarget \/ Provisioned
       /\ \E e \in cloud.endpoints : e.id = own.target
       /\ \E a \in Named : a.id = own.target /\ a.tools = Toolset

(* The config in hand, and then in the file, says so.                      *)
Names(c) ==
  /\ {"genie_space_id", "variants"} \subseteq DOMAIN c
  /\ c.genie_space_id = own.production
  /\ "supervisor_mcp" \in c.variants => "mcp_target" \in DOMAIN c /\ c.mcp_target = own.production
  /\ "supervisor" \in c.variants =>
       /\ own.target # None
       /\ "supervisor_target" \in DOMAIN c /\ c.supervisor_target = own.target

ConfigInv ==
  /\ IF disk.state = "whole" THEN DOMAIN disk.config # {} ELSE disk.config = Empty
  /\ pc \in {"open", "fill"} => Names(own.config)
  /\ pc = "questions" \/ Provisioned => disk.state = "whole" /\ Names(disk.config)

(* A table has the rows of one INSERT, or that INSERT is under way, or     *)
(* about to be sent; besides, each that a dead command left.               *)
Waited(t)  == {i \in Pending(t) : pc = "loading" /\ i = Mine(Table)}
Planned(t) == IF pc = "insert" /\ Table = t THEN 1 ELSE 0

AfterTables == {"experiment", "production"} \cup HasProduction

Balanced(t) ==
  /\ Cardinality(Pending(t) \ Waited(t)) <= history.left[t]
  /\ Loads(t) + Cardinality(Pending(t)) + Planned(t) <= 1 + history.left[t]

LoadInv ==
  /\ IsFiniteSet(cloud.inserts)
  /\ \A i \in cloud.inserts :
       /\ i.run <= history.runs
       /\ i.run = history.runs /\ pc # "idle" => pc = "loading" /\ i = Mine(Table)
  /\ \A t \in TableSet : Balanced(t)
  /\ pc \in {"warehouse", "catalog", "schema"} => own.table = 1
  /\ pc \in {"insert", "loading"} => cloud.loads[Table] # Absent
  /\ pc = "loading" => Mine(Table) \in cloud.inserts \/ cloud.loads[Table] >= 1
  /\ pc \in {"table", "insert", "loading"} =>
       \A n \in DOMAIN Tables : n < own.table => cloud.loads[Tables[n]] >= 1
  /\ pc \in AfterTables \/ Provisioned => \A t \in TableSet : cloud.loads[t] >= 1

-----------------------------------------------------------------------------
(* What every step works with.                                             *)
LEMMA Bounds ==
  /\ MaxRuns \in Nat /\ MaxFaults \in Nat /\ MaxPolls \in Nat
  /\ Tables \in Seq(STRING) /\ Len(Tables) \in Nat \ {0} /\ DOMAIN Tables = 1..Len(Tables)
BY BootstrapAssumption

LEMMA ShapeUsed ==
  ASSUME ShapeInv
  PROVE  /\ cloud \in CloudType /\ own \in OwnType(own)
         /\ own.table \in 1..Len(Tables) /\ Table \in TableSet
         /\ cloud.made \in Nat /\ NewId \in Nat /\ NewId = cloud.made + 1
         /\ history.runs \in Nat /\ history.faults \in Nat
<1>1. cloud \in CloudType /\ own \in OwnType(own)
  BY DEF ShapeInv
<1>2. own.table \in DOMAIN Tables
  BY <1>1 DEF OwnType
<1>3. Table \in TableSet /\ own.table \in 1..Len(Tables)
  BY <1>2, Bounds DEF Table, TableSet
<1>4. cloud.made \in Nat
  BY <1>1 DEF CloudType
<1>5. history.runs \in 0..MaxRuns /\ history.faults \in 0..MaxFaults
  BY DEF ShapeInv, HistoryType
<1>6. QED
  BY <1>1, <1>3, <1>4, <1>5, Bounds DEF NewId

(* NextTable is a place in the list, and other locals stay.                *)
LEMMA NextTableShape ==
  ASSUME ShapeInv
  PROVE  /\ NextTable = [own EXCEPT !.table = NextTable.table]
         /\ NextTable.table = IF own.table = Len(Tables) THEN own.table ELSE own.table + 1
         /\ NextTable.table \in DOMAIN Tables
<1>1. own \in OwnType(own)
  BY DEF ShapeInv
<1>2. /\ NextTable = [own EXCEPT !.table = NextTable.table]
      /\ NextTable.table = IF own.table = Len(Tables) THEN own.table ELSE own.table + 1
  BY <1>1 DEF NextTable, OwnType
<1>3. QED
  BY <1>2, ShapeUsed, Bounds

LEMMA InitShape == Init => ShapeInv
<1> SUFFICES ASSUME Init PROVE ShapeInv
  OBVIOUS
<1>1. PICK found \in Workspaces :
        history = [runs |-> 0, faults |-> 0, left |-> [t \in TableSet |-> 0], found |-> found]
  BY DEF Init
<1>2. history.found \in SUBSET Warehouse
  <2>1. history.found \subseteq UNION Workspaces
    BY <1>1
  <2>2. ASSUME NEW w \in UNION Workspaces PROVE w \in Warehouse
    <3>1. w \in [id: 1..100, serverless: BOOLEAN, managed: BOOLEAN]
      BY BootstrapAssumption
    <3>2. QED
      BY <3>1 DEF Warehouse
  <2>3. QED
    BY <2>1, <2>2
<1>3. cloud \in CloudType /\ (~cloud.catalog => cloud.schemas = {})
  <2> DEFINE exists == Adopts \/ ~settings.create
  <2>1. cloud = [made |-> 100, warehouses |-> history.found, catalog |-> exists,
                 schemas |-> IF exists THEN {"other"} ELSE {},
                 loads |-> NoTables, inserts |-> {}, experiment |-> None,
                 spaces |-> {[id |-> 1, title |-> "other"]},
                 agents |-> {[id |-> 2, name |-> "other", tools |-> {}]},
                 endpoints |-> {[id |-> 2, state |-> "READY"]}]
    BY DEF Init
  <2>a. /\ [id |-> 1, title |-> "other"] \in Space
        /\ [id |-> 2, name |-> "other", tools |-> {}] \in Agent
        /\ [id |-> 2, state |-> "READY"] \in Endpoint
    BY DEF Space, Agent, Endpoint
  <2>2. NoTables \in [TableSet -> Nat \cup {Absent}]
    BY DEF NoTables
  <2>3. exists \in BOOLEAN /\ None \in Nat
    BY DEF None
  <2> HIDE DEF exists
  <2>4. QED
    BY <1>2, <2>1, <2>a, <2>2, <2>3 DEF CloudType
<1>4. own \in OwnType(own)
  BY Bounds DEF Init, Fresh, OwnType, None
<1>5. QED
  BY <1>1, <1>2, <1>3, <1>4, Bounds DEF Init, ShapeInv, HistoryType

(* A record keeps its shape when one field gets a value of its kind.       *)
LEMMA CloudSets ==
  ASSUME NEW w \in CloudType
  PROVE  /\ \A v \in Nat : [w EXCEPT !.made = v] \in CloudType
         /\ \A v \in SUBSET Warehouse : [w EXCEPT !.warehouses = v] \in CloudType
         /\ \A v \in BOOLEAN : [w EXCEPT !.catalog = v] \in CloudType
         /\ \A v \in SUBSET {"demo", "other"} : [w EXCEPT !.schemas = v] \in CloudType
         /\ \A v \in [TableSet -> Nat \cup {Absent}] : [w EXCEPT !.loads = v] \in CloudType
         /\ \A v \in SUBSET [table: TableSet, run: 1..MaxRuns] : [w EXCEPT !.inserts = v] \in CloudType
         /\ \A v \in Nat : [w EXCEPT !.experiment = v] \in CloudType
         /\ \A v \in SUBSET Space : [w EXCEPT !.spaces = v] \in CloudType
         /\ \A v \in SUBSET Agent : [w EXCEPT !.agents = v] \in CloudType
         /\ \A v \in SUBSET Endpoint : [w EXCEPT !.endpoints = v] \in CloudType
BY DEF CloudType

LEMMA OwnSets ==
  ASSUME NEW o, o \in OwnType(o)
  PROVE  /\ \A v \in BOOLEAN : [o EXCEPT !.clean = v] \in OwnType([o EXCEPT !.clean = v])
         /\ \A v : [o EXCEPT !.warehouse = v] \in OwnType([o EXCEPT !.warehouse = v])
         /\ \A v \in DOMAIN Tables : [o EXCEPT !.table = v] \in OwnType([o EXCEPT !.table = v])
         /\ \A v \in BOOLEAN : [o EXCEPT !.fallback = v] \in OwnType([o EXCEPT !.fallback = v])
         /\ \A v \in Nat : [o EXCEPT !.production = v] \in OwnType([o EXCEPT !.production = v])
         /\ \A v \in Nat : [o EXCEPT !.maintenance = v] \in OwnType([o EXCEPT !.maintenance = v])
         /\ \A v \in Nat : [o EXCEPT !.agent = v] \in OwnType([o EXCEPT !.agent = v])
         /\ \A v \in Nat : [o EXCEPT !.target = v] \in OwnType([o EXCEPT !.target = v])
         /\ \A v \in Nat : [o EXCEPT !.experiment = v] \in OwnType([o EXCEPT !.experiment = v])
         /\ \A v \in Nat : [o EXCEPT !.polls = v] \in OwnType([o EXCEPT !.polls = v])
         /\ \A v \in BOOLEAN : [o EXCEPT !.confirmed = v] \in OwnType([o EXCEPT !.confirmed = v])
         /\ \A v \in SUBSET Nat : [o EXCEPT !.todo = v] \in OwnType([o EXCEPT !.todo = v])
         /\ \A v : [o EXCEPT !.output = v] \in OwnType([o EXCEPT !.output = v])
         /\ \A v : [o EXCEPT !.config = v] \in OwnType([o EXCEPT !.config = v])
BY DEF OwnType

LEMMA HistorySets ==
  ASSUME NEW h \in HistoryType
  PROVE  /\ \A v \in 0..MaxRuns : [h EXCEPT !.runs = v] \in HistoryType
         /\ \A v \in 0..MaxFaults : [h EXCEPT !.faults = v] \in HistoryType
         /\ \A v \in [TableSet -> Nat] : [h EXCEPT !.left = v] \in HistoryType
BY DEF HistoryType

(* A step is one that works, or that fails and is caught, or a write; and  *)
(* the shapes are kept when what it leaves in hand and in the cloud is.    *)
CloudOk(w) == w \in CloudType /\ (~w.catalog => w.schemas = {})
OwnOk(o)   == o \in OwnType(o)

LEMMA CloudOkSets ==
  ASSUME NEW w, CloudOk(w)
  PROVE  /\ w.catalog => \A v \in SUBSET {"demo", "other"} : CloudOk([w EXCEPT !.schemas = v])
         /\ \A v \in [TableSet -> Nat \cup {Absent}] : CloudOk([w EXCEPT !.loads = v])
         /\ \A v \in SUBSET [table: TableSet, run: 1..MaxRuns] : CloudOk([w EXCEPT !.inserts = v])
         /\ \A v \in Nat : CloudOk([w EXCEPT !.experiment = v])
         /\ \A v \in SUBSET Agent : CloudOk([w EXCEPT !.agents = v])
         /\ \A v \in SUBSET Endpoint : CloudOk([w EXCEPT !.endpoints = v])
<1>0. w \in CloudType /\ (~w.catalog => w.schemas = {})
  BY DEF CloudOk
<1>1. ASSUME w.catalog, NEW v \in SUBSET {"demo", "other"}
      PROVE  CloudOk([w EXCEPT !.schemas = v])
  <2>1. [w EXCEPT !.schemas = v] \in CloudType
    BY <1>0, CloudSets
  <2>2. [w EXCEPT !.schemas = v].catalog = w.catalog
    BY <1>0 DEF CloudType
  <2>3. QED
    BY <1>1, <2>1, <2>2 DEF CloudOk
<1>2. ASSUME NEW v \in [TableSet -> Nat \cup {Absent}]
      PROVE  CloudOk([w EXCEPT !.loads = v])
  <2> DEFINE u == [w EXCEPT !.loads = v]
  <2>1. u \in CloudType
    BY <1>0, CloudSets
  <2>2. u.catalog = w.catalog /\ u.schemas = w.schemas
    BY <1>0 DEF CloudType
  <2> HIDE DEF u
  <2>3. CloudOk(u)
    BY <1>0, <2>1, <2>2 DEF CloudOk
  <2>4. QED
    BY <2>3 DEF u
<1>3. ASSUME NEW v \in SUBSET [table: TableSet, run: 1..MaxRuns]
      PROVE  CloudOk([w EXCEPT !.inserts = v])
  <2> DEFINE u == [w EXCEPT !.inserts = v]
  <2>1. u \in CloudType
    BY <1>0, CloudSets
  <2>2. u.catalog = w.catalog /\ u.schemas = w.schemas
    BY <1>0 DEF CloudType
  <2> HIDE DEF u
  <2>3. CloudOk(u)
    BY <1>0, <2>1, <2>2 DEF CloudOk
  <2>4. QED
    BY <2>3 DEF u
<1>4. ASSUME NEW v \in Nat
      PROVE  CloudOk([w EXCEPT !.experiment = v])
  <2> DEFINE u == [w EXCEPT !.experiment = v]
  <2>1. u \in CloudType
    BY <1>0, CloudSets
  <2>2. u.catalog = w.catalog /\ u.schemas = w.schemas
    BY <1>0 DEF CloudType
  <2> HIDE DEF u
  <2>3. CloudOk(u)
    BY <1>0, <2>1, <2>2 DEF CloudOk
  <2>4. QED
    BY <2>3 DEF u
<1>5. ASSUME NEW v \in SUBSET Agent
      PROVE  CloudOk([w EXCEPT !.agents = v])
  <2> DEFINE u == [w EXCEPT !.agents = v]
  <2>1. u \in CloudType
    BY <1>0, CloudSets
  <2>2. u.catalog = w.catalog /\ u.schemas = w.schemas
    BY <1>0 DEF CloudType
  <2> HIDE DEF u
  <2>3. CloudOk(u)
    BY <1>0, <2>1, <2>2 DEF CloudOk
  <2>4. QED
    BY <2>3 DEF u
<1>6. ASSUME NEW v \in SUBSET Endpoint
      PROVE  CloudOk([w EXCEPT !.endpoints = v])
  <2> DEFINE u == [w EXCEPT !.endpoints = v]
  <2>1. u \in CloudType
    BY <1>0, CloudSets
  <2>2. u.catalog = w.catalog /\ u.schemas = w.schemas
    BY <1>0 DEF CloudType
  <2> HIDE DEF u
  <2>3. CloudOk(u)
    BY <1>0, <2>1, <2>2 DEF CloudOk
  <2>4. QED
    BY <2>3 DEF u
<1>7. QED
  BY <1>1, <1>2, <1>3, <1>4, <1>5, <1>6

LEMMA WorksShape ==
  ASSUME ShapeInv, pc # "idle", NEW n, NEW o, NEW w, OwnOk(o), CloudOk(w), Works(n, o, w)
  PROVE  ShapeInv'
BY DEF Works, ShapeInv, CloudOk, OwnOk

LEMMA FailsShape ==
  ASSUME ShapeInv, pc # "idle", NEW n, NEW o, NEW w, OwnOk(o), CloudOk(w), Fails(n, o, w)
  PROVE  ShapeInv'
<1>1. history' \in HistoryType /\ history'.runs = history.runs
  <2>1. history.faults + 1 \in 0..MaxFaults
    BY Bounds, ShapeUsed DEF Fails
  <2>2. history \in HistoryType /\ history' = [history EXCEPT !.faults = history.faults + 1]
    BY DEF Fails, ShapeInv
  <2>3. QED
    BY <2>1, <2>2, HistorySets DEF HistoryType
<1>2. own' \in OwnType(own')
  BY DEF Fails, OwnType, OwnOk
<1>3. QED
  BY <1>1, <1>2 DEF Fails, ShapeInv, CloudOk

LEMMA WritesShape ==
  ASSUME ShapeInv, pc # "idle", NEW n, NEW o, OwnOk(o), NEW files, Writes(n, o, files),
         files \in [state: {"absent", "torn", "whole"}, config: {files.config},
                    artifacts: {files.artifacts}]
  PROVE  ShapeInv'
BY DEF Writes, ShapeInv, OwnOk

(* With and Without, field by field.                                       *)
LEMMA WithShape ==
  ASSUME ShapeInv
  PROVE  /\ \A x \in Warehouse :
              /\ CloudOk(With("warehouses", x))
              /\ With("warehouses", x)
                   = [[cloud EXCEPT !.made = NewId] EXCEPT !.warehouses = cloud.warehouses \cup {x}]
         /\ \A x \in Space :
              /\ CloudOk(With("spaces", x))
              /\ With("spaces", x)
                   = [[cloud EXCEPT !.made = NewId] EXCEPT !.spaces = cloud.spaces \cup {x}]
         /\ \A x \in Agent :
              /\ CloudOk(With("agents", x))
              /\ With("agents", x)
                   = [[cloud EXCEPT !.made = NewId] EXCEPT !.agents = cloud.agents \cup {x}]
<1> DEFINE w == [cloud EXCEPT !.made = NewId]
<1>1. w \in CloudType /\ w.catalog = cloud.catalog /\ w.schemas = cloud.schemas
      /\ w.warehouses = cloud.warehouses /\ w.spaces = cloud.spaces /\ w.agents = cloud.agents
  <2>1. cloud \in CloudType /\ NewId \in Nat
    BY ShapeUsed
  <2>2. w \in CloudType
    BY <2>1, CloudSets
  <2>3. QED
    BY <2>1, <2>2 DEF CloudType
<1>2. cloud.warehouses \in SUBSET Warehouse /\ cloud.spaces \in SUBSET Space
      /\ cloud.agents \in SUBSET Agent
  BY ShapeUsed DEF CloudType
<1>3. ~cloud.catalog => cloud.schemas = {}
  BY DEF ShapeInv
<1>4. \A f, x : With(f, x) = [w EXCEPT ![f] = w[f] \cup {x}]
  BY DEF With
<1> HIDE DEF w
<1>5. ASSUME NEW x \in Warehouse
      PROVE  /\ CloudOk(With("warehouses", x))
             /\ With("warehouses", x) = [w EXCEPT !.warehouses = cloud.warehouses \cup {x}]
  <2>1. With("warehouses", x) = [w EXCEPT !.warehouses = cloud.warehouses \cup {x}]
    BY <1>1, <1>4
  <2>2. With("warehouses", x) \in CloudType
    BY <1>1, <1>2, <2>1, CloudSets
  <2>3. With("warehouses", x).catalog = cloud.catalog /\ With("warehouses", x).schemas = cloud.schemas
    BY <1>1, <2>1 DEF CloudType
  <2>4. QED
    BY <1>3, <2>1, <2>2, <2>3 DEF CloudOk
<1>6. ASSUME NEW x \in Space
      PROVE  /\ CloudOk(With("spaces", x))
             /\ With("spaces", x) = [w EXCEPT !.spaces = cloud.spaces \cup {x}]
  <2>1. With("spaces", x) = [w EXCEPT !.spaces = cloud.spaces \cup {x}]
    BY <1>1, <1>4
  <2>2. With("spaces", x) \in CloudType
    BY <1>1, <1>2, <2>1, CloudSets
  <2>3. With("spaces", x).catalog = cloud.catalog /\ With("spaces", x).schemas = cloud.schemas
    BY <1>1, <2>1 DEF CloudType
  <2>4. QED
    BY <1>3, <2>1, <2>2, <2>3 DEF CloudOk
<1>7. ASSUME NEW x \in Agent
      PROVE  /\ CloudOk(With("agents", x))
             /\ With("agents", x) = [w EXCEPT !.agents = cloud.agents \cup {x}]
  <2>1. With("agents", x) = [w EXCEPT !.agents = cloud.agents \cup {x}]
    BY <1>1, <1>4
  <2>2. With("agents", x) \in CloudType
    BY <1>1, <1>2, <2>1, CloudSets
  <2>3. With("agents", x).catalog = cloud.catalog /\ With("agents", x).schemas = cloud.schemas
    BY <1>1, <2>1 DEF CloudType
  <2>4. QED
    BY <1>3, <2>1, <2>2, <2>3 DEF CloudOk
<1>8. QED
  BY <1>5, <1>6, <1>7 DEF w

LEMMA WithoutShape ==
  ASSUME ShapeInv, NEW items
  PROVE  /\ CloudOk(Without("warehouses", items))
         /\ Without("warehouses", items) = [cloud EXCEPT !.warehouses = cloud.warehouses \ items]
         /\ CloudOk(Without("spaces", items))
         /\ Without("spaces", items) = [cloud EXCEPT !.spaces = cloud.spaces \ items]
         /\ CloudOk(Without("agents", items))
         /\ Without("agents", items) = [cloud EXCEPT !.agents = cloud.agents \ items]
         /\ CloudOk(Without("endpoints", items))
         /\ Without("endpoints", items) = [cloud EXCEPT !.endpoints = cloud.endpoints \ items]
<1>1. /\ cloud.warehouses \ items \in SUBSET Warehouse /\ cloud.spaces \ items \in SUBSET Space
      /\ cloud.agents \ items \in SUBSET Agent /\ cloud.endpoints \ items \in SUBSET Endpoint
  BY ShapeUsed DEF CloudType
<1>2. cloud \in CloudType /\ (~cloud.catalog => cloud.schemas = {})
  BY DEF ShapeInv
<1>3. /\ Without("warehouses", items) = [cloud EXCEPT !.warehouses = cloud.warehouses \ items]
      /\ Without("spaces", items) = [cloud EXCEPT !.spaces = cloud.spaces \ items]
      /\ Without("agents", items) = [cloud EXCEPT !.agents = cloud.agents \ items]
      /\ Without("endpoints", items) = [cloud EXCEPT !.endpoints = cloud.endpoints \ items]
  BY DEF Without
<1>4. /\ Without("warehouses", items) \in CloudType /\ Without("spaces", items) \in CloudType
      /\ Without("agents", items) \in CloudType /\ Without("endpoints", items) \in CloudType
  <2>1. /\ [cloud EXCEPT !.warehouses = cloud.warehouses \ items] \in CloudType
        /\ [cloud EXCEPT !.spaces = cloud.spaces \ items] \in CloudType
    BY <1>1, <1>2, CloudSets
  <2>2. /\ [cloud EXCEPT !.agents = cloud.agents \ items] \in CloudType
        /\ [cloud EXCEPT !.endpoints = cloud.endpoints \ items] \in CloudType
    BY <1>1, <1>2, CloudSets
  <2>3. QED
    BY <1>3, <2>1, <2>2
<1>5. QED
  BY <1>2, <1>3, <1>4 DEF CloudOk, CloudType

LEMMA CloudStays == ShapeInv => CloudOk(cloud) /\ OwnOk(own)
BY DEF ShapeInv, CloudOk, OwnOk

(* The provisioning steps keep the shapes.                                 *)
LEMMA ProvisionShape == ShapeInv /\ Provision => ShapeInv'
<1> SUFFICES ASSUME ShapeInv, Provision PROVE ShapeInv'
  OBVIOUS
<1>0. /\ cloud \in CloudType /\ CloudOk(cloud) /\ own \in OwnType(own) /\ OwnOk(own)
      /\ NewId \in Nat /\ None \in Nat
  BY ShapeUsed, CloudStays DEF None
<1>1. CASE ResolveWarehouse
  <2> DEFINE new == [id |-> NewId, serverless |-> TRUE, managed |-> TRUE]
  <2>1. pc # "idle" /\ \E id : \E w \in {cloud, With("warehouses", new)} :
          Works("catalog", [own EXCEPT !.warehouse = id], w)
    BY <1>1 DEF ResolveWarehouse
  <2>2. CloudOk(With("warehouses", new))
    BY <1>0, WithShape DEF Warehouse
  <2>3. \A id : OwnOk([own EXCEPT !.warehouse = id])
    BY <1>0, OwnSets DEF OwnOk
  <2>4. QED
    BY <1>0, <2>1, <2>2, <2>3, WorksShape
<1>2. CASE EnsureCatalog
  <2> DEFINE w == [cloud EXCEPT !.catalog = cloud.catalog \/ settings.create]
  <2>1. pc # "idle" /\ Works("schema", own, w)
    BY <1>2 DEF EnsureCatalog
  <2>2. w \in CloudType
    BY <1>0, CloudSets
  <2>3. CloudOk(w)
    BY <1>0, <2>2 DEF CloudOk, CloudType
  <2>4. QED
    BY <1>0, <2>1, <2>3, WorksShape
<1>3. CASE EnsureSchema
  <2> DEFINE w == [cloud EXCEPT !.schemas = cloud.schemas \cup {"demo"}]
  <2>1. pc # "idle" /\ cloud.catalog /\ Works("table", own, w)
    BY <1>3 DEF EnsureSchema
  <2>2. cloud.schemas \in SUBSET {"demo", "other"}
    BY <1>0 DEF CloudType
  <2>3. CloudOk(w)
    BY <1>0, <2>1, <2>2, CloudOkSets, CloudStays
  <2>4. QED
    BY <1>0, <2>1, <2>3, WorksShape
<1>4. CASE EnsureTable
  <2>1. OwnOk(NextTable)
    BY <1>0, NextTableShape, OwnSets DEF OwnOk
  <2>2. CloudOk([cloud EXCEPT !.loads = [cloud.loads EXCEPT ![Table] = 0]])
    <3>1. [cloud.loads EXCEPT ![Table] = 0] \in [TableSet -> Nat \cup {Absent}]
      BY <1>0 DEF CloudType
    <3>2. QED
      BY <1>0, <3>1, CloudOkSets, CloudStays
  <2>3. \/ Works(AfterTable, NextTable, cloud)
        \/ Works("insert", own, [cloud EXCEPT !.loads = [cloud.loads EXCEPT ![Table] = 0]])
    BY <1>4 DEF EnsureTable
  <2>4. QED
    BY <1>0, <1>4, <2>1, <2>2, <2>3, WorksShape DEF EnsureTable
<1>5. CASE SubmitInsert
  <2> DEFINE w == [cloud EXCEPT !.inserts = cloud.inserts \cup {Mine(Table)}]
  <2>1. pc = "insert" /\ Works("loading", own, w)
    BY <1>5 DEF SubmitInsert
  <2>2. Mine(Table) \in [table: TableSet, run: 1..MaxRuns]
    BY <2>1, ShapeUsed DEF Mine, ShapeInv, HistoryType
  <2>3. cloud.inserts \cup {Mine(Table)} \in SUBSET [table: TableSet, run: 1..MaxRuns]
    BY <1>0, <2>2 DEF CloudType
  <2>4. CloudOk(w)
    BY <1>0, <2>3, CloudOkSets, CloudStays
  <2>5. QED
    BY <1>0, <2>1, <2>4, WorksShape
<1>6. CASE InsertDone
  <2>1. OwnOk(NextTable)
    BY <1>0, NextTableShape, OwnSets DEF OwnOk
  <2>2. QED
    BY <1>0, <1>6, <2>1, WorksShape DEF InsertDone
<1>7. CASE EnsureExperiment
  <2> DEFINE id == IF cloud.experiment # None THEN cloud.experiment ELSE NewId
             w  == [[cloud EXCEPT !.experiment = id] EXCEPT !.made = IF cloud.made < id THEN id ELSE cloud.made]
  <2>1. cloud.experiment \in Nat /\ cloud.made \in Nat
    BY <1>0 DEF CloudType
  <2>2. id \in Nat /\ (IF cloud.made < id THEN id ELSE cloud.made) \in Nat
    BY <1>0, <2>1
  <2>3. pc # "idle" /\ \/ Works("production", [own EXCEPT !.experiment = id], w)
                       \/ Fails("production", own, cloud)
    BY <1>7 DEF EnsureExperiment
  <2> HIDE DEF id
  <2>4. [cloud EXCEPT !.experiment = id] \in CloudType
    BY <1>0, <2>2, CloudSets
  <2>5. w \in CloudType
    BY <2>2, <2>4, CloudSets
  <2>6. CloudOk(w)
    BY <1>0, <2>5 DEF CloudOk, CloudType
  <2>7. OwnOk([own EXCEPT !.experiment = id])
    BY <1>0, <2>2, OwnSets DEF OwnOk
  <2> HIDE DEF w
  <2>8. QED
    BY <1>0, <2>3, <2>6, <2>7, WorksShape, FailsShape
<1>8. ASSUME NEW title \in {"production", "maintenance"}, NEW next, CreateSpace(title, next)
      PROVE  ShapeInv'
  <2> DEFINE w == With("spaces", [id |-> NewId, title |-> title])
             o == [own EXCEPT !.fallback = FALSE]
             p == [o EXCEPT ![title] = NewId]
             q == [own EXCEPT !.fallback = TRUE]
  <2>1. pc # "idle" /\ (Works(next, p, w) \/ Fails(title, q, w) \/ Fails(title, q, cloud))
    BY <1>8 DEF CreateSpace
  <2>2. CloudOk(w)
    BY <1>0, WithShape DEF Space
  <2>3. OwnOk(o) /\ OwnOk(q)
    BY <1>0, OwnSets DEF OwnOk
  <2>4. OwnOk(p)
    BY <1>0, <2>3, OwnSets DEF OwnOk
  <2> HIDE DEF w, p, q
  <2>5. QED
    BY <1>0, <2>1, <2>2, <2>3, <2>4, WorksShape, FailsShape
<1>9. CASE BuildSupervisor
  <2> DEFINE new == [id |-> NewId, name |-> "mine", tools |-> {}]
             end == [id |-> NewId, state |-> "NOT_READY"]
             v == With("agents", new)
             w == [v EXCEPT !.endpoints = v.endpoints \cup {end}]
             o == [own EXCEPT !.agent = NewId]
  <2>1. pc # "idle" /\ (Works("tools", o, w) \/ Fails("emit", own, w) \/ Fails("emit", own, cloud))
    BY <1>9 DEF BuildSupervisor
  <2>2. CloudOk(v)
    BY <1>0, WithShape DEF Agent
  <2>3. v.endpoints \cup {end} \in SUBSET Endpoint
    <3>1. end \in Endpoint /\ v.endpoints \in SUBSET Endpoint
      <4>1. v.endpoints \in SUBSET Endpoint
        BY <2>2 DEF CloudOk, CloudType
      <4>2. end \in Endpoint
        BY <1>0 DEF Endpoint
      <4>3. QED
        BY <4>1, <4>2
    <3>2. QED
      BY <3>1
  <2>4. CloudOk(w)
    BY <2>2, <2>3, CloudOkSets, CloudStays
  <2>5. OwnOk(o)
    BY <1>0, OwnSets DEF OwnOk
  <2> HIDE DEF w, o
  <2>6. QED
    BY <1>0, <2>1, <2>4, <2>5, WorksShape, FailsShape
<1>10. CASE CreateTool
  <2>1. PICK agent \in cloud.agents, space \in {own.production, own.maintenance}, n \in {"tools", "ready"} :
          Works(n, own, [cloud EXCEPT !.agents = (cloud.agents \ {agent})
                            \cup {[agent EXCEPT !.tools = agent.tools \cup {space}]}])
    BY <1>10 DEF CreateTool
  <2>2. cloud.agents \in SUBSET Agent /\ agent \in Agent /\ space \in Nat
    BY <1>0 DEF CloudType, OwnType
  <2>3. [agent EXCEPT !.tools = agent.tools \cup {space}] \in Agent
    BY <2>2 DEF Agent
  <2> DEFINE all == (cloud.agents \ {agent}) \cup {[agent EXCEPT !.tools = agent.tools \cup {space}]}
             w   == [cloud EXCEPT !.agents = all]
  <2>4. all \in SUBSET Agent
    BY <2>2, <2>3
  <2>5. Works(n, own, w)
    BY <2>1
  <2> HIDE DEF all
  <2>6. CloudOk(w)
    BY <1>0, <2>4, CloudOkSets, CloudStays
  <2>7. pc # "idle"
    BY <1>10 DEF CreateTool
  <2> HIDE DEF w
  <2>8. QED
    BY <1>0, <2>5, <2>6, <2>7, WorksShape
<1>11. CASE WaitReady
  <2>1. own.polls \in Nat /\ own.agent \in Nat
    BY <1>0 DEF OwnType
  <2>2. OwnOk([own EXCEPT !.confirmed = TRUE]) /\ OwnOk([own EXCEPT !.polls = own.polls + 1])
    <3>1. own.polls + 1 \in Nat
      BY <2>1
    <3>2. QED
      BY <1>0, <3>1, OwnSets DEF OwnOk
  <2>3. OwnOk(Target(own)) /\ OwnOk(Target([own EXCEPT !.confirmed = TRUE]))
    BY <1>0, <2>1, <2>2, OwnSets DEF OwnOk, Target
  <2>4. pc # "idle" /\ \/ Works("emit", Target([own EXCEPT !.confirmed = TRUE]), cloud)
                       \/ Works("ready", [own EXCEPT !.polls = own.polls + 1], cloud)
                       \/ Works("emit", Target(own), cloud)
    BY <1>11 DEF WaitReady
  <2>5. QED
    BY <1>0, <2>2, <2>3, <2>4, WorksShape
<1>12. CASE BuildConfig
  <2> DEFINE config == ConfigDict(EmittedVariants)
  <2>1. OwnOk([own EXCEPT !.config = config])
    BY <1>0, OwnSets DEF OwnOk
  <2>2. CASE Works("open", [own EXCEPT !.config = config], cloud)
    BY <1>0, <1>12, <2>1, <2>2, WorksShape DEF BuildConfig
  <2>3. CASE pc' = "idle" /\ outcome' = "rejected" /\ own' = Fresh
             /\ UNCHANGED <<settings, cloud, disk, history>>
    <3>1. own' \in OwnType(own')
      BY <2>3, Bounds DEF Fresh, OwnType, None
    <3>2. QED
      BY <2>3, <3>1 DEF ShapeInv
  <2>4. QED
    BY <1>12, <2>2, <2>3 DEF BuildConfig
<1>13. CASE OpenConfig
  <2> DEFINE c == IF disk.state = "whole" THEN Merged(disk.config, own.config) ELSE own.config
             files == [[disk EXCEPT !.state = "torn"] EXCEPT !.config = Empty]
  <2>1. pc # "idle" /\ Writes("fill", [own EXCEPT !.config = c], files)
    BY <1>13 DEF OpenConfig
  <2>2. OwnOk([own EXCEPT !.config = c])
    BY <1>0, OwnSets DEF OwnOk
  <2>3. files \in [state: {"absent", "torn", "whole"}, config: {files.config},
                   artifacts: {files.artifacts}]
    BY DEF ShapeInv
  <2> HIDE DEF files, c
  <2>4. QED
    BY <2>1, <2>2, <2>3, WritesShape
<1>14. CASE FillConfig
  <2> DEFINE files == [[disk EXCEPT !.state = "whole"] EXCEPT !.config = own.config]
  <2>1. pc # "idle" /\ Writes("questions", [own EXCEPT !.config = Empty], files)
    BY <1>14 DEF FillConfig
  <2>2. OwnOk([own EXCEPT !.config = Empty])
    BY <1>0, OwnSets DEF OwnOk
  <2>3. files \in [state: {"absent", "torn", "whole"}, config: {files.config},
                   artifacts: {files.artifacts}]
    BY DEF ShapeInv
  <2> HIDE DEF files
  <2>4. QED
    BY <2>1, <2>2, <2>3, WritesShape
<1>15. CASE WriteQuestions
  BY <1>15 DEF WriteQuestions, ShapeInv
<1>16. QED
  BY <1>1, <1>2, <1>3, <1>4, <1>5, <1>6, <1>7, <1>8, <1>9, <1>10, <1>11, <1>12, <1>13, <1>14, <1>15
  DEF Provision, CreateProduction, CreateMaintenance

(* So do the steps of the teardown.                                        *)
LEMMA IdsAreNumbers ==
  ASSUME ShapeInv
  PROVE  /\ Ids(Titled) \in SUBSET Nat /\ Ids(Named) \in SUBSET Nat
         /\ \A S \in SUBSET Nat : OwnOk(Todo(S))
         /\ own.todo \in SUBSET Nat
<1>1. /\ \A s \in cloud.spaces : s \in Space
      /\ \A a \in cloud.agents : a \in Agent
  BY ShapeUsed DEF CloudType
<1>2. (\A s \in cloud.spaces : s.id \in Nat) /\ \A a \in cloud.agents : a.id \in Nat
  BY <1>1 DEF Space, Agent
<1>3. Ids(Titled) \in SUBSET Nat /\ Ids(Named) \in SUBSET Nat
  BY <1>2 DEF Ids, Titled, Named
<1>4. \A S \in SUBSET Nat : OwnOk(Todo(S))
  BY ShapeUsed, OwnSets DEF OwnOk, Todo
<1>5. own.todo \in SUBSET Nat
  BY ShapeUsed DEF OwnType
<1>6. QED
  BY <1>3, <1>4, <1>5

LEMMA TeardownShape == ShapeInv /\ Teardown => ShapeInv'
<1> SUFFICES ASSUME ShapeInv, Teardown PROVE ShapeInv'
  OBVIOUS
<1>0. /\ cloud \in CloudType /\ CloudOk(cloud) /\ own \in OwnType(own) /\ OwnOk(own)
      /\ own.todo \in SUBSET Nat /\ None \in Nat
  BY ShapeUsed, CloudStays, IdsAreNumbers DEF None
<1>1. CASE ListSpaces
  <2>1. pc # "idle" /\ \/ Works("trash", Todo(Ids(Titled)), cloud)
                       \/ Fails(AfterSpaces, own, cloud)
    BY <1>1 DEF ListSpaces
  <2>2. QED
    BY <1>0, <2>1, IdsAreNumbers, WorksShape, FailsShape
<1>2. CASE TrashSpace
  <2>1. CASE Works(AfterSpaces, own, cloud)
    BY <1>0, <1>2, <2>1, WorksShape DEF TrashSpace
  <2>2. ASSUME NEW id \in own.todo,
               \/ Works("trash", Todo(own.todo \ {id}),
                        Without("spaces", {s \in cloud.spaces : s.id = id}))
               \/ Fails(AfterSpaces, Todo({}), cloud)
        PROVE  ShapeInv'
    <3>1. OwnOk(Todo(own.todo \ {id})) /\ OwnOk(Todo({}))
      BY <1>0, IdsAreNumbers
    <3>2. CloudOk(Without("spaces", {s \in cloud.spaces : s.id = id}))
      BY WithoutShape
    <3>3. pc # "idle"
      BY <1>2 DEF TrashSpace
    <3>4. QED
      BY <1>0, <2>2, <3>1, <3>2, <3>3, WorksShape, FailsShape
  <2>3. QED
    BY <1>2, <2>1, <2>2 DEF TrashSpace
<1>3. CASE ListAgents
  <2>1. pc # "idle" /\ \/ Works("delete_agents", Todo(Ids(Named)), cloud)
                       \/ Fails("delete_experiment", own, cloud)
    BY <1>3 DEF ListAgents
  <2>2. QED
    BY <1>0, <2>1, IdsAreNumbers, WorksShape, FailsShape
<1>4. CASE DeleteAgent
  <2>1. CASE Works("delete_experiment", own, cloud)
    BY <1>0, <1>4, <2>1, WorksShape DEF DeleteAgent
  <2>2. ASSUME NEW id \in own.todo, NEW e \in {{}, Endpoints(id)}
        PROVE  LET gone == Without("agents", {a \in cloud.agents : a.id = id})
                   next == [Todo(own.todo \ {id}) EXCEPT !.agent = id]
               IN /\ Works("delete_endpoint", next, [gone EXCEPT !.endpoints = gone.endpoints \ e])
                       => ShapeInv'
                  /\ Fails("delete_agents", next, cloud) => ShapeInv'
    <3> DEFINE gone == Without("agents", {a \in cloud.agents : a.id = id})
               next == [Todo(own.todo \ {id}) EXCEPT !.agent = id]
               w    == [gone EXCEPT !.endpoints = gone.endpoints \ e]
    <3>1. OwnOk(Todo(own.todo \ {id})) /\ id \in Nat
      BY <1>0, <2>2, IdsAreNumbers
    <3>2. OwnOk(next)
      BY <3>1, OwnSets DEF OwnOk
    <3>3. CloudOk(gone)
      BY WithoutShape
    <3>4. gone.endpoints \ e \in SUBSET Endpoint
      BY <3>3 DEF CloudOk, CloudType
    <3>5. CloudOk(w)
      BY <3>3, <3>4, CloudOkSets, CloudStays
    <3>6. pc # "idle"
      BY <1>4 DEF DeleteAgent
    <3> HIDE DEF next, w, gone
    <3>7. QED
      BY <1>0, <3>2, <3>5, <3>6, WorksShape, FailsShape DEF next, w, gone
  <2>3. QED
    BY <1>4, <2>1, <2>2 DEF DeleteAgent
<1>5. CASE DeleteEndpoint
  <2>1. /\ pc # "idle"
        /\ \/ Works("delete_agents", own, Without("endpoints", Endpoints(own.agent)))
           \/ Fails("delete_agents", own, cloud)
    BY <1>5 DEF DeleteEndpoint
  <2>2. QED
    BY <1>0, <2>1, WithoutShape, WorksShape, FailsShape
<1>6. CASE DeleteExperiment
  <2> DEFINE w == [cloud EXCEPT !.experiment = None]
  <2>1. pc # "idle" /\ \/ Works("find_warehouse", own, w)
                       \/ Fails("find_warehouse", own, cloud)
    BY <1>6 DEF DeleteExperiment
  <2>2. CloudOk(w)
    BY <1>0, CloudOkSets, CloudStays
  <2> HIDE DEF w
  <2>3. QED
    BY <1>0, <2>1, <2>2, WorksShape, FailsShape
<1>7. CASE FindWarehouse
  <2>1. /\ pc # "idle"
        /\ \/ \E id : Works("drop_schema", [own EXCEPT !.warehouse = id], cloud)
           \/ Works("delete_warehouses", own, cloud)
    BY <1>7 DEF FindWarehouse
  <2>2. \A id : OwnOk([own EXCEPT !.warehouse = id])
    BY <1>0, OwnSets DEF OwnOk
  <2>3. QED
    BY <1>0, <2>1, <2>2, WorksShape
<1>8. CASE DropSchema
  <2> DEFINE v == [cloud EXCEPT !.schemas = cloud.schemas \ {"demo"}]
             w == [v EXCEPT !.loads = NoTables]
  <2>1. pc # "idle" /\ \/ Works("drop_catalog", own, w)
                       \/ Fails("delete_warehouses", own, cloud)
    BY <1>8 DEF DropSchema
  <2>2. cloud.schemas \ {"demo"} \in SUBSET {"demo", "other"}
    BY <1>0 DEF CloudType
  <2>3. CloudOk(v)
    <3>1. v \in CloudType
      BY <1>0, <2>2, CloudSets
    <3>2. v.catalog = cloud.catalog /\ v.schemas = cloud.schemas \ {"demo"}
      BY <1>0 DEF CloudType
    <3>3. QED
      BY <1>0, <3>1, <3>2 DEF CloudOk
  <2>4. NoTables \in [TableSet -> Nat \cup {Absent}]
    BY DEF NoTables
  <2>5. CloudOk(w)
    BY <2>3, <2>4, CloudOkSets, CloudStays
  <2> HIDE DEF w
  <2>6. QED
    BY <1>0, <2>1, <2>5, WorksShape, FailsShape
<1>9. CASE DropCatalog
  <2> DEFINE v == [cloud EXCEPT !.catalog = FALSE]
             w == [v EXCEPT !.schemas = {}]
  <2>1. pc # "idle" /\ \/ Works("delete_warehouses", own, w)
                       \/ Fails("delete_warehouses", own, cloud)
                       \/ Works("delete_warehouses", own, cloud)
    BY <1>9 DEF DropCatalog
  <2>2. v \in CloudType
    BY <1>0, CloudSets
  <2>3. w \in CloudType
    BY <2>2, CloudSets
  <2>4. CloudOk(w)
    BY <2>2, <2>3 DEF CloudOk, CloudType
  <2> HIDE DEF w
  <2>5. QED
    BY <1>0, <2>1, <2>4, WorksShape, FailsShape
<1>10. CASE DeleteWarehouses
  <2>1. /\ pc # "idle"
        /\ \/ \E w : Works("delete_warehouses", own, Without("warehouses", {w}))
           \/ Fails("remove_config", own, cloud)
           \/ Works("remove_config", own, cloud)
    BY <1>10 DEF DeleteWarehouses
  <2>2. QED
    BY <1>0, <2>1, WithoutShape, WorksShape, FailsShape
<1>11. CASE RemoveConfig
  <2> DEFINE knows == [own EXCEPT !.output = Get(disk.config, "output_dir", "outputs")]
             files == [[disk EXCEPT !.state = "absent"] EXCEPT !.config = Empty]
  <2>1. /\ pc # "idle"
        /\ \/ Writes("remove_rest", knows, files)
           \/ Fails("remove_rest", knows, cloud)
    BY <1>11 DEF RemoveConfig
  <2>2. OwnOk(knows)
    BY <1>0, OwnSets DEF OwnOk
  <2>3. files \in [state: {"absent", "torn", "whole"}, config: {files.config},
                   artifacts: {files.artifacts}]
    BY DEF ShapeInv
  <2> HIDE DEF files, knows
  <2>4. QED
    BY <1>0, <2>1, <2>2, <2>3, WritesShape, FailsShape
<1>12. CASE RemoveArtifacts
  <2>1. /\ \E items : disk' = [disk EXCEPT !.artifacts = disk.artifacts \ items]
        /\ pc' = "idle" /\ outcome' = "torn_down" /\ UNCHANGED cloud
        /\ \/ UNCHANGED <<own, history>>
           \/ /\ history.faults < MaxFaults /\ own' = [own EXCEPT !.clean = FALSE]
              /\ history' = [history EXCEPT !.faults = history.faults + 1]
    BY <1>12 DEF RemoveArtifacts
  <2>2. disk' \in [state: {"absent", "torn", "whole"}, config: {disk'.config},
                   artifacts: {disk'.artifacts}]
    BY <2>1 DEF ShapeInv
  <2>3. own' \in OwnType(own')
    BY <1>0, <2>1, OwnSets
  <2>4. history' \in HistoryType
    <3>1. history.faults < MaxFaults => history.faults + 1 \in 0..MaxFaults
      BY ShapeUsed, Bounds
    <3>2. QED
      BY <2>1, <3>1, HistorySets DEF ShapeInv
  <2>5. QED
    BY <2>1, <2>2, <2>3, <2>4 DEF ShapeInv
<1>13. QED
  BY <1>1, <1>2, <1>3, <1>4, <1>5, <1>6, <1>7, <1>8, <1>9, <1>10, <1>11, <1>12 DEF Teardown

LEMMA FreshIsOk == OwnOk(Fresh)
BY Bounds DEF Fresh, OwnType, OwnOk, None

(* Every step does: the types of the model's state.                        *)
LEMMA StepShape == ShapeInv /\ [Next]_vars => ShapeInv'
<1> SUFFICES ASSUME ShapeInv, [Next]_vars PROVE ShapeInv'
  OBVIOUS
<1>0. /\ cloud \in CloudType /\ CloudOk(cloud) /\ history \in HistoryType
  BY CloudStays DEF ShapeInv
<1>1. CASE Start
  <2>1. history.runs + 1 \in 0..MaxRuns /\ history.runs + 1 >= 1
    BY <1>1, ShapeUsed, Bounds DEF Start
  <2>2. history' \in HistoryType /\ history'.runs >= 1
    BY <1>0, <1>1, <2>1, HistorySets DEF Start, HistoryType
  <2>3. QED
    BY <1>1, <2>2, FreshIsOk DEF Start, ShapeInv, OwnOk
<1>2. CASE Abort
  <2> DEFINE fewer == cloud.inserts \ {Mine(Table)}
  <2>1. fewer \in SUBSET [table: TableSet, run: 1..MaxRuns]
    BY <1>0 DEF CloudType
  <2>2. CloudOk([cloud EXCEPT !.inserts = fewer])
    BY <1>0, <2>1, CloudOkSets, CloudStays
  <2>3. CloudOk(cloud')
    BY <1>0, <1>2, <2>2 DEF Abort
  <2> DEFINE n == IF Mine(Table) \in cloud'.inserts THEN history.left[Table] + 1
                  ELSE history.left[Table]
             left == [history.left EXCEPT ![Table] = n]
             h == [history EXCEPT !.faults = history.faults + 1]
  <2>4. history' = [h EXCEPT !.left = left]
    BY <1>0, <1>2 DEF Abort, HistoryType
  <2>5. history.faults + 1 \in 0..MaxFaults
    BY <1>2, ShapeUsed, Bounds DEF Abort
  <2>6. h \in HistoryType /\ h.runs = history.runs
    BY <1>0, <2>5, HistorySets DEF HistoryType
  <2>7. left \in [TableSet -> Nat]
    <3>1. history.left \in [TableSet -> Nat]
      BY <1>0 DEF HistoryType
    <3>2. history.left[Table] \in Nat
      BY <3>1, ShapeUsed
    <3>3. n \in Nat
      BY <3>2
    <3> HIDE DEF n
    <3>4. QED
      BY <3>1, <3>3
  <2> HIDE DEF left, h
  <2>8. history' \in HistoryType /\ history'.runs = history.runs
    BY <2>4, <2>6, <2>7, HistorySets DEF HistoryType
  <2>9. QED
    BY <1>2, <2>3, <2>8, FreshIsOk DEF Abort, ShapeInv, CloudOk, OwnOk
<1>3. CASE Execute
  <2>1. PICK i \in cloud.inserts :
          cloud' = [[cloud EXCEPT !.inserts = cloud.inserts \ {i}] EXCEPT !.loads =
                      [cloud.loads EXCEPT ![i.table] =
                         IF cloud.loads[i.table] = Absent THEN Absent
                         ELSE cloud.loads[i.table] + 1]]
    BY <1>0, <1>3 DEF Execute, CloudType
  <2> DEFINE v == [cloud EXCEPT !.inserts = cloud.inserts \ {i}]
             n == IF cloud.loads[i.table] = Absent THEN Absent ELSE cloud.loads[i.table] + 1
             loads == [cloud.loads EXCEPT ![i.table] = n]
  <2>2. cloud.inserts \ {i} \in SUBSET [table: TableSet, run: 1..MaxRuns] /\ i.table \in TableSet
    BY <1>0 DEF CloudType
  <2>3. CloudOk(v)
    BY <1>0, <2>2, CloudOkSets, CloudStays
  <2>4. cloud.loads \in [TableSet -> Nat \cup {Absent}]
    BY <1>0 DEF CloudType
  <2>5. n \in Nat \cup {Absent}
    BY <2>2, <2>4
  <2> HIDE DEF n
  <2>6. loads \in [TableSet -> Nat \cup {Absent}]
    BY <2>4, <2>5
  <2>7. cloud' = [v EXCEPT !.loads = loads]
    BY <2>1 DEF n
  <2> HIDE DEF v, loads
  <2>8. CloudOk(cloud')
    BY <2>3, <2>6, <2>7, CloudOkSets, CloudStays
  <2>9. QED
    BY <1>3, <2>8 DEF Execute, ShapeInv, CloudOk
<1>4. CASE EndpointReady
  <2>1. PICK e \in cloud.endpoints :
          cloud' = [cloud EXCEPT !.endpoints =
                      (cloud.endpoints \ {e}) \cup {[e EXCEPT !.state = "READY"]}]
    BY <1>4 DEF EndpointReady
  <2>2. cloud.endpoints \in SUBSET Endpoint /\ e \in Endpoint
    BY <1>0 DEF CloudType
  <2>3. [e EXCEPT !.state = "READY"] \in Endpoint
    BY <2>2 DEF Endpoint
  <2> DEFINE all == (cloud.endpoints \ {e}) \cup {[e EXCEPT !.state = "READY"]}
  <2>4. all \in SUBSET Endpoint
    BY <2>2, <2>3
  <2>5. cloud' = [cloud EXCEPT !.endpoints = all]
    BY <2>1
  <2> HIDE DEF all
  <2>6. CloudOk(cloud')
    BY <1>0, <2>4, <2>5, CloudOkSets, CloudStays
  <2>7. QED
    BY <1>4, <2>6 DEF EndpointReady, ShapeInv, CloudOk
<1>5. CASE EditConfig \/ UseHarness
  <2>1. /\ \E c, a : disk' \in {[disk EXCEPT !.config = c], [disk EXCEPT !.artifacts = a]}
        /\ own' = Fresh /\ outcome' = "none" /\ UNCHANGED <<cloud, pc, history>>
    BY <1>5 DEF EditConfig, UseHarness
  <2>2. disk' \in [state: {"absent", "torn", "whole"}, config: {disk'.config},
                   artifacts: {disk'.artifacts}]
    BY <2>1 DEF ShapeInv
  <2>3. QED
    BY <2>1, <2>2, FreshIsOk DEF ShapeInv, OwnOk
<1>6. CASE UNCHANGED vars
  BY <1>6 DEF vars, ShapeInv
<1>7. QED
  BY <1>1, <1>2, <1>3, <1>4, <1>5, <1>6, ProvisionShape, TeardownShape DEF Next

-----------------------------------------------------------------------------
(* What the steps do to spaces, agents and endpoints, and to the locals    *)
(* that name them. First those that make or remove one.                    *)
LEMMA CreateSpaceDoes ==
  ASSUME ShapeInv, NEW title \in {"production", "maintenance"}, NEW next, CreateSpace(title, next)
  PROVE  /\ pc = title /\ UNCHANGED <<cloud.agents, cloud.endpoints, settings, disk, outcome>>
         /\ UNCHANGED <<own.agent, own.target, own.todo, own.config>>
         /\ \/ UNCHANGED <<cloud.made, cloud.spaces>>
            \/ /\ cloud'.made = NewId
               /\ cloud'.spaces = cloud.spaces \cup {[id |-> NewId, title |-> title]}
         /\ \/ pc' = title /\ UNCHANGED <<own.production, own.maintenance>>
            \/ /\ pc' = next /\ cloud'.made = NewId
               /\ cloud'.spaces = cloud.spaces \cup {[id |-> NewId, title |-> title]}
               /\ own'.production = IF title = "production" THEN NewId ELSE own.production
               /\ own'.maintenance = IF title = "maintenance" THEN NewId ELSE own.maintenance
<1> DEFINE x == [id |-> NewId, title |-> title]
           w == With("spaces", x)
           o == [own EXCEPT !.fallback = FALSE]
<1>0. cloud \in CloudType /\ own \in OwnType(own) /\ NewId \in Nat
  BY ShapeUsed
<1>1. w = [[cloud EXCEPT !.made = NewId] EXCEPT !.spaces = cloud.spaces \cup {x}]
  BY <1>0, WithShape DEF Space
<1>2. /\ w.made = NewId /\ w.spaces = cloud.spaces \cup {x}
      /\ w.agents = cloud.agents /\ w.endpoints = cloud.endpoints
  BY <1>0, <1>1 DEF CloudType
<1>3. CASE Works(next, [o EXCEPT ![title] = NewId], w)
  <2>1. pc = title /\ pc' = next /\ cloud' = w /\ own' = [o EXCEPT ![title] = NewId]
        /\ UNCHANGED <<settings, disk, outcome>>
    BY <1>3 DEF Works, CreateSpace
  <2>2. o \in OwnType(o) /\ UNCHANGED <<settings>>
    BY <1>0, <2>1, OwnSets
  <2>3. /\ o.production = own.production /\ o.maintenance = own.maintenance /\ o.agent = own.agent
        /\ o.target = own.target /\ o.todo = own.todo /\ o.config = own.config
    BY <1>0 DEF OwnType
  <2> HIDE DEF o, w
  <2>4. CASE title = "production"
    BY <1>2, <2>1, <2>2, <2>3, <2>4 DEF OwnType
  <2>5. CASE title = "maintenance"
    BY <1>2, <2>1, <2>2, <2>3, <2>5 DEF OwnType
  <2>6. QED
    BY <2>4, <2>5
<1>4. CASE \E v \in {cloud, w} : Fails(title, [own EXCEPT !.fallback = TRUE], v)
  <2>1. PICK v \in {cloud, w} : Fails(title, [own EXCEPT !.fallback = TRUE], v)
    BY <1>4
  <2>2. own' = [[own EXCEPT !.fallback = TRUE] EXCEPT !.clean = FALSE] /\ cloud' = v
        /\ pc' = title /\ UNCHANGED <<settings, disk, outcome>>
    BY <2>1 DEF Fails
  <2>3. UNCHANGED <<own.production, own.maintenance, own.agent, own.target, own.todo, own.config>>
    BY <1>0, <2>2 DEF OwnType
  <2>4. pc = title
    BY DEF CreateSpace
  <2> HIDE DEF w
  <2>5. QED
    BY <1>2, <2>1, <2>2, <2>3, <2>4
<1>5. QED
  BY <1>3, <1>4 DEF CreateSpace

LEMMA BuildSupervisorDoes ==
  ASSUME ShapeInv, BuildSupervisor
  PROVE  /\ pc = "agent" /\ UNCHANGED <<cloud.spaces, settings, disk, outcome>>
         /\ UNCHANGED <<own.production, own.maintenance, own.target, own.todo, own.config>>
         /\ \/ UNCHANGED <<cloud.made, cloud.agents, cloud.endpoints>>
            \/ /\ cloud'.made = NewId
               /\ cloud'.agents = cloud.agents \cup {[id |-> NewId, name |-> "mine", tools |-> {}]}
               /\ cloud'.endpoints = cloud.endpoints \cup {[id |-> NewId, state |-> "NOT_READY"]}
         /\ \/ pc' = "emit" /\ UNCHANGED own.agent
            \/ /\ pc' = "tools" /\ own'.agent = NewId /\ cloud'.made = NewId
               /\ cloud'.agents = cloud.agents \cup {[id |-> NewId, name |-> "mine", tools |-> {}]}
               /\ cloud'.endpoints = cloud.endpoints \cup {[id |-> NewId, state |-> "NOT_READY"]}
<1> DEFINE new == [id |-> NewId, name |-> "mine", tools |-> {}]
           end == [id |-> NewId, state |-> "NOT_READY"]
           v   == With("agents", new)
           w   == [v EXCEPT !.endpoints = v.endpoints \cup {end}]
<1>0. cloud \in CloudType /\ own \in OwnType(own) /\ NewId \in Nat
  BY ShapeUsed
<1>1. v = [[cloud EXCEPT !.made = NewId] EXCEPT !.agents = cloud.agents \cup {new}] /\ CloudOk(v)
  BY <1>0, WithShape DEF Agent
<1>2. /\ v.made = NewId /\ v.spaces = cloud.spaces
      /\ v.agents = cloud.agents \cup {new} /\ v.endpoints = cloud.endpoints
  BY <1>0, <1>1 DEF CloudType
<1> HIDE DEF v
<1>3. /\ w.made = NewId /\ w.spaces = cloud.spaces
      /\ w.agents = cloud.agents \cup {new} /\ w.endpoints = cloud.endpoints \cup {end}
  BY <1>1, <1>2 DEF CloudOk, CloudType
<1> HIDE DEF w
<1>4. \/ Works("tools", [own EXCEPT !.agent = NewId], w)
      \/ Fails("emit", own, w) \/ Fails("emit", own, cloud)
  BY DEF BuildSupervisor, w, v
<1>5. CASE Works("tools", [own EXCEPT !.agent = NewId], w)
  <2>1. pc' = "tools" /\ cloud' = w /\ own' = [own EXCEPT !.agent = NewId]
        /\ UNCHANGED <<settings, disk, outcome>>
    BY <1>5 DEF Works
  <2>2. /\ own'.agent = NewId
        /\ UNCHANGED <<own.production, own.maintenance, own.target, own.todo, own.config>>
    BY <1>0, <2>1 DEF OwnType
  <2>3. QED
    BY <1>3, <2>1, <2>2 DEF BuildSupervisor
<1>6. CASE Fails("emit", own, w) \/ Fails("emit", own, cloud)
  <2>1. /\ pc' = "emit" /\ cloud' \in {cloud, w} /\ own' = [own EXCEPT !.clean = FALSE]
        /\ UNCHANGED <<settings, disk, outcome>>
    BY <1>6 DEF Fails
  <2>2. UNCHANGED <<own.production, own.maintenance, own.agent, own.target, own.todo, own.config>>
    BY <1>0, <2>1 DEF OwnType
  <2>3. QED
    BY <1>3, <2>1, <2>2 DEF BuildSupervisor
<1>7. QED
  BY <1>4, <1>5, <1>6

LEMMA CreateToolDoes ==
  ASSUME ShapeInv, CreateTool
  PROVE  /\ pc = "tools" /\ UNCHANGED <<cloud.made, cloud.spaces, cloud.endpoints>>
         /\ UNCHANGED <<own, settings, disk, outcome>>
         /\ \E agent \in cloud.agents :
              LET space == IF agent.tools = {} THEN own.production ELSE own.maintenance
              IN /\ agent.id = own.agent /\ agent \in Agent
                 /\ pc' = IF agent.tools = {} THEN "tools" ELSE "ready"
                 /\ cloud'.agents = (cloud.agents \ {agent})
                                    \cup {[agent EXCEPT !.tools = agent.tools \cup {space}]}
<1> DEFINE agent == CHOOSE a \in cloud.agents : a.id = own.agent
           space == IF agent.tools = {} THEN own.production ELSE own.maintenance
           all   == (cloud.agents \ {agent}) \cup {[agent EXCEPT !.tools = agent.tools \cup {space}]}
<1>0. cloud \in CloudType
  BY ShapeUsed
<1>1. agent \in cloud.agents /\ agent.id = own.agent
  BY DEF CreateTool
<1>2. agent \in Agent
  BY <1>0, <1>1 DEF CloudType
<1>3. /\ pc = "tools" /\ pc' = IF agent.tools = {} THEN "tools" ELSE "ready"
      /\ cloud' = [cloud EXCEPT !.agents = all] /\ UNCHANGED <<own, settings, disk, outcome>>
  BY DEF CreateTool, Works
<1> HIDE DEF all, agent
<1>4. /\ UNCHANGED <<cloud.made, cloud.spaces, cloud.endpoints>> /\ cloud'.agents = all
  BY <1>0, <1>3 DEF CloudType
<1>5. QED
  BY <1>1, <1>2, <1>3, <1>4 DEF all

LEMMA TrashSpaceDoes ==
  ASSUME ShapeInv, TrashSpace
  PROVE  /\ pc = "trash" /\ pc' \in {"trash", "list_agents", "delete_experiment"}
         /\ UNCHANGED <<cloud.made, cloud.agents, cloud.endpoints, settings, disk, outcome, own.target>>
         /\ own'.todo \subseteq own.todo
         /\ \/ UNCHANGED cloud.spaces
            \/ \E id \in own.todo : cloud'.spaces = cloud.spaces \ {s \in cloud.spaces : s.id = id}
<1>0. cloud \in CloudType /\ own \in OwnType(own)
  BY ShapeUsed
<1>1. pc = "trash" /\ AfterSpaces \in {"list_agents", "delete_experiment"}
  BY DEF TrashSpace, AfterSpaces
<1>2. CASE Works(AfterSpaces, own, cloud)
  BY <1>1, <1>2 DEF Works
<1>3. ASSUME NEW id \in own.todo,
             Works("trash", Todo(own.todo \ {id}),
                   Without("spaces", {s \in cloud.spaces : s.id = id}))
      PROVE  /\ pc' = "trash" /\ UNCHANGED <<settings, disk, outcome>>
             /\ UNCHANGED <<cloud.made, cloud.agents, cloud.endpoints, own.target>>
             /\ own'.todo = own.todo \ {id}
             /\ cloud'.spaces = cloud.spaces \ {s \in cloud.spaces : s.id = id}
  <2>1. /\ cloud' = [cloud EXCEPT !.spaces = cloud.spaces \ {s \in cloud.spaces : s.id = id}]
        /\ own' = [own EXCEPT !.todo = own.todo \ {id}]
    BY <1>3, WithoutShape DEF Works, Todo
  <2>2. QED
    BY <1>0, <1>3, <2>1 DEF Works, CloudType, OwnType
<1>4. CASE Fails(AfterSpaces, Todo({}), cloud)
  <2>1. own' = [[own EXCEPT !.todo = {}] EXCEPT !.clean = FALSE] /\ cloud' = cloud
        /\ pc' = AfterSpaces /\ UNCHANGED <<settings, disk, outcome>>
    BY <1>4 DEF Fails, Todo
  <2>2. own'.todo = {} /\ UNCHANGED own.target
    BY <1>0, <2>1 DEF OwnType
  <2>3. QED
    BY <1>1, <2>1, <2>2
<1>5. QED
  BY <1>1, <1>2, <1>3, <1>4 DEF TrashSpace

LEMMA DeleteAgentDoes ==
  ASSUME ShapeInv, DeleteAgent
  PROVE  /\ pc = "delete_agents" /\ pc' \in {"delete_agents", "delete_endpoint", "delete_experiment"}
         /\ UNCHANGED <<cloud.made, cloud.spaces, settings, disk, outcome, own.target>>
         /\ own'.todo \subseteq own.todo
         /\ pc' = "delete_endpoint" => own'.agent \in own.todo
         /\ \/ UNCHANGED <<cloud.agents, cloud.endpoints>>
            \/ \E id \in own.todo, e \in {{}, Endpoints(own'.agent)} :
                 /\ own'.agent = id
                 /\ cloud'.agents = cloud.agents \ {a \in cloud.agents : a.id = id}
                 /\ cloud'.endpoints = cloud.endpoints \ e
<1>0. cloud \in CloudType /\ own \in OwnType(own)
  BY ShapeUsed
<1>1. pc = "delete_agents"
  BY DEF DeleteAgent
<1>2. CASE Works("delete_experiment", own, cloud)
  BY <1>1, <1>2 DEF Works
<1>3. ASSUME NEW id \in own.todo, NEW e \in {{}, Endpoints(id)},
             LET gone == Without("agents", {a \in cloud.agents : a.id = id})
                 next == [Todo(own.todo \ {id}) EXCEPT !.agent = id]
             IN Works("delete_endpoint", next, [gone EXCEPT !.endpoints = gone.endpoints \ e])
      PROVE  /\ pc' = "delete_endpoint" /\ UNCHANGED <<settings, disk, outcome>>
             /\ UNCHANGED <<cloud.made, cloud.spaces, own.target>>
             /\ own'.todo = own.todo \ {id} /\ own'.agent = id
             /\ cloud'.agents = cloud.agents \ {a \in cloud.agents : a.id = id}
             /\ cloud'.endpoints = cloud.endpoints \ e
  <2> DEFINE gone == Without("agents", {a \in cloud.agents : a.id = id})
  <2>1. gone = [cloud EXCEPT !.agents = cloud.agents \ {a \in cloud.agents : a.id = id}]
        /\ CloudOk(gone)
    BY WithoutShape
  <2>2. /\ gone.made = cloud.made /\ gone.spaces = cloud.spaces /\ gone.endpoints = cloud.endpoints
        /\ gone.agents = cloud.agents \ {a \in cloud.agents : a.id = id}
    BY <1>0, <2>1 DEF CloudType
  <2> HIDE DEF gone
  <2>3. /\ cloud' = [gone EXCEPT !.endpoints = gone.endpoints \ e] /\ pc' = "delete_endpoint"
        /\ own' = [[own EXCEPT !.todo = own.todo \ {id}] EXCEPT !.agent = id]
        /\ UNCHANGED <<settings, disk, outcome>>
    BY <1>3 DEF Works, Todo, gone
  <2>4. own'.todo = own.todo \ {id} /\ own'.agent = id /\ UNCHANGED own.target
    BY <1>0, <2>3 DEF OwnType
  <2>5. /\ cloud'.made = gone.made /\ cloud'.spaces = gone.spaces /\ cloud'.agents = gone.agents
        /\ cloud'.endpoints = gone.endpoints \ e
    BY <2>1, <2>3 DEF CloudOk, CloudType
  <2>6. QED
    BY <2>2, <2>3, <2>4, <2>5
<1>4. ASSUME NEW id \in own.todo,
             Fails("delete_agents", [Todo(own.todo \ {id}) EXCEPT !.agent = id], cloud)
      PROVE  /\ pc' = "delete_agents" /\ UNCHANGED <<cloud, settings, disk, outcome, own.target>>
             /\ own'.todo = own.todo \ {id}
  <2>1. /\ own' = [[[own EXCEPT !.todo = own.todo \ {id}] EXCEPT !.agent = id] EXCEPT !.clean = FALSE]
        /\ pc' = "delete_agents" /\ UNCHANGED <<cloud, settings, disk, outcome>>
    BY <1>4 DEF Fails, Todo
  <2>2. QED
    BY <1>0, <2>1 DEF OwnType
<1>5. QED
  BY <1>1, <1>2, <1>3, <1>4 DEF DeleteAgent

LEMMA DeleteEndpointDoes ==
  ASSUME ShapeInv, DeleteEndpoint
  PROVE  /\ pc = "delete_endpoint" /\ pc' = "delete_agents"
         /\ UNCHANGED <<cloud.made, cloud.spaces, cloud.agents, settings, disk, outcome>>
         /\ UNCHANGED <<own.todo, own.target>>
         /\ cloud'.endpoints \in {cloud.endpoints, cloud.endpoints \ Endpoints(own.agent)}
<1>0. cloud \in CloudType /\ own \in OwnType(own)
  BY ShapeUsed
<1>1. CASE Works("delete_agents", own, Without("endpoints", Endpoints(own.agent)))
  <2>1. cloud' = [cloud EXCEPT !.endpoints = cloud.endpoints \ Endpoints(own.agent)] /\ own' = own
        /\ pc' = "delete_agents" /\ UNCHANGED <<settings, disk, outcome>>
    BY <1>1, WithoutShape DEF Works
  <2>2. QED
    BY <1>0, <2>1 DEF CloudType, DeleteEndpoint
<1>2. CASE Fails("delete_agents", own, cloud)
  <2>1. cloud' = cloud /\ own' = [own EXCEPT !.clean = FALSE]
        /\ pc' = "delete_agents" /\ UNCHANGED <<settings, disk, outcome>>
    BY <1>2 DEF Fails
  <2>2. QED
    BY <1>0, <2>1 DEF OwnType, DeleteEndpoint
<1>3. QED
  BY <1>1, <1>2 DEF DeleteEndpoint

LEMMA EndpointReadyDoes ==
  ASSUME ShapeInv, EndpointReady
  PROVE  /\ UNCHANGED <<cloud.made, cloud.spaces, cloud.agents, settings, disk, pc, own, outcome>>
         /\ \E e \in cloud.endpoints : \E f \in Endpoint :
              f.id = e.id /\ cloud'.endpoints = (cloud.endpoints \ {e}) \cup {f}
<1>0. cloud \in CloudType
  BY ShapeUsed
<1>1. PICK e \in cloud.endpoints :
        cloud' = [cloud EXCEPT !.endpoints = (cloud.endpoints \ {e}) \cup {[e EXCEPT !.state = "READY"]}]
  BY DEF EndpointReady
<1> DEFINE f == [e EXCEPT !.state = "READY"]
           all == (cloud.endpoints \ {e}) \cup {f}
<1>2. e \in Endpoint
  BY <1>0 DEF CloudType
<1>3. f \in Endpoint /\ f.id = e.id
  BY <1>2 DEF Endpoint
<1>4. cloud' = [cloud EXCEPT !.endpoints = all]
  BY <1>1
<1> HIDE DEF f, all
<1>5. UNCHANGED <<cloud.made, cloud.spaces, cloud.agents>> /\ cloud'.endpoints = all
  BY <1>0, <1>4 DEF CloudType
<1>6. QED
  BY <1>3, <1>5 DEF EndpointReady, all

(* The steps of a bootstrap before its spaces touch none of these.         *)
Objects == <<cloud.spaces, cloud.agents, cloud.endpoints>>
Handles == <<own.production, own.maintenance, own.agent, own.target, own.todo, own.config>>
BeforeSpaces == {"warehouse", "catalog", "schema", "table", "insert", "loading", "experiment"}

LEMMA EarlyStepsDo ==
  ASSUME ShapeInv, \/ ResolveWarehouse \/ EnsureCatalog \/ EnsureSchema \/ EnsureTable
                   \/ SubmitInsert \/ InsertDone \/ EnsureExperiment
  PROVE  /\ pc \in BeforeSpaces /\ pc' \in BeforeSpaces \cup {"production"}
         /\ UNCHANGED <<Objects, Handles, settings, disk, outcome>>
         /\ cloud'.made \in Nat /\ cloud.made <= cloud'.made
<1>0. cloud \in CloudType /\ own \in OwnType(own) /\ cloud.made \in Nat /\ NewId = cloud.made + 1
  BY ShapeUsed
<1>1. CASE ResolveWarehouse
  <2> DEFINE new == [id |-> NewId, serverless |-> TRUE, managed |-> TRUE]
             w == With("warehouses", new)
  <2>1. PICK id : /\ own' = [own EXCEPT !.warehouse = id] /\ cloud' \in {cloud, w}
                  /\ pc = "warehouse" /\ pc' = "catalog" /\ UNCHANGED <<settings, disk, outcome>>
    BY <1>1 DEF ResolveWarehouse, Works
  <2>2. w = [[cloud EXCEPT !.made = NewId] EXCEPT !.warehouses = cloud.warehouses \cup {new}]
    BY ShapeUsed, WithShape DEF Warehouse
  <2>3. w.made = NewId /\ w.spaces = cloud.spaces /\ w.agents = cloud.agents
        /\ w.endpoints = cloud.endpoints
    BY <1>0, <2>2 DEF CloudType
  <2> HIDE DEF w
  <2>4. UNCHANGED Handles
    BY <1>0, <2>1 DEF OwnType, Handles
  <2>5. UNCHANGED Objects /\ cloud'.made \in {cloud.made, NewId}
    BY <2>1, <2>3 DEF Objects
  <2>6. QED
    BY <1>0, <2>1, <2>4, <2>5 DEF BeforeSpaces
<1>2. CASE EnsureCatalog \/ EnsureSchema
  <2>1. /\ pc \in {"catalog", "schema"} /\ pc' \in {"schema", "table"}
        /\ \E c, s : cloud' \in {[cloud EXCEPT !.catalog = c], [cloud EXCEPT !.schemas = s]}
        /\ UNCHANGED <<own, settings, disk, outcome>>
    BY <1>2 DEF EnsureCatalog, EnsureSchema, Works
  <2>2. UNCHANGED <<Objects, cloud.made>>
    BY <1>0, <2>1 DEF CloudType, Objects
  <2>3. QED
    BY <1>0, <2>1, <2>2 DEF BeforeSpaces, Handles
<1>3. CASE EnsureTable \/ SubmitInsert \/ InsertDone
  <2>1. /\ pc \in {"table", "insert", "loading"}
        /\ pc' \in {"table", "insert", "loading", "experiment"}
        /\ \E l, i : cloud' \in {cloud, [cloud EXCEPT !.loads = l], [cloud EXCEPT !.inserts = i]}
        /\ own' \in {own, NextTable} /\ UNCHANGED <<settings, disk, outcome>>
    BY <1>3 DEF EnsureTable, SubmitInsert, InsertDone, Works, AfterTable
  <2>2. UNCHANGED <<Objects, cloud.made>>
    BY <1>0, <2>1 DEF CloudType, Objects
  <2>3. PICK n : NextTable = [own EXCEPT !.table = n]
    BY NextTableShape
  <2>4. UNCHANGED Handles
    BY <1>0, <2>1, <2>3 DEF OwnType, Handles
  <2>5. QED
    BY <1>0, <2>1, <2>2, <2>4 DEF BeforeSpaces
<1>4. CASE EnsureExperiment
  <2> DEFINE id == IF cloud.experiment # None THEN cloud.experiment ELSE NewId
             m  == IF cloud.made < id THEN id ELSE cloud.made
  <2>1. /\ cloud' \in {cloud, [[cloud EXCEPT !.experiment = id] EXCEPT !.made = m]}
        /\ own' \in {[own EXCEPT !.experiment = id], [own EXCEPT !.clean = FALSE]}
        /\ pc = "experiment" /\ pc' = "production" /\ UNCHANGED <<settings, disk, outcome>>
    BY <1>0, <1>4 DEF EnsureExperiment, Works, Fails, CloudType
  <2>2. m \in Nat /\ cloud.made <= m
    BY <1>0 DEF CloudType
  <2> HIDE DEF id, m
  <2>3. UNCHANGED Objects /\ cloud'.made \in {cloud.made, m}
    BY <1>0, <2>1 DEF CloudType, Objects
  <2>4. UNCHANGED Handles
    BY <1>0, <2>1 DEF OwnType, Handles
  <2>5. QED
    BY <1>0, <2>1, <2>2, <2>3, <2>4 DEF BeforeSpaces
<1>5. QED
  BY <1>1, <1>2, <1>3, <1>4

(* Those after them, up to the files.                                      *)
LEMMA LateStepsDo ==
  ASSUME ShapeInv, WaitReady \/ BuildConfig \/ OpenConfig \/ FillConfig \/ WriteQuestions
  PROVE  /\ UNCHANGED <<settings, cloud, history>>
         /\ \/ /\ pc' = "idle" /\ outcome' = "rejected" /\ own' = Fresh /\ disk' = disk
            \/ UNCHANGED <<own.production, own.maintenance, own.agent, own.todo>>
         /\ \/ /\ WaitReady /\ pc = "ready" /\ disk' = disk /\ outcome' = outcome
               /\ UNCHANGED own.config
               /\ \/ pc' = "ready" /\ UNCHANGED own.target
                  \/ pc' = "emit" /\ own'.target = own.agent
            \/ /\ BuildConfig /\ pc = "emit" /\ disk' = disk
               /\ \/ pc' = "idle" /\ outcome' = "rejected" /\ own' = Fresh
                  \/ /\ pc' = "open" /\ outcome' = outcome /\ UNCHANGED own.target
                     /\ own'.config = ConfigDict(EmittedVariants)
            \/ /\ OpenConfig /\ pc = "open" /\ pc' = "fill" /\ outcome' = outcome
               /\ UNCHANGED own.target
               /\ own'.config = IF disk.state = "whole" THEN Merged(disk.config, own.config)
                                ELSE own.config
               /\ disk'.state = "torn" /\ disk'.config = Empty
            \/ /\ FillConfig /\ pc = "fill" /\ pc' = "questions" /\ outcome' = outcome
               /\ UNCHANGED own.target
               /\ disk'.state = "whole" /\ disk'.config = own.config
            \/ /\ WriteQuestions /\ pc = "questions" /\ pc' = "idle" /\ outcome' = "provisioned"
               /\ UNCHANGED own /\ UNCHANGED <<disk.state, disk.config>>
<1>0. own \in OwnType(own) /\ disk = [disk EXCEPT !.state = disk.state]
      /\ DOMAIN disk = {"state", "config", "artifacts"}
  BY ShapeUsed DEF ShapeInv
<1>1. CASE WaitReady
  <2>1. /\ pc = "ready" /\ UNCHANGED <<settings, cloud, disk, outcome, history>>
        /\ \/ pc' = "emit" /\ own' \in {[[own EXCEPT !.confirmed = TRUE] EXCEPT !.target = own.agent],
                                        [own EXCEPT !.target = own.agent]}
           \/ pc' = "ready" /\ own' = [own EXCEPT !.polls = own.polls + 1]
    BY <1>1 DEF WaitReady, Works, Target
  <2>2. /\ UNCHANGED <<own.production, own.maintenance, own.agent, own.todo, own.config>>
        /\ \/ pc' = "ready" /\ UNCHANGED own.target
           \/ pc' = "emit" /\ own'.target = own.agent
    BY <1>0, <2>1 DEF OwnType
  <2>3. QED
    BY <1>1, <2>1, <2>2
<1>2. CASE BuildConfig
  <2> DEFINE config == ConfigDict(EmittedVariants)
  <2>1. /\ pc = "emit" /\ UNCHANGED <<settings, cloud, disk, history>>
        /\ \/ pc' = "idle" /\ outcome' = "rejected" /\ own' = Fresh
           \/ pc' = "open" /\ outcome' = outcome /\ own' = [own EXCEPT !.config = config]
    BY <1>2 DEF BuildConfig, Works
  <2> HIDE DEF config
  <2>2. CASE pc' = "open" /\ outcome' = outcome /\ own' = [own EXCEPT !.config = config]
    <3>1. /\ UNCHANGED <<own.production, own.maintenance, own.agent, own.todo, own.target>>
          /\ own'.config = config
      BY <1>0, <2>2 DEF OwnType
    <3>2. QED
      BY <1>2, <2>1, <2>2, <3>1 DEF config
  <2>3. QED
    BY <1>2, <2>1, <2>2
<1>3. CASE OpenConfig
  <2> DEFINE c == IF disk.state = "whole" THEN Merged(disk.config, own.config) ELSE own.config
  <2>1. /\ pc = "open" /\ pc' = "fill" /\ UNCHANGED <<settings, cloud, outcome, history>>
        /\ own' = [own EXCEPT !.config = c]
        /\ disk' = [[disk EXCEPT !.state = "torn"] EXCEPT !.config = Empty]
    BY <1>3 DEF OpenConfig, Writes
  <2> HIDE DEF c
  <2>2. /\ UNCHANGED <<own.production, own.maintenance, own.agent, own.todo, own.target>>
        /\ own'.config = c
    BY <1>0, <2>1 DEF OwnType
  <2>3. disk'.state = "torn" /\ disk'.config = Empty
    BY <1>0, <2>1
  <2>4. QED
    BY <1>3, <2>1, <2>2, <2>3 DEF c
<1>4. CASE FillConfig
  <2>1. /\ pc = "fill" /\ pc' = "questions" /\ UNCHANGED <<settings, cloud, outcome, history>>
        /\ own' = [own EXCEPT !.config = Empty]
        /\ disk' = [[disk EXCEPT !.state = "whole"] EXCEPT !.config = own.config]
    BY <1>4 DEF FillConfig, Writes
  <2>2. UNCHANGED <<own.production, own.maintenance, own.agent, own.todo, own.target>>
    BY <1>0, <2>1 DEF OwnType
  <2>3. disk'.state = "whole" /\ disk'.config = own.config
    BY <1>0, <2>1
  <2>4. QED
    BY <1>4, <2>1, <2>2, <2>3
<1>5. CASE WriteQuestions
  <2>1. /\ pc = "questions" /\ pc' = "idle" /\ outcome' = "provisioned"
        /\ UNCHANGED <<settings, cloud, own, history>>
        /\ \E a : disk' = [disk EXCEPT !.artifacts = a]
    BY <1>5 DEF WriteQuestions
  <2>2. UNCHANGED <<disk.state, disk.config>>
    BY <1>0, <2>1
  <2>3. QED
    BY <1>5, <2>1, <2>2
<1>6. QED
  BY <1>1, <1>2, <1>3, <1>4, <1>5

(* The teardown, where it lists, and where it removes what is no object.   *)
LEMMA ListStepsDo ==
  ASSUME ShapeInv, ListSpaces \/ ListAgents
  PROVE  /\ pc \in {"list_spaces", "list_agents"} /\ UNCHANGED <<cloud, settings, disk, outcome>>
         /\ pc' \in {"trash", "list_agents", "delete_agents", "delete_experiment"}
         /\ UNCHANGED own.target
         /\ own'.todo \in {Ids(Titled), Ids(Named), own.todo}
<1>0. own \in OwnType(own)
  BY ShapeUsed
<1>1. /\ pc \in {"list_spaces", "list_agents"} /\ UNCHANGED <<cloud, settings, disk, outcome>>
      /\ pc' \in {"trash", "list_agents", "delete_agents", "delete_experiment"}
      /\ \E S \in {Ids(Titled), Ids(Named)} :
           own' \in {[own EXCEPT !.todo = S], [own EXCEPT !.clean = FALSE]}
  BY DEF ListSpaces, ListAgents, Works, Fails, AfterSpaces, Todo
<1>2. UNCHANGED own.target /\ own'.todo \in {Ids(Titled), Ids(Named), own.todo}
  BY <1>0, <1>1 DEF OwnType
<1>3. QED
  BY <1>1, <1>2

AfterObjects == {"delete_experiment", "find_warehouse", "drop_schema", "drop_catalog",
                 "delete_warehouses", "remove_config", "remove_rest"}

LEMMA RemovalStepsDo ==
  ASSUME ShapeInv, \/ DeleteExperiment \/ FindWarehouse \/ DropSchema \/ DropCatalog
                   \/ DeleteWarehouses \/ RemoveConfig \/ RemoveArtifacts
  PROVE  /\ pc \in AfterObjects /\ pc' \in AfterObjects \cup {"idle"}
         /\ UNCHANGED <<Objects, cloud.made, settings>>
         /\ UNCHANGED <<own.target, own.todo>>
         /\ IF pc' = "idle" THEN outcome' = "torn_down" ELSE outcome' = outcome
         /\ \/ UNCHANGED <<disk.state, disk.config>>
            \/ disk'.state = "absent" /\ disk'.config = Empty
<1>0. cloud \in CloudType /\ own \in OwnType(own) /\ DOMAIN disk = {"state", "config", "artifacts"}
      /\ disk = [disk EXCEPT !.state = disk.state]
  BY ShapeUsed DEF ShapeInv
<1>1. CASE DeleteExperiment \/ FindWarehouse
  <2>1. /\ pc \in AfterObjects /\ pc' \in AfterObjects /\ pc' # "idle"
        /\ cloud' \in {cloud, [cloud EXCEPT !.experiment = None]}
        /\ UNCHANGED <<settings, disk, outcome>>
        /\ \E id : own' \in {own, [own EXCEPT !.warehouse = id], [own EXCEPT !.clean = FALSE]}
    BY <1>1 DEF DeleteExperiment, FindWarehouse, Works, Fails, AfterObjects
  <2>2. UNCHANGED <<Objects, cloud.made>>
    BY <1>0, <2>1 DEF CloudType, Objects
  <2>3. UNCHANGED <<own.target, own.todo>>
    BY <1>0, <2>1 DEF OwnType
  <2>4. QED
    BY <2>1, <2>2, <2>3
<1>2. CASE DropSchema \/ DropCatalog
  <2>1. /\ pc \in AfterObjects /\ pc' \in AfterObjects /\ pc' # "idle"
        /\ \E s : cloud' \in {cloud, [[cloud EXCEPT !.schemas = s] EXCEPT !.loads = NoTables],
                              [[cloud EXCEPT !.catalog = FALSE] EXCEPT !.schemas = s]}
        /\ UNCHANGED <<settings, disk, outcome>>
        /\ own' \in {own, [own EXCEPT !.clean = FALSE]}
    BY <1>2 DEF DropSchema, DropCatalog, Works, Fails, AfterObjects
  <2>2. UNCHANGED <<Objects, cloud.made>>
    BY <1>0, <2>1 DEF CloudType, Objects
  <2>3. UNCHANGED <<own.target, own.todo>>
    BY <1>0, <2>1 DEF OwnType
  <2>4. QED
    BY <2>1, <2>2, <2>3
<1>3. CASE DeleteWarehouses
  <2>1. /\ pc \in AfterObjects /\ pc' \in AfterObjects /\ pc' # "idle"
        /\ \E s : cloud' \in {cloud, Without("warehouses", s)}
        /\ UNCHANGED <<settings, disk, outcome>>
        /\ own' \in {own, [own EXCEPT !.clean = FALSE]}
    BY <1>3 DEF DeleteWarehouses, Works, Fails, AfterObjects
  <2>2. PICK s : cloud' \in {cloud, [cloud EXCEPT !.warehouses = s]}
    BY <2>1, WithoutShape
  <2>3. UNCHANGED <<Objects, cloud.made>>
    BY <1>0, <2>2 DEF CloudType, Objects
  <2>4. UNCHANGED <<own.target, own.todo>>
    BY <1>0, <2>1 DEF OwnType
  <2>5. QED
    BY <2>1, <2>3, <2>4
<1>4. CASE RemoveConfig
  <2> DEFINE out   == Get(disk.config, "output_dir", "outputs")
             files == [[disk EXCEPT !.state = "absent"] EXCEPT !.config = Empty]
  <2>1. /\ pc = "remove_config"
        /\ \/ Writes("remove_rest", [own EXCEPT !.output = out], files)
           \/ Fails("remove_rest", [own EXCEPT !.output = out], cloud)
    BY <1>4 DEF RemoveConfig
  <2>2. files.state = "absent" /\ files.config = Empty
    BY <1>0
  <2> HIDE DEF out, files
  <2>3. /\ pc' = "remove_rest" /\ UNCHANGED <<settings, cloud, outcome>>
        /\ disk' = disk \/ disk' = files
        /\ \/ own' = [own EXCEPT !.output = out]
           \/ own' = [[own EXCEPT !.output = out] EXCEPT !.clean = FALSE]
    BY <2>1 DEF Writes, Fails
  <2>4. UNCHANGED <<own.target, own.todo>>
    BY <1>0, <2>3 DEF OwnType
  <2>5. QED
    BY <2>1, <2>2, <2>3, <2>4 DEF Objects, AfterObjects
<1>5. CASE RemoveArtifacts
  <2>1. /\ pc \in AfterObjects /\ pc' = "idle" /\ outcome' = "torn_down"
        /\ \E a : disk' = [disk EXCEPT !.artifacts = a]
        /\ UNCHANGED <<settings, cloud>> /\ own' \in {own, [own EXCEPT !.clean = FALSE]}
    BY <1>5 DEF RemoveArtifacts, AfterObjects
  <2>2. UNCHANGED <<own.target, own.todo>>
    BY <1>0, <2>1 DEF OwnType
  <2>3. UNCHANGED <<disk.state, disk.config>>
    BY <1>0, <2>1
  <2>4. QED
    BY <2>1, <2>2, <2>3 DEF Objects
<1>6. QED
  BY <1>1, <1>2, <1>3, <1>4, <1>5

(* The ones outside a command.                                             *)
LEMMA OtherStepsDo ==
  ASSUME ShapeInv, Start \/ Abort \/ EditConfig \/ UseHarness \/ Execute \/ UNCHANGED vars
  PROVE  /\ UNCHANGED <<Objects, cloud.made, settings>>
         /\ \/ UNCHANGED <<pc, own, disk, outcome>>
            \/ /\ own' = Fresh /\ outcome' # "provisioned"
               /\ pc' \in {"idle", "warehouse", "list_spaces"}
               /\ \/ UNCHANGED disk
                  \/ EditConfig /\ UNCHANGED disk.state
                  \/ UNCHANGED <<disk.state, disk.config>>
<1>0. cloud \in CloudType /\ own \in OwnType(own) /\ DOMAIN disk = {"state", "config", "artifacts"}
      /\ disk = [disk EXCEPT !.state = disk.state]
  BY ShapeUsed DEF ShapeInv
<1>1. CASE Start
  BY <1>1 DEF Start, Objects
<1>2. CASE Abort
  <2>1. /\ \E i : cloud' \in {cloud, [cloud EXCEPT !.inserts = i]}
        /\ pc' = "idle" /\ own' = Fresh /\ outcome' = "aborted" /\ UNCHANGED <<settings, disk>>
    BY <1>2 DEF Abort
  <2>2. UNCHANGED <<Objects, cloud.made>>
    BY <1>0, <2>1 DEF CloudType, Objects
  <2>3. QED
    BY <2>1, <2>2
<1>3. CASE EditConfig \/ UseHarness
  <2>1. /\ UNCHANGED <<settings, cloud>> /\ pc' = "idle" /\ own' = Fresh /\ outcome' = "none"
        /\ \/ EditConfig /\ \E c : disk' = [disk EXCEPT !.config = c]
           \/ \E a : disk' = [disk EXCEPT !.artifacts = a]
    BY <1>3 DEF EditConfig, UseHarness
  <2>2. \/ EditConfig /\ UNCHANGED disk.state
        \/ UNCHANGED <<disk.state, disk.config>>
    BY <1>0, <2>1
  <2>3. QED
    BY <2>1, <2>2 DEF Objects
<1>4. CASE Execute
  <2>1. /\ \E i, l : cloud' = [[cloud EXCEPT !.inserts = i] EXCEPT !.loads = l]
        /\ UNCHANGED <<settings, disk, pc, own, outcome>>
    BY <1>0, <1>4 DEF Execute, CloudType
  <2>2. UNCHANGED <<Objects, cloud.made>>
    BY <1>0, <2>1 DEF CloudType, Objects
  <2>3. QED
    BY <2>1, <2>2
<1>5. CASE UNCHANGED vars
  BY <1>5 DEF vars, Objects
<1>6. QED
  BY <1>1, <1>2, <1>3, <1>4, <1>5

-----------------------------------------------------------------------------
(* Every object a bootstrap made is numbered above those it found.         *)
LEMMA NewIsMade ==
  ASSUME ShapeInv, ObjectInv
  PROVE  /\ NewId \in 101..NewId /\ cloud.made <= NewId /\ NewId \in Nat
         /\ \A s \in cloud.spaces : s.title # "other" => s.id # NewId
         /\ \A a \in cloud.agents : a.id # NewId
<1>1. NewId = cloud.made + 1 /\ cloud.made \in Nat /\ cloud.made >= 100
  BY ShapeUsed DEF ObjectInv
<1>2. \A s \in cloud.spaces : s.title # "other" => s.id \in 101..cloud.made
  BY DEF ObjectInv, Made
<1>3. \A a \in cloud.agents : a.id <= cloud.made /\ a.id \in Nat
  BY ShapeUsed DEF ObjectInv, CloudType, Agent
<1>4. QED
  BY <1>1, <1>2, <1>3

LEMMA ListedAreMade ==
  ASSUME ObjectInv
  PROVE  \A id \in Ids(Titled) \cup Ids(Named) \cup own.todo : Made(id)
BY DEF ObjectInv, Ids, Titled, Named

LEMMA ObjectsKept ==
  ASSUME ShapeInv, ObjectInv, UNCHANGED Objects,
         cloud'.made \in Nat, cloud.made <= cloud'.made,
         own'.todo \subseteq Ids(Titled) \cup Ids(Named) \cup own.todo, pc' # "delete_endpoint"
  PROVE  ObjectInv'
<1>1. cloud'.made >= 100 /\ \A id : Made(id) => id \in 101..cloud'.made
  BY ShapeUsed DEF ObjectInv, Made
<1>2. \A id \in own'.todo : id \in 101..cloud'.made
  BY <1>1, ListedAreMade
<1>3. \A a \in cloud.agents : a.id <= cloud'.made
  BY ShapeUsed DEF ObjectInv, CloudType, Agent
<1>4. UNCHANGED <<cloud.spaces, cloud.agents>>
  BY DEF Objects
<1>5. QED
  BY <1>1, <1>2, <1>3, <1>4 DEF ObjectInv, Made

LEMMA FreshHas == Fresh.todo = {} /\ Fresh.target = None /\ Fresh.config = Empty
BY DEF Fresh

LEMMA ObjectStep ==
  ASSUME ShapeInv, ObjectInv, SpacesInv, [Next]_vars
  PROVE  ObjectInv'
<1>0. cloud \in CloudType /\ own \in OwnType(own) /\ cloud.made \in Nat /\ NewId \in Nat
      /\ NewId = cloud.made + 1
  BY ShapeUsed
<1>1. CASE \/ ResolveWarehouse \/ EnsureCatalog \/ EnsureSchema \/ EnsureTable
           \/ SubmitInsert \/ InsertDone \/ EnsureExperiment
  <2>1. /\ pc' # "delete_endpoint" /\ UNCHANGED Objects /\ own'.todo = own.todo
        /\ cloud'.made \in Nat /\ cloud.made <= cloud'.made
    BY <1>1, EarlyStepsDo DEF BeforeSpaces, Handles
  <2>2. QED
    BY <2>1, ObjectsKept
<1>2. CASE WaitReady \/ BuildConfig \/ OpenConfig \/ FillConfig \/ WriteQuestions
  <2>1. /\ pc' # "delete_endpoint" /\ cloud' = cloud
        /\ own'.todo = own.todo \/ own' = Fresh
    BY <1>2, LateStepsDo
  <2>2. QED
    BY <1>0, <2>1, FreshHas, ObjectsKept DEF Objects
<1>3. CASE ListSpaces \/ ListAgents
  <2>1. /\ pc' # "delete_endpoint" /\ cloud' = cloud
        /\ own'.todo \in {Ids(Titled), Ids(Named), own.todo}
    BY <1>3, ListStepsDo
  <2>2. QED
    BY <1>0, <2>1, ObjectsKept DEF Objects
<1>4. CASE \/ DeleteExperiment \/ FindWarehouse \/ DropSchema \/ DropCatalog
           \/ DeleteWarehouses \/ RemoveConfig \/ RemoveArtifacts
  <2>1. /\ pc' # "delete_endpoint" /\ UNCHANGED <<Objects, cloud.made>>
        /\ own'.todo = own.todo
    BY <1>4, RemovalStepsDo DEF AfterObjects
  <2>2. QED
    BY <1>0, <2>1, ObjectsKept
<1>5. CASE Start \/ Abort \/ EditConfig \/ UseHarness \/ Execute \/ UNCHANGED vars
  <2>1. /\ UNCHANGED <<Objects, cloud.made>>
        /\ \/ UNCHANGED <<pc, own>>
           \/ own' = Fresh /\ pc' \in {"idle", "warehouse", "list_spaces"}
    BY <1>5, OtherStepsDo
  <2>2. CASE pc' # "delete_endpoint"
    BY <1>0, <2>1, <2>2, FreshHas, ObjectsKept
  <2>3. CASE UNCHANGED <<pc, own>>
    BY <2>1, <2>3 DEF ObjectInv, Objects, Made
  <2>4. QED
    BY <2>1, <2>2, <2>3
<1>6. ASSUME NEW title \in {"production", "maintenance"}, NEW next, CreateSpace(title, next),
             next # "delete_endpoint"
      PROVE  ObjectInv'
  <2>1. /\ pc' # "delete_endpoint" /\ UNCHANGED <<cloud.agents, own.todo>>
        /\ \/ UNCHANGED <<cloud.made, cloud.spaces>>
           \/ /\ cloud'.made = NewId
              /\ cloud'.spaces = cloud.spaces \cup {[id |-> NewId, title |-> title]}
    BY <1>6, CreateSpaceDoes
  <2>2. CASE UNCHANGED <<cloud.made, cloud.spaces>>
    BY <2>1, <2>2 DEF ObjectInv, Made
  <2>3. CASE /\ cloud'.made = NewId
             /\ cloud'.spaces = cloud.spaces \cup {[id |-> NewId, title |-> title]}
    <3>1. \A id : Made(id) => id \in 101..NewId
      BY <1>0 DEF Made
    <3>2. \A a \in cloud.agents : a.id <= NewId
      BY <1>0 DEF ObjectInv, CloudType, Agent
    <3>3. NewId >= 100 /\ NewId \in 101..NewId
      BY NewIsMade, <1>0 DEF ObjectInv
    <3>4. QED
      BY <2>1, <2>3, <3>1, <3>2, <3>3 DEF ObjectInv, Made
  <2>4. QED
    BY <2>1, <2>2, <2>3
<1>7. CASE BuildSupervisor
  <2>1. /\ pc' # "delete_endpoint" /\ UNCHANGED <<cloud.spaces, own.todo>>
        /\ \/ UNCHANGED <<cloud.made, cloud.agents>>
           \/ /\ cloud'.made = NewId
              /\ cloud'.agents = cloud.agents \cup {[id |-> NewId, name |-> "mine", tools |-> {}]}
    BY <1>7, BuildSupervisorDoes
  <2>2. CASE UNCHANGED <<cloud.made, cloud.agents>>
    BY <2>1, <2>2 DEF ObjectInv, Made
  <2>3. CASE /\ cloud'.made = NewId
             /\ cloud'.agents = cloud.agents \cup {[id |-> NewId, name |-> "mine", tools |-> {}]}
    <3>1. \A id : Made(id) => id \in 101..NewId
      BY <1>0 DEF Made
    <3>2. \A a \in cloud.agents : a.id <= NewId /\ a.id # NewId
      BY <1>0, NewIsMade DEF ObjectInv, CloudType, Agent
    <3>3. NewId >= 100 /\ NewId \in 101..NewId
      BY NewIsMade, <1>0 DEF ObjectInv
    <3>4. \A a \in cloud'.agents : a \in cloud.agents \/ (a.id = NewId /\ a.tools = {}
                                       /\ a = [id |-> NewId, name |-> "mine", tools |-> {}])
      BY <2>3
    <3>5. \A a, b \in cloud'.agents : a.id = b.id => a = b
      BY <3>2, <3>4 DEF ObjectInv
    <3>6. \A a \in cloud'.agents :
            /\ a.id <= NewId /\ (a.name # "other" => a.id \in 101..NewId)
            /\ \A tool \in a.tools : tool \in 101..NewId
      BY <3>1, <3>2, <3>3, <3>4, <1>0 DEF ObjectInv
    <3>7. QED
      BY <2>1, <2>3, <3>1, <3>3, <3>5, <3>6 DEF ObjectInv, Made
  <2>4. QED
    BY <2>1, <2>2, <2>3
<1>8. CASE CreateTool
  <2>1. PICK agent \in cloud.agents, space \in {own.production, own.maintenance} :
          /\ agent \in Agent /\ pc = "tools" /\ pc' # "delete_endpoint"
          /\ UNCHANGED <<own, cloud.made, cloud.spaces>>
          /\ cloud'.agents = (cloud.agents \ {agent})
                             \cup {[agent EXCEPT !.tools = agent.tools \cup {space}]}
    BY <1>8, CreateToolDoes
  <2>2. Made(own.production) /\ Made(own.maintenance)
    BY <2>1 DEF SpacesInv, HasProduction, HasMaintenance
  <2> DEFINE new == [agent EXCEPT !.tools = agent.tools \cup {space}]
  <2>3. /\ new.id = agent.id /\ new.name = agent.name /\ new.tools = agent.tools \cup {space}
    BY <2>1 DEF Agent
  <2> HIDE DEF new
  <2>4. cloud'.agents = (cloud.agents \ {agent}) \cup {new}
    BY <2>1 DEF new
  <2>5. \A a, b \in cloud'.agents : a.id = b.id => a = b
    BY <2>1, <2>3, <2>4 DEF ObjectInv
  <2>6. \A a \in cloud'.agents :
          /\ a.id <= cloud.made /\ (a.name # "other" => Made(a.id))
          /\ \A tool \in a.tools : Made(tool)
    BY <2>1, <2>2, <2>3, <2>4 DEF ObjectInv
  <2>7. QED
    BY <2>1, <2>5, <2>6 DEF ObjectInv, Made
<1>9. CASE TrashSpace
  <2>1. /\ pc' # "delete_endpoint" /\ UNCHANGED <<cloud.made, cloud.agents>>
        /\ own'.todo \subseteq own.todo /\ cloud'.spaces \subseteq cloud.spaces
    BY <1>9, TrashSpaceDoes
  <2>2. QED
    BY <2>1 DEF ObjectInv, Made
<1>10. CASE DeleteAgent
  <2>1. /\ pc' = "delete_endpoint" => own'.agent \in own.todo
        /\ UNCHANGED <<cloud.made, cloud.spaces>>
        /\ own'.todo \subseteq own.todo /\ cloud'.agents \subseteq cloud.agents
    BY <1>10, DeleteAgentDoes
  <2>2. QED
    BY <2>1 DEF ObjectInv, Made
<1>11. CASE DeleteEndpoint
  BY <1>11, DeleteEndpointDoes DEF ObjectInv, Made
<1>12. CASE EndpointReady
  BY <1>12, EndpointReadyDoes DEF ObjectInv, Made
<1>13. QED
  <2>1. CASE CreateProduction \/ CreateMaintenance
    BY <1>6, <2>1 DEF CreateProduction, CreateMaintenance
  <2>2. QED
    BY <1>1, <1>2, <1>3, <1>4, <1>5, <1>7, <1>8, <1>9, <1>10, <1>11, <1>12, <2>1
    DEF Next, Provision, Teardown

(* What a run made stays as long as the run needs it.                      *)
LEMMA SpacesKept ==
  ASSUME ShapeInv, SpacesInv, cloud'.made \in Nat, cloud.made <= cloud'.made,
         UNCHANGED <<cloud.spaces, own.production, own.maintenance>>,
         outcome' = "provisioned" => pc' = "idle",
         pc' \in HasProduction \/ Provisioned' => pc \in HasProduction \/ Provisioned,
         pc' \in HasMaintenance \/ Provisioned' => pc \in HasMaintenance \/ Provisioned
  PROVE  SpacesInv'
<1>1. \A id : Made(id) => id \in 101..cloud'.made
  BY ShapeUsed DEF Made
<1>2. QED
  BY <1>1 DEF SpacesInv, Made

LEMMA SpacesIdle ==
  ASSUME pc' \notin HasProduction, outcome' # "provisioned"
  PROVE  SpacesInv'
BY DEF SpacesInv, HasProduction, HasMaintenance, Provisioned

LEMMA SpacesStep ==
  ASSUME ShapeInv, ObjectInv, SpacesInv, [Next]_vars
  PROVE  SpacesInv'
<1>0. cloud \in CloudType /\ own \in OwnType(own) /\ cloud.made \in Nat /\ NewId \in Nat
      /\ NewId = cloud.made + 1
  BY ShapeUsed
<1>a. outcome = "provisioned" => pc = "idle"
  BY DEF SpacesInv
<1>1. CASE \/ ResolveWarehouse \/ EnsureCatalog \/ EnsureSchema \/ EnsureTable
           \/ SubmitInsert \/ InsertDone \/ EnsureExperiment
  <2>1. pc \in BeforeSpaces /\ pc' \in BeforeSpaces \cup {"production"} /\ outcome' = outcome
    BY <1>1, EarlyStepsDo
  <2>2. QED
    BY <1>a, <2>1, SpacesIdle DEF BeforeSpaces, HasProduction
<1>2. CASE WaitReady \/ BuildConfig \/ OpenConfig \/ FillConfig \/ WriteQuestions
  <2>1. CASE pc' = "idle" /\ outcome' = "rejected"
    BY <2>1, SpacesIdle DEF HasProduction
  <2>2. CASE ~(pc' = "idle" /\ outcome' = "rejected")
    <3>1. cloud' = cloud /\ UNCHANGED <<own.production, own.maintenance>>
      BY <1>2, <2>2, LateStepsDo
    <3>2. /\ pc \in HasMaintenance /\ (outcome' = outcome \/ (outcome' = "provisioned" /\ pc' = "idle"))
      BY <1>2, <2>2, LateStepsDo DEF HasMaintenance
    <3>3. QED
      BY <1>0, <1>a, <3>1, <3>2, SpacesKept DEF HasMaintenance, HasProduction
  <2>3. QED
    BY <2>1, <2>2
<1>3. CASE ListSpaces \/ ListAgents
  <2>1. /\ pc \in {"list_spaces", "list_agents"} /\ outcome' = outcome
        /\ pc' \in {"trash", "list_agents", "delete_agents", "delete_experiment"}
    BY <1>3, ListStepsDo
  <2>2. QED
    BY <1>a, <2>1, SpacesIdle DEF HasProduction
<1>4. CASE \/ DeleteExperiment \/ FindWarehouse \/ DropSchema \/ DropCatalog
           \/ DeleteWarehouses \/ RemoveConfig \/ RemoveArtifacts
  <2>1. /\ pc \in AfterObjects /\ pc' \in AfterObjects \cup {"idle"}
        /\ IF pc' = "idle" THEN outcome' = "torn_down" ELSE outcome' = outcome
    BY <1>4, RemovalStepsDo
  <2>2. QED
    BY <1>a, <2>1, SpacesIdle DEF HasProduction, AfterObjects
<1>5. CASE Start \/ Abort \/ EditConfig \/ UseHarness \/ Execute \/ UNCHANGED vars
  <2>1. /\ UNCHANGED <<Objects, cloud.made>>
        /\ \/ UNCHANGED <<pc, own, outcome>>
           \/ outcome' # "provisioned" /\ pc' \in {"idle", "warehouse", "list_spaces"}
    BY <1>5, OtherStepsDo
  <2>2. CASE UNCHANGED <<pc, own, outcome>>
    <3>1. UNCHANGED <<cloud.spaces, own.production, own.maintenance>>
      BY <2>1, <2>2 DEF Objects
    <3>2. Provisioned' = Provisioned
      BY <2>2 DEF Provisioned
    <3>3. QED
      BY <1>0, <1>a, <2>1, <2>2, <3>1, <3>2, SpacesKept
  <2>3. CASE outcome' # "provisioned" /\ pc' \in {"idle", "warehouse", "list_spaces"}
    BY <2>3, SpacesIdle DEF HasProduction
  <2>4. QED
    BY <2>1, <2>2, <2>3
<1>6. CASE CreateProduction
  <2>0. CreateSpace("production", "maintenance")
    BY <1>6 DEF CreateProduction
  <2>1. /\ pc = "production" /\ outcome' = outcome
        /\ \/ pc' = "production"
           \/ /\ pc' = "maintenance" /\ cloud'.made = NewId /\ own'.production = NewId
              /\ cloud'.spaces = cloud.spaces \cup {[id |-> NewId, title |-> "production"]}
    BY <2>0, CreateSpaceDoes
  <2>2. CASE pc' = "production"
    BY <1>a, <2>1, <2>2, SpacesIdle DEF HasProduction
  <2>3. CASE pc' = "maintenance"
    <3>1. Made(own.production)'
      BY <2>1, <2>3, NewIsMade DEF Made
    <3>2. \E s \in cloud'.spaces : s.id = own'.production /\ s.title = "production"
      <4>1. [id |-> NewId, title |-> "production"] \in cloud'.spaces /\ own'.production = NewId
        BY <2>1, <2>3
      <4>2. QED
        BY <4>1
    <3>3. outcome' # "provisioned" /\ pc' \notin HasMaintenance
      BY <1>a, <2>1, <2>3 DEF HasMaintenance
    <3>4. QED
      BY <3>1, <3>2, <3>3 DEF SpacesInv, Provisioned
  <2>4. QED
    BY <2>1, <2>2, <2>3
<1>7. CASE CreateMaintenance
  <2>0. /\ CreateSpace("maintenance", IF settings.build THEN "agent" ELSE "emit")
    BY <1>7 DEF CreateMaintenance
  <2>1. /\ pc = "maintenance" /\ outcome' = outcome
        /\ cloud.spaces \subseteq cloud'.spaces
        /\ own'.production = own.production /\ cloud'.made \in {cloud.made, NewId}
        /\ \/ pc' = "maintenance"
           \/ pc' \in {"agent", "emit"} /\ cloud'.made = NewId /\ own'.maintenance = NewId
    BY <2>0, CreateSpaceDoes
  <2>2. Made(own.production) /\ \E s \in cloud.spaces : s.id = own.production /\ s.title = "production"
    BY <2>1 DEF SpacesInv, HasProduction
  <2>3. own.production \in 101..cloud'.made
    BY <1>0, <2>1, <2>2 DEF Made
  <2>4. /\ Made(own.production)'
        /\ \E s \in cloud'.spaces : s.id = own'.production /\ s.title = "production"
    BY <2>1, <2>2, <2>3 DEF Made
  <2>5. outcome' # "provisioned"
    BY <1>a, <2>1
  <2>6. pc' \in HasMaintenance => Made(own.maintenance)'
    BY <1>0, <2>1, NewIsMade DEF Made, HasMaintenance
  <2>7. QED
    BY <2>4, <2>5, <2>6 DEF SpacesInv, Provisioned
<1>8. CASE BuildSupervisor
  <2>1. /\ pc = "agent" /\ pc' \in {"tools", "emit"} /\ outcome' = outcome
        /\ UNCHANGED <<cloud.spaces, own.production, own.maintenance>>
        /\ cloud'.made \in {cloud.made, NewId}
    BY <1>8, BuildSupervisorDoes
  <2>2. QED
    BY <1>0, <1>a, <2>1, SpacesKept DEF HasMaintenance, HasProduction
<1>9. CASE CreateTool
  <2>1. /\ pc = "tools" /\ pc' \in {"tools", "ready"} /\ UNCHANGED <<own, outcome>>
        /\ UNCHANGED <<cloud.spaces, cloud.made>>
    BY <1>9, CreateToolDoes
  <2>2. QED
    BY <1>0, <1>a, <2>1, SpacesKept DEF HasMaintenance, HasProduction
<1>10. CASE TrashSpace
  <2>1. /\ pc = "trash" /\ pc' \in {"trash", "list_agents", "delete_experiment"} /\ outcome' = outcome
    BY <1>10, TrashSpaceDoes
  <2>2. QED
    BY <1>a, <2>1, SpacesIdle DEF HasProduction
<1>11. CASE DeleteAgent
  <2>1. /\ pc = "delete_agents" /\ pc' \in {"delete_agents", "delete_endpoint", "delete_experiment"}
        /\ outcome' = outcome
    BY <1>11, DeleteAgentDoes
  <2>2. QED
    BY <1>a, <2>1, SpacesIdle DEF HasProduction
<1>12. CASE DeleteEndpoint
  <2>1. pc = "delete_endpoint" /\ pc' = "delete_agents" /\ outcome' = outcome
    BY <1>12, DeleteEndpointDoes
  <2>2. QED
    BY <1>a, <2>1, SpacesIdle DEF HasProduction
<1>13. CASE EndpointReady
  <2>1. UNCHANGED <<cloud.made, cloud.spaces, pc, own, outcome>>
    BY <1>13, EndpointReadyDoes
  <2>2. QED
    BY <1>0, <1>a, <2>1, SpacesKept DEF Provisioned
<1>14. QED
  BY <1>1, <1>2, <1>3, <1>4, <1>5, <1>6, <1>7, <1>8, <1>9, <1>10, <1>11, <1>12, <1>13
  DEF Next, Provision, Teardown

-----------------------------------------------------------------------------
(* The rest of the workspace, and what is told of it. Steps on objects do  *)
(* nothing to either.                                                      *)
World == <<cloud.warehouses, cloud.schemas, cloud.loads, cloud.inserts>>
Past  == <<history.runs, history.left, history.found>>
Same(w) == /\ w.warehouses = cloud.warehouses /\ w.schemas = cloud.schemas
           /\ w.loads = cloud.loads /\ w.inserts = cloud.inserts

LEMMA FaultsPass ==
  ASSUME ShapeInv, NEW n, NEW o, NEW w, Works(n, o, w) \/ Fails(n, o, w)
  PROVE  UNCHANGED <<Past, settings, disk, outcome>> /\ pc' = n /\ cloud' = w
<1>1. history \in HistoryType
  BY DEF ShapeInv
<1>2. history' = history \/ history' = [history EXCEPT !.faults = history.faults + 1]
  BY DEF Works, Fails
<1>3. UNCHANGED Past
  BY <1>1, <1>2 DEF HistoryType, Past
<1>4. QED
  BY <1>3 DEF Works, Fails

LEMMA ObjectStepsElsewhere ==
  ASSUME ShapeInv,
         \/ CreateProduction \/ CreateMaintenance \/ BuildSupervisor \/ CreateTool \/ TrashSpace
         \/ DeleteAgent \/ DeleteEndpoint \/ ListSpaces \/ ListAgents \/ EndpointReady
         \/ DeleteExperiment \/ FindWarehouse \/ EnsureExperiment
  PROVE  UNCHANGED <<World, Past, settings>>
<1>0. cloud \in CloudType /\ NewId \in Nat
  BY ShapeUsed
<1>a. Same(cloud)
  BY DEF Same
<1>b. ASSUME NEW n, NEW o, NEW w, Works(n, o, w) \/ Fails(n, o, w), Same(w)
      PROVE  UNCHANGED <<World, Past, settings>>
  BY <1>b, FaultsPass DEF World, Same
<1>1. ASSUME NEW title \in {"production", "maintenance"}, NEW next, CreateSpace(title, next)
      PROVE  UNCHANGED <<World, Past, settings>>
  <2> DEFINE x == [id |-> NewId, title |-> title]
             w == With("spaces", x)
  <2>1. \E n, o : \/ Works(n, o, w) \/ Fails(n, o, w) \/ Fails(n, o, cloud)
    BY <1>1 DEF CreateSpace
  <2>2. Same(w)
    <3>1. w = [[cloud EXCEPT !.made = NewId] EXCEPT !.spaces = cloud.spaces \cup {x}]
      BY <1>0, WithShape DEF Space
    <3>2. QED
      BY <1>0, <3>1 DEF CloudType, Same
  <2> HIDE DEF w
  <2>3. QED
    BY <1>a, <1>b, <2>1, <2>2
<1>2. CASE BuildSupervisor
  <2> DEFINE new == [id |-> NewId, name |-> "mine", tools |-> {}]
             v   == With("agents", new)
             w   == [v EXCEPT !.endpoints = v.endpoints \cup {[id |-> NewId, state |-> "NOT_READY"]}]
  <2>1. \E n, o : \/ Works(n, o, w) \/ Fails(n, o, w) \/ Fails(n, o, cloud)
    BY <1>2 DEF BuildSupervisor
  <2>2. v = [[cloud EXCEPT !.made = NewId] EXCEPT !.agents = cloud.agents \cup {new}] /\ CloudOk(v)
    BY <1>0, WithShape DEF Agent
  <2>3. Same(v)
    BY <1>0, <2>2 DEF CloudType, Same
  <2> HIDE DEF v
  <2>4. Same(w)
    BY <2>2, <2>3 DEF CloudOk, CloudType, Same
  <2> HIDE DEF w
  <2>5. QED
    BY <1>a, <1>b, <2>1, <2>4
<1>3. CASE CreateTool
  <2>1. \E n, o, a : Works(n, o, [cloud EXCEPT !.agents = a])
    BY <1>3 DEF CreateTool
  <2>2. \A a : Same([cloud EXCEPT !.agents = a])
    BY <1>0 DEF CloudType, Same
  <2>3. QED
    BY <1>b, <2>1, <2>2
<1>4. CASE TrashSpace
  <2>1. \E n, o, items : \/ Works(n, o, cloud) \/ Works(n, o, Without("spaces", items))
                         \/ Fails(n, o, cloud)
    BY <1>4 DEF TrashSpace
  <2>2. \A items : Same(Without("spaces", items))
    BY <1>0, WithoutShape DEF CloudType, Same
  <2>3. QED
    BY <1>a, <1>b, <2>1, <2>2
<1>5. CASE DeleteAgent
  <2>1. ASSUME NEW items, NEW e
        PROVE  LET gone == Without("agents", items)
               IN Same([gone EXCEPT !.endpoints = gone.endpoints \ e])
    <3> DEFINE gone == Without("agents", items)
    <3>1. gone = [cloud EXCEPT !.agents = cloud.agents \ items] /\ CloudOk(gone)
      BY WithoutShape
    <3>2. Same(gone)
      BY <1>0, <3>1 DEF CloudType, Same
    <3> HIDE DEF gone
    <3>3. Same([gone EXCEPT !.endpoints = gone.endpoints \ e])
      BY <3>1, <3>2 DEF CloudOk, CloudType, Same
    <3>4. QED
      BY <3>3 DEF gone
  <2>2. CASE \E n, o : Works(n, o, cloud) \/ Fails(n, o, cloud)
    BY <1>a, <1>b, <2>2
  <2>3. ASSUME NEW items, NEW e, NEW n, NEW o,
               LET gone == Without("agents", items)
               IN Works(n, o, [gone EXCEPT !.endpoints = gone.endpoints \ e])
        PROVE  UNCHANGED <<World, Past, settings>>
    <3> DEFINE gone == Without("agents", items)
               w    == [gone EXCEPT !.endpoints = gone.endpoints \ e]
    <3>1. Same(w) /\ Works(n, o, w)
      BY <2>1, <2>3
    <3> HIDE DEF w
    <3>2. QED
      BY <1>b, <3>1
  <2>4. QED
    BY <1>5, <2>2, <2>3 DEF DeleteAgent
<1>6. CASE DeleteEndpoint
  <2>1. \E n, o, items : Works(n, o, Without("endpoints", items)) \/ Fails(n, o, cloud)
    BY <1>6 DEF DeleteEndpoint
  <2>2. \A items : Same(Without("endpoints", items))
    BY <1>0, WithoutShape DEF CloudType, Same
  <2>3. QED
    BY <1>a, <1>b, <2>1, <2>2
<1>7. CASE ListSpaces \/ ListAgents
  <2>1. \E n, o : Works(n, o, cloud) \/ Fails(n, o, cloud)
    BY <1>7 DEF ListSpaces, ListAgents
  <2>2. QED
    BY <1>a, <1>b, <2>1
<1>8. CASE EndpointReady
  <2>1. \E e : cloud' = [cloud EXCEPT !.endpoints = e] /\ UNCHANGED <<settings, history>>
    BY <1>8 DEF EndpointReady
  <2>2. QED
    BY <1>0, <2>1 DEF CloudType, World, Past
<1>9. CASE DeleteExperiment \/ FindWarehouse
  <2>1. \E n, o : \/ Works(n, o, [cloud EXCEPT !.experiment = None])
                  \/ Works(n, o, cloud) \/ Fails(n, o, cloud)
    BY <1>9 DEF DeleteExperiment, FindWarehouse
  <2>2. Same([cloud EXCEPT !.experiment = None])
    BY <1>0 DEF CloudType, Same
  <2>3. QED
    BY <1>a, <1>b, <2>1, <2>2
<1>10. CASE EnsureExperiment
  <2>1. \E n, o, id, m : \/ Works(n, o, [[cloud EXCEPT !.experiment = id] EXCEPT !.made = m])
                         \/ Fails(n, o, cloud)
    BY <1>0, <1>10 DEF EnsureExperiment, CloudType
  <2>2. \A id, m : Same([[cloud EXCEPT !.experiment = id] EXCEPT !.made = m])
    BY <1>0 DEF CloudType, Same
  <2>3. QED
    BY <1>a, <1>b, <2>1, <2>2
<1>11. QED
  <2>1. CASE CreateProduction \/ CreateMaintenance
    BY <1>1, <2>1 DEF CreateProduction, CreateMaintenance
  <2>2. QED
    BY <1>2, <1>3, <1>4, <1>5, <1>6, <1>7, <1>8, <1>9, <1>10, <2>1

(* Only a tagged warehouse is ever deleted, and only a created catalog.    *)
LEMMA OthersStay ==
  ASSUME ShapeInv, [Next]_vars
  PROVE  /\ UNCHANGED <<settings, history.found>>
         /\ cloud.warehouses \ Managed \subseteq cloud'.warehouses
         /\ ~settings.create /\ "other" \in cloud.schemas => "other" \in cloud'.schemas
<1> DEFINE Goal == /\ UNCHANGED <<settings, history.found>>
                   /\ cloud.warehouses \ Managed \subseteq cloud'.warehouses
                   /\ ~settings.create /\ "other" \in cloud.schemas => "other" \in cloud'.schemas
<1>0. cloud \in CloudType /\ NewId \in Nat /\ history \in HistoryType
  BY ShapeUsed DEF ShapeInv
<1>a. ASSUME NEW n, NEW o, NEW w, Works(n, o, w) \/ Fails(n, o, w),
             cloud.warehouses \ Managed \subseteq w.warehouses,
             ~settings.create /\ "other" \in cloud.schemas => "other" \in w.schemas
      PROVE  Goal
  BY <1>a, FaultsPass DEF Past
<1>1. CASE \/ CreateProduction \/ CreateMaintenance \/ BuildSupervisor \/ CreateTool \/ TrashSpace
           \/ DeleteAgent \/ DeleteEndpoint \/ ListSpaces \/ ListAgents \/ EndpointReady
           \/ DeleteExperiment \/ FindWarehouse \/ EnsureExperiment
  BY <1>1, ObjectStepsElsewhere DEF World, Past
<1>2. CASE ResolveWarehouse
  <2> DEFINE new == [id |-> NewId, serverless |-> TRUE, managed |-> TRUE]
             w == With("warehouses", new)
  <2>1. \E n, o : Works(n, o, cloud) \/ Works(n, o, w)
    BY <1>2 DEF ResolveWarehouse
  <2>2. w = [[cloud EXCEPT !.made = NewId] EXCEPT !.warehouses = cloud.warehouses \cup {new}]
    BY <1>0, WithShape DEF Warehouse
  <2>3. w.warehouses = cloud.warehouses \cup {new} /\ w.schemas = cloud.schemas
    BY <1>0, <2>2 DEF CloudType
  <2> HIDE DEF w
  <2>4. QED
    BY <1>a, <2>1, <2>3
<1>3. CASE EnsureCatalog \/ EnsureSchema
  <2>1. \E n, o, c : \/ Works(n, o, [cloud EXCEPT !.catalog = c])
                     \/ Works(n, o, [cloud EXCEPT !.schemas = cloud.schemas \cup {"demo"}])
    BY <1>3 DEF EnsureCatalog, EnsureSchema
  <2>2. \A c : /\ [cloud EXCEPT !.catalog = c].warehouses = cloud.warehouses
               /\ [cloud EXCEPT !.catalog = c].schemas = cloud.schemas
    BY <1>0 DEF CloudType
  <2>3. \A s : /\ [cloud EXCEPT !.schemas = s].warehouses = cloud.warehouses
               /\ [cloud EXCEPT !.schemas = s].schemas = s
    BY <1>0 DEF CloudType
  <2>4. QED
    BY <1>a, <2>1, <2>2, <2>3
<1>4. CASE EnsureTable \/ SubmitInsert \/ InsertDone
  <2>1. \E n, o, v : Works(n, o, cloud) \/ Works(n, o, [cloud EXCEPT !.loads = v])
                     \/ Works(n, o, [cloud EXCEPT !.inserts = v])
    BY <1>4 DEF EnsureTable, SubmitInsert, InsertDone
  <2>2. \A v : /\ [cloud EXCEPT !.loads = v].warehouses = cloud.warehouses
               /\ [cloud EXCEPT !.loads = v].schemas = cloud.schemas
               /\ [cloud EXCEPT !.inserts = v].warehouses = cloud.warehouses
               /\ [cloud EXCEPT !.inserts = v].schemas = cloud.schemas
    BY <1>0 DEF CloudType
  <2>3. QED
    BY <1>a, <2>1, <2>2
<1>5. CASE DropSchema
  <2> DEFINE w == [[cloud EXCEPT !.schemas = cloud.schemas \ {"demo"}] EXCEPT !.loads = NoTables]
  <2>1. \E n, o : Works(n, o, w) \/ Fails(n, o, cloud)
    BY <1>5 DEF DropSchema
  <2>2. w.warehouses = cloud.warehouses /\ w.schemas = cloud.schemas \ {"demo"}
    BY <1>0 DEF CloudType
  <2> HIDE DEF w
  <2>3. QED
    BY <1>a, <2>1, <2>2
<1>6. CASE DropCatalog
  <2> DEFINE w == [[cloud EXCEPT !.catalog = FALSE] EXCEPT !.schemas = {}]
  <2>1. \E n, o : \/ settings.create /\ Works(n, o, w)
                  \/ Works(n, o, cloud) \/ Fails(n, o, cloud)
    BY <1>6 DEF DropCatalog
  <2>2. w.warehouses = cloud.warehouses /\ w.schemas = {}
    BY <1>0 DEF CloudType
  <2> HIDE DEF w
  <2>3. QED
    BY <1>a, <2>1, <2>2
<1>7. CASE DeleteWarehouses
  <2>1. \E n, o : \/ Works(n, o, cloud) \/ Fails(n, o, cloud)
                  \/ \E x \in Managed : Works(n, o, Without("warehouses", {x}))
    BY <1>7 DEF DeleteWarehouses
  <2>2. \A items : /\ Without("warehouses", items).warehouses = cloud.warehouses \ items
                   /\ Without("warehouses", items).schemas = cloud.schemas
    BY <1>0, WithoutShape DEF CloudType
  <2>3. QED
    BY <1>a, <2>1, <2>2
<1>8. CASE WaitReady \/ BuildConfig \/ OpenConfig \/ FillConfig \/ WriteQuestions
  BY <1>8, LateStepsDo
<1>9. CASE RemoveConfig
  <2>1. (\E n, o : Fails(n, o, cloud)) \/ UNCHANGED <<settings, cloud, history>>
    BY <1>9 DEF RemoveConfig, Writes
  <2>2. QED
    BY <1>a, <2>1
<1>10. CASE RemoveArtifacts \/ Start \/ EditConfig \/ UseHarness \/ UNCHANGED vars
  <2>1. UNCHANGED <<settings, cloud>>
        /\ \/ history' = history \/ history' = [history EXCEPT !.faults = history.faults + 1]
           \/ history' = [history EXCEPT !.runs = history.runs + 1]
    BY <1>10 DEF RemoveArtifacts, Start, EditConfig, UseHarness, vars
  <2>2. QED
    BY <1>0, <2>1 DEF HistoryType
<1>11. CASE Abort
  <2>1. \E i : cloud' \in {cloud, [cloud EXCEPT !.inserts = i]}
    BY <1>11 DEF Abort
  <2>2. UNCHANGED <<settings, cloud.warehouses, cloud.schemas>>
    BY <1>0, <1>11, <2>1 DEF CloudType, Abort
  <2>3. history'.found = history.found
    BY <1>0, <1>11 DEF Abort, HistoryType
  <2>4. QED
    BY <2>2, <2>3
<1>12. CASE Execute
  <2>1. \E i, l : cloud' = [[cloud EXCEPT !.inserts = i] EXCEPT !.loads = l]
    BY <1>0, <1>12 DEF Execute, CloudType
  <2>2. UNCHANGED <<settings, history, cloud.warehouses, cloud.schemas>>
    BY <1>0, <1>12, <2>1 DEF CloudType, Execute
  <2>3. QED
    BY <2>2
<1>13. QED
  BY <1>1, <1>2, <1>3, <1>4, <1>5, <1>6, <1>7, <1>8, <1>9, <1>10, <1>11, <1>12
  DEF Next, Provision, Teardown

(* And no space, agent or endpoint that was there first.                   *)
LEMMA OthersStep ==
  ASSUME ShapeInv, ObjectInv, OthersInv, [Next]_vars
  PROVE  OthersInv'
<1> DEFINE Here == /\ \E s \in cloud'.spaces : s.id = 1 /\ s.title = "other"
                   /\ \E a \in cloud'.agents : a.id = 2 /\ a.name = "other"
                   /\ \E e \in cloud'.endpoints : e.id = 2
<1> SUFFICES Here
  <2>1. history.found \subseteq cloud.warehouses \ Managed
    BY DEF OthersInv, Managed
  <2>2. QED
    BY <2>1, OthersStay DEF OthersInv
<1>0. /\ \E s \in cloud.spaces : s.id = 1 /\ s.title = "other"
      /\ \E a \in cloud.agents : a.id = 2 /\ a.name = "other"
      /\ \E e \in cloud.endpoints : e.id = 2
  BY DEF OthersInv
<1>a. \A id \in own.todo : id # 1 /\ id # 2
  BY ShapeUsed DEF ObjectInv, Made
<1>1. CASE UNCHANGED Objects
  BY <1>0, <1>1 DEF Objects
<1>2. CASE CreateProduction \/ CreateMaintenance
  <2>1. cloud.spaces \subseteq cloud'.spaces /\ UNCHANGED <<cloud.agents, cloud.endpoints>>
    BY <1>2, CreateSpaceDoes DEF CreateProduction, CreateMaintenance
  <2>2. QED
    BY <1>0, <2>1
<1>3. CASE BuildSupervisor
  <2>1. /\ cloud.spaces = cloud'.spaces /\ cloud.agents \subseteq cloud'.agents
        /\ cloud.endpoints \subseteq cloud'.endpoints
    BY <1>3, BuildSupervisorDoes
  <2>2. QED
    BY <1>0, <2>1
<1>4. CASE CreateTool
  <2>1. PICK agent \in cloud.agents, space \in {own.production, own.maintenance} :
          /\ agent \in Agent /\ UNCHANGED <<cloud.spaces, cloud.endpoints>>
          /\ cloud'.agents = (cloud.agents \ {agent})
                             \cup {[agent EXCEPT !.tools = agent.tools \cup {space}]}
    BY <1>4, CreateToolDoes
  <2> DEFINE new == [agent EXCEPT !.tools = agent.tools \cup {space}]
  <2>2. new.id = agent.id /\ new.name = agent.name
    BY <2>1 DEF Agent
  <2>3. new \in cloud'.agents /\ \A a \in cloud.agents : a = agent \/ a \in cloud'.agents
    BY <2>1
  <2> HIDE DEF new
  <2>4. QED
    BY <1>0, <2>1, <2>2, <2>3
<1>5. CASE TrashSpace
  <2>1. /\ UNCHANGED <<cloud.agents, cloud.endpoints>>
        /\ \/ UNCHANGED cloud.spaces
           \/ \E id \in own.todo : cloud'.spaces = cloud.spaces \ {s \in cloud.spaces : s.id = id}
    BY <1>5, TrashSpaceDoes
  <2>2. QED
    BY <1>0, <1>a, <2>1
<1>6. CASE DeleteAgent
  <2>1. /\ UNCHANGED <<cloud.spaces>>
        /\ \/ UNCHANGED <<cloud.agents, cloud.endpoints>>
           \/ \E id \in own.todo, e \in {{}, Endpoints(own'.agent)} :
                /\ own'.agent = id
                /\ cloud'.agents = cloud.agents \ {a \in cloud.agents : a.id = id}
                /\ cloud'.endpoints = cloud.endpoints \ e
    BY <1>6, DeleteAgentDoes
  <2>2. QED
    BY <1>0, <1>a, <2>1 DEF Endpoints
<1>7. CASE DeleteEndpoint
  <2>1. /\ UNCHANGED <<cloud.spaces, cloud.agents>> /\ pc = "delete_endpoint"
        /\ cloud'.endpoints \in {cloud.endpoints, cloud.endpoints \ Endpoints(own.agent)}
    BY <1>7, DeleteEndpointDoes
  <2>2. own.agent # 2
    BY <2>1, ShapeUsed DEF ObjectInv, Made
  <2>3. QED
    BY <1>0, <2>1, <2>2 DEF Endpoints
<1>8. CASE EndpointReady
  <2>1. /\ UNCHANGED <<cloud.spaces, cloud.agents>>
        /\ \E e \in cloud.endpoints : \E f \in Endpoint :
             f.id = e.id /\ cloud'.endpoints = (cloud.endpoints \ {e}) \cup {f}
    BY <1>8, EndpointReadyDoes
  <2>2. QED
    BY <1>0, <2>1
<1>9. CASE \/ ResolveWarehouse \/ EnsureCatalog \/ EnsureSchema \/ EnsureTable
           \/ SubmitInsert \/ InsertDone \/ EnsureExperiment
  BY <1>9, <1>1, EarlyStepsDo
<1>10. CASE WaitReady \/ BuildConfig \/ OpenConfig \/ FillConfig \/ WriteQuestions
  BY <1>10, <1>1, LateStepsDo DEF Objects
<1>11. CASE ListSpaces \/ ListAgents
  BY <1>11, <1>1, ListStepsDo DEF Objects
<1>12. CASE \/ DeleteExperiment \/ FindWarehouse \/ DropSchema \/ DropCatalog
            \/ DeleteWarehouses \/ RemoveConfig \/ RemoveArtifacts
  BY <1>12, <1>1, RemovalStepsDo
<1>13. CASE Start \/ Abort \/ EditConfig \/ UseHarness \/ Execute \/ UNCHANGED vars
  BY <1>13, <1>1, OtherStepsDo
<1>14. QED
  BY <1>2, <1>3, <1>4, <1>5, <1>6, <1>7, <1>8, <1>9, <1>10, <1>11, <1>12, <1>13
  DEF Next, Provision, Teardown

LEMMA InitObjects == Init => ObjectInv /\ SpacesInv /\ OthersInv
<1> SUFFICES ASSUME Init PROVE ObjectInv /\ SpacesInv /\ OthersInv
  OBVIOUS
<1>1. /\ cloud.made = 100 /\ cloud.warehouses = history.found
      /\ cloud.spaces = {[id |-> 1, title |-> "other"]}
      /\ cloud.agents = {[id |-> 2, name |-> "other", tools |-> {}]}
      /\ cloud.endpoints = {[id |-> 2, state |-> "READY"]}
      /\ ~settings.create => "other" \in cloud.schemas
  BY DEF Init
<1>2. own.todo = {} /\ pc = "idle" /\ outcome = "none"
  BY DEF Init, Fresh
<1>3. ObjectInv
  BY <1>1, <1>2 DEF ObjectInv, Made
<1>4. SpacesInv
  BY <1>2 DEF SpacesInv, HasProduction, HasMaintenance, Provisioned
<1>5. \A w \in history.found : ~w.managed
  <2>1. \E found \in Workspaces : history.found = found
    BY DEF Init
  <2>2. QED
    BY <2>1, BootstrapAssumption
<1>6. OthersInv
  BY <1>1, <1>5 DEF OthersInv
<1>7. QED
  BY <1>3, <1>4, <1>6

-----------------------------------------------------------------------------
(* Tables. What each step does to their rows and to the INSERTs.           *)
Rows == <<cloud.loads, cloud.inserts, history.runs, history.left>>

LEMMA TableStepsDo ==
  ASSUME ShapeInv, EnsureTable \/ SubmitInsert \/ InsertDone
  PROVE  /\ UNCHANGED <<history, outcome>>
         /\ \/ /\ EnsureTable /\ pc = "table" /\ cloud.loads[Table] > 0
               /\ UNCHANGED <<cloud.loads, cloud.inserts>>
               /\ pc' = AfterTable /\ own' = NextTable
            \/ /\ EnsureTable /\ pc = "table" /\ ~(cloud.loads[Table] > 0) /\ pc' = "insert"
               /\ UNCHANGED <<own, cloud.inserts>>
               /\ cloud'.loads = [cloud.loads EXCEPT ![Table] = 0]
            \/ /\ SubmitInsert /\ pc = "insert" /\ pc' = "loading" /\ UNCHANGED <<own, cloud.loads>>
               /\ cloud'.inserts = cloud.inserts \cup {Mine(Table)}
            \/ /\ InsertDone /\ pc = "loading" /\ Mine(Table) \notin cloud.inserts
               /\ UNCHANGED <<cloud.loads, cloud.inserts>>
               /\ pc' = AfterTable /\ own' = NextTable
<1>0. cloud \in CloudType
  BY ShapeUsed
<1>1. CASE EnsureTable
  <2> DEFINE l == [cloud.loads EXCEPT ![Table] = 0]
  <2>1. CASE cloud.loads[Table] > 0 /\ Works(AfterTable, NextTable, cloud)
    BY <1>1, <2>1 DEF Works, EnsureTable
  <2>2. CASE ~(cloud.loads[Table] > 0) /\ Works("insert", own, [cloud EXCEPT !.loads = l])
    <3>1. /\ ~(cloud.loads[Table] > 0) /\ cloud' = [cloud EXCEPT !.loads = l] /\ pc' = "insert"
          /\ UNCHANGED <<own, history, outcome>>
      BY <2>2 DEF Works
    <3> HIDE DEF l
    <3>2. cloud'.loads = l /\ cloud'.inserts = cloud.inserts
      BY <1>0, <3>1 DEF CloudType
    <3>3. QED
      BY <1>1, <3>1, <3>2 DEF EnsureTable, l
  <2>3. QED
    BY <1>1, <2>1, <2>2 DEF EnsureTable
<1>2. CASE SubmitInsert
  <2> DEFINE i == cloud.inserts \cup {Mine(Table)}
  <2>1. /\ cloud' = [cloud EXCEPT !.inserts = i] /\ pc = "insert" /\ pc' = "loading"
        /\ UNCHANGED <<own, history, outcome>>
    BY <1>2 DEF SubmitInsert, Works
  <2> HIDE DEF i
  <2>2. cloud'.inserts = i /\ cloud'.loads = cloud.loads
    BY <1>0, <2>1 DEF CloudType
  <2>3. QED
    BY <1>2, <2>1, <2>2 DEF i
<1>3. CASE InsertDone
  BY <1>3 DEF InsertDone, Works
<1>4. QED
  BY <1>1, <1>2, <1>3

LEMMA ExecuteDoes ==
  ASSUME ShapeInv, Execute
  PROVE  /\ UNCHANGED <<pc, own, outcome, history>>
         /\ \E i \in cloud.inserts :
              /\ i.table \in TableSet /\ cloud'.inserts = cloud.inserts \ {i}
              /\ cloud'.loads = [cloud.loads EXCEPT ![i.table] =
                                   IF cloud.loads[i.table] = Absent THEN Absent
                                   ELSE cloud.loads[i.table] + 1]
<1>0. cloud \in CloudType
  BY ShapeUsed
<1>1. PICK i \in cloud.inserts :
        cloud' = [cloud EXCEPT !.inserts = cloud.inserts \ {i},
                               !.loads[i.table] = IF cloud.loads[i.table] = Absent THEN Absent
                                                  ELSE cloud.loads[i.table] + 1]
  BY <1>0 DEF Execute, CloudType
<1> DEFINE l == [cloud.loads EXCEPT ![i.table] = IF cloud.loads[i.table] = Absent THEN Absent
                                                  ELSE cloud.loads[i.table] + 1]
<1>2. cloud' = [[cloud EXCEPT !.inserts = cloud.inserts \ {i}] EXCEPT !.loads = l]
  BY <1>0, <1>1 DEF CloudType
<1>3. i.table \in TableSet
  BY <1>0 DEF CloudType
<1> HIDE DEF l
<1>4. cloud'.inserts = cloud.inserts \ {i} /\ cloud'.loads = l
  BY <1>0, <1>2 DEF CloudType
<1>5. QED
  BY <1>3, <1>4 DEF Execute, l

LEMMA AbortDoes ==
  ASSUME ShapeInv, Abort
  PROVE  /\ pc # "idle" /\ pc' = "idle" /\ outcome' = "aborted" /\ own' = Fresh
         /\ cloud'.loads = cloud.loads /\ history'.runs = history.runs
         /\ cloud'.inserts \in {cloud.inserts, cloud.inserts \ {Mine(Table)}}
         /\ \A t \in TableSet :
              history'.left[t] = IF t = Table /\ Mine(Table) \in cloud'.inserts
                                 THEN history.left[t] + 1 ELSE history.left[t]
<1>0. cloud \in CloudType /\ history \in HistoryType
  BY ShapeUsed DEF ShapeInv
<1>1. /\ cloud' \in {cloud, [cloud EXCEPT !.inserts = cloud.inserts \ {Mine(Table)}]}
      /\ pc # "idle" /\ pc' = "idle" /\ outcome' = "aborted" /\ own' = Fresh
      /\ history' = [history EXCEPT
           !.faults = history.faults + 1,
           !.left[Table] = IF Mine(Table) \in cloud'.inserts THEN history.left[Table] + 1
                           ELSE history.left[Table]]
  BY <1>0 DEF Abort, HistoryType
<1>2. /\ cloud'.loads = cloud.loads
      /\ cloud'.inserts \in {cloud.inserts, cloud.inserts \ {Mine(Table)}}
  BY <1>0, <1>1 DEF CloudType
<1> DEFINE n == IF Mine(Table) \in cloud'.inserts THEN history.left[Table] + 1
                ELSE history.left[Table]
<1>3. history'.runs = history.runs /\ history'.left = [history.left EXCEPT ![Table] = n]
  BY <1>0, <1>1 DEF HistoryType
<1>4. \A t \in TableSet : history'.left[t] = IF t = Table THEN n ELSE history.left[t]
  BY <1>0, <1>3, ShapeUsed DEF HistoryType
<1>5. QED
  BY <1>1, <1>2, <1>3, <1>4

(* The first steps start with the first table; no other touches the rows.  *)
LEMMA WayToTables ==
  ASSUME ShapeInv, ResolveWarehouse \/ EnsureCatalog \/ EnsureSchema
  PROVE  /\ pc \in {"warehouse", "catalog", "schema"} /\ pc' \in {"catalog", "schema", "table"}
         /\ UNCHANGED <<Rows, own.table, outcome>>
<1>0. cloud \in CloudType /\ own \in OwnType(own) /\ NewId \in Nat
  BY ShapeUsed
<1>1. CASE ResolveWarehouse
  <2> DEFINE new == [id |-> NewId, serverless |-> TRUE, managed |-> TRUE]
             w == With("warehouses", new)
  <2>1. /\ \E id : own' = [own EXCEPT !.warehouse = id]
        /\ cloud' \in {cloud, w} /\ UNCHANGED <<outcome, history>>
        /\ pc = "warehouse" /\ pc' = "catalog"
    BY <1>1 DEF ResolveWarehouse, Works
  <2>2. w = [[cloud EXCEPT !.made = NewId] EXCEPT !.warehouses = cloud.warehouses \cup {new}]
    BY <1>0, WithShape DEF Warehouse
  <2>3. w.loads = cloud.loads /\ w.inserts = cloud.inserts
    BY <1>0, <2>2 DEF CloudType
  <2>4. own'.table = own.table
    BY <1>0, <2>1 DEF OwnType
  <2> HIDE DEF w
  <2>5. QED
    BY <2>1, <2>3, <2>4 DEF Rows
<1>2. CASE EnsureCatalog \/ EnsureSchema
  <2>1. /\ pc \in {"catalog", "schema"} /\ pc' \in {"schema", "table"}
        /\ \E c, s : cloud' \in {[cloud EXCEPT !.catalog = c], [cloud EXCEPT !.schemas = s]}
        /\ UNCHANGED <<own, outcome, history>>
    BY <1>2 DEF EnsureCatalog, EnsureSchema, Works
  <2>2. UNCHANGED <<cloud.loads, cloud.inserts>>
    BY <1>0, <2>1 DEF CloudType
  <2>3. QED
    BY <2>1, <2>2 DEF Rows
<1>3. QED
  BY <1>1, <1>2

LEMMA DropSchemaDoes ==
  ASSUME ShapeInv, DropSchema
  PROVE  /\ pc = "drop_schema" /\ pc' \in {"drop_catalog", "delete_warehouses"}
         /\ UNCHANGED <<cloud.inserts, history.runs, history.left, outcome>>
         /\ cloud'.loads \in {cloud.loads, NoTables}
<1>0. cloud \in CloudType
  BY ShapeUsed
<1> DEFINE w == [[cloud EXCEPT !.schemas = cloud.schemas \ {"demo"}] EXCEPT !.loads = NoTables]
<1>1. \E o : Works("drop_catalog", o, w) \/ Fails("delete_warehouses", o, cloud)
  BY DEF DropSchema
<1>2. w.loads = NoTables /\ w.inserts = cloud.inserts
  BY <1>0 DEF CloudType
<1> HIDE DEF w
<1>3. /\ UNCHANGED <<Past, outcome>> /\ pc' \in {"drop_catalog", "delete_warehouses"}
      /\ cloud' \in {cloud, w}
  BY <1>1, FaultsPass
<1>4. QED
  BY <1>2, <1>3 DEF DropSchema, Past

LEMMA RowsStay ==
  ASSUME ShapeInv,
         \/ DropCatalog \/ DeleteWarehouses \/ RemoveConfig \/ RemoveArtifacts
         \/ EditConfig \/ UseHarness \/ UNCHANGED vars
         \/ WaitReady \/ BuildConfig \/ OpenConfig \/ FillConfig \/ WriteQuestions
  PROVE  UNCHANGED Rows
<1>0. cloud \in CloudType /\ history \in HistoryType
  BY ShapeUsed DEF ShapeInv
<1>1. CASE DropCatalog
  <2> DEFINE w == [[cloud EXCEPT !.catalog = FALSE] EXCEPT !.schemas = {}]
  <2>1. \E n, o : Works(n, o, w) \/ Works(n, o, cloud) \/ Fails(n, o, cloud)
    BY <1>1 DEF DropCatalog
  <2>2. w.loads = cloud.loads /\ w.inserts = cloud.inserts
    BY <1>0 DEF CloudType
  <2> HIDE DEF w
  <2>3. UNCHANGED Past /\ cloud' \in {cloud, w}
    BY <2>1, FaultsPass
  <2>4. QED
    BY <2>2, <2>3 DEF Rows, Past
<1>2. CASE DeleteWarehouses
  <2>1. \E n, o, items : \/ Works(n, o, cloud) \/ Fails(n, o, cloud)
                         \/ Works(n, o, Without("warehouses", items))
    BY <1>2 DEF DeleteWarehouses
  <2>2. UNCHANGED Past /\ \E items : cloud' \in {cloud, Without("warehouses", items)}
    BY <2>1, FaultsPass
  <2>3. \A items : /\ Without("warehouses", items).loads = cloud.loads
                   /\ Without("warehouses", items).inserts = cloud.inserts
    BY <1>0, WithoutShape DEF CloudType
  <2>4. QED
    BY <2>2, <2>3 DEF Rows, Past
<1>3. CASE RemoveConfig \/ RemoveArtifacts
  <2>1. cloud' = cloud /\ history' \in {history, [history EXCEPT !.faults = history.faults + 1]}
    BY <1>3 DEF RemoveConfig, RemoveArtifacts, Writes, Fails
  <2>2. QED
    BY <1>0, <2>1 DEF Rows, HistoryType
<1>4. CASE EditConfig \/ UseHarness \/ UNCHANGED vars
  BY <1>4 DEF EditConfig, UseHarness, vars, Rows
<1>5. CASE WaitReady \/ BuildConfig \/ OpenConfig \/ FillConfig \/ WriteQuestions
  BY <1>5, LateStepsDo DEF Rows
<1>6. QED
  BY <1>1, <1>2, <1>3, <1>4, <1>5

(* The INSERTs of a table are counted in numbers.                          *)
LEMMA Counts ==
  ASSUME ShapeInv, LoadInv, NEW t \in TableSet
  PROVE  /\ IsFiniteSet(Pending(t)) /\ Cardinality(Pending(t)) \in Nat
         /\ IsFiniteSet(Pending(t) \ Waited(t)) /\ Cardinality(Pending(t) \ Waited(t)) \in Nat
         /\ cloud.loads[t] \in Nat \cup {Absent} /\ Loads(t) \in Nat /\ Planned(t) \in {0, 1}
         /\ history.left[t] \in Nat /\ Balanced(t)
<1>1. IsFiniteSet(cloud.inserts) /\ Balanced(t)
  BY DEF LoadInv
<1>2. IsFiniteSet(Pending(t)) /\ IsFiniteSet(Pending(t) \ Waited(t))
  BY <1>1, FS_Subset DEF Pending
<1>3. cloud.loads[t] \in Nat \cup {Absent} /\ history.left[t] \in Nat
  BY DEF ShapeInv, CloudType, HistoryType
<1>4. Loads(t) \in Nat /\ Planned(t) \in {0, 1}
  BY <1>3 DEF Loads, Planned, Absent
<1>5. QED
  BY <1>1, <1>2, <1>3, <1>4, FS_CardinalityType

(* A table is one of the list.                                             *)
LEMMA TableIsListed ==
  ASSUME NEW t \in TableSet
  PROVE  \E n \in DOMAIN Tables : t = Tables[n]
BY DEF TableSet

WithTable == {"table", "insert", "loading"}

(* A step that touches no rows, outside the steps on tables.               *)
LEMMA LoadQuiet ==
  ASSUME ShapeInv, LoadInv, UNCHANGED Rows,
         pc \notin WithTable, pc' \notin WithTable \cup {"warehouse", "catalog", "schema"},
         pc' # "idle" => pc # "idle",
         pc' \in AfterTables \/ Provisioned' => pc \in AfterTables \/ Provisioned
  PROVE  LoadInv'
<1>1. UNCHANGED <<cloud.loads, cloud.inserts, history.runs, history.left>>
  BY DEF Rows
<1>2. \A i \in cloud'.inserts :
        /\ i.run <= history'.runs
        /\ i.run = history'.runs /\ pc' # "idle" => pc' = "loading" /\ i = Mine(Table)'
  BY <1>1 DEF LoadInv, WithTable
<1>3. ASSUME NEW t \in TableSet
      PROVE  Balanced(t)'
  <2>1. Waited(t) = {} /\ Waited(t)' = {} /\ Planned(t) = 0 /\ Planned(t)' = 0
    BY DEF WithTable, Waited, Planned
  <2>2. Pending(t)' = Pending(t) /\ Loads(t)' = Loads(t)
    BY <1>1 DEF Pending, Loads
  <2>3. QED
    BY <1>1, <2>1, <2>2, Counts DEF Balanced
<1>4. QED
  BY <1>1, <1>2, <1>3 DEF LoadInv, WithTable

(* From one command to the next: its INSERTs are an older command's now.   *)
LEMMA LoadStart ==
  ASSUME ShapeInv, LoadInv, Start
  PROVE  LoadInv'
<1>0. /\ pc = "idle" /\ pc' \in {"warehouse", "list_spaces"} /\ own'.table = 1
      /\ outcome' = "none" /\ cloud' = cloud
  BY DEF Start, Fresh
<1>1. history'.runs = history.runs + 1 /\ history'.left = history.left
  BY DEF Start, ShapeInv, HistoryType
<1>2. \A i \in cloud.inserts : i.run <= history.runs /\ i.run \in Nat
  BY DEF LoadInv, ShapeInv, CloudType
<1>3. \A i \in cloud.inserts : i.run <= history'.runs /\ i.run # history'.runs
  BY <1>1, <1>2, ShapeUsed
<1>4. ASSUME NEW t \in TableSet
      PROVE  Balanced(t)'
  <2>1. Waited(t) = {} /\ Waited(t)' = {} /\ Planned(t) = 0 /\ Planned(t)' = 0
    BY <1>0 DEF Waited, Planned
  <2>2. Pending(t)' = Pending(t) /\ Loads(t)' = Loads(t)
    BY <1>0 DEF Pending, Loads
  <2>3. QED
    BY <1>1, <2>1, <2>2, Counts DEF Balanced
<1>5. pc' \notin AfterTables /\ ~Provisioned'
  BY <1>0 DEF AfterTables, HasProduction, Provisioned
<1>6. QED
  BY <1>0, <1>3, <1>4, <1>5 DEF LoadInv

(* The table has rows: the next one.                                       *)
LEMMA LoadNext ==
  ASSUME ShapeInv, SpacesInv, LoadInv, UNCHANGED <<history, outcome, cloud.loads, cloud.inserts>>,
         pc \in {"table", "loading"}, Mine(Table) \notin cloud.inserts,
         cloud.loads[Table] >= 1, pc' = AfterTable, own' = NextTable
  PROVE  LoadInv'
<1>0. own.table \in 1..Len(Tables) /\ Len(Tables) \in Nat /\ DOMAIN Tables = 1..Len(Tables)
  BY ShapeUsed, Bounds
<1>1. own'.table = IF own.table = Len(Tables) THEN own.table ELSE own.table + 1
  BY NextTableShape
<1>2. pc' = IF own.table = Len(Tables) THEN "experiment" ELSE "table"
  BY DEF AfterTable
<1>3. \A n \in DOMAIN Tables : n <= own.table => cloud.loads[Tables[n]] >= 1
  <2>1. \A n \in DOMAIN Tables : n < own.table => cloud.loads[Tables[n]] >= 1
    BY DEF LoadInv
  <2>2. \A n \in DOMAIN Tables : n <= own.table => n < own.table \/ n = own.table
    BY <1>0
  <2>3. QED
    BY <2>1, <2>2 DEF Table
<1>4. \A n \in DOMAIN Tables : n < own'.table => cloud.loads[Tables[n]] >= 1
  BY <1>0, <1>1, <1>3
<1>5. pc' = "experiment" => \A t \in TableSet : cloud.loads[t] >= 1
  <2>1. SUFFICES ASSUME own.table = Len(Tables), NEW t \in TableSet PROVE cloud.loads[t] >= 1
    BY <1>2
  <2>2. PICK n \in DOMAIN Tables : t = Tables[n]
    BY TableIsListed
  <2>3. n <= own.table
    BY <1>0, <2>1
  <2>4. QED
    BY <1>3, <2>2, <2>3
<1>6. \A i \in cloud.inserts : i.run <= history.runs /\ i.run # history.runs
  BY DEF LoadInv
<1>7. ASSUME NEW t \in TableSet
      PROVE  Balanced(t)'
  <2>1. Waited(t) = {} /\ Waited(t)' = {} /\ Planned(t) = 0 /\ Planned(t)' = 0
    BY <1>2 DEF Waited, Planned, Pending
  <2>2. Pending(t)' = Pending(t) /\ Loads(t)' = Loads(t)
    BY DEF Pending, Loads
  <2>3. QED
    BY <2>1, <2>2, Counts DEF Balanced
<1>8. ~Provisioned' /\ pc' \notin {"insert", "loading", "warehouse", "catalog", "schema"}
      /\ (pc' \in AfterTables => pc' = "experiment")
  BY <1>2 DEF SpacesInv, Provisioned, AfterTables, HasProduction
<1>9. QED
  BY <1>4, <1>5, <1>6, <1>7, <1>8 DEF LoadInv

(* A table without rows gets one INSERT.                                   *)
LEMMA LoadPlan ==
  ASSUME ShapeInv, SpacesInv, LoadInv, UNCHANGED <<history, outcome, own, cloud.inserts>>,
         pc = "table", ~(cloud.loads[Table] > 0), pc' = "insert",
         cloud'.loads = [cloud.loads EXCEPT ![Table] = 0]
  PROVE  LoadInv'
<1>0. Table \in TableSet /\ cloud.loads \in [TableSet -> Nat \cup {Absent}] /\ own.table \in DOMAIN Tables
  BY ShapeUsed, Bounds DEF CloudType
<1>1. Table' = Table
  BY DEF Table
<1>2. \A t \in TableSet : cloud'.loads[t] = IF t = Table THEN 0 ELSE cloud.loads[t]
  BY <1>0
<1>3. \A i \in cloud.inserts : i.run <= history.runs /\ i.run # history.runs
  BY DEF LoadInv
<1>4. ASSUME NEW t \in TableSet
      PROVE  Balanced(t)'
  <2>1. Waited(t) = {} /\ Waited(t)' = {} /\ Planned(t) = 0
    BY DEF Waited, Planned
  <2>2. Pending(t)' = Pending(t)
    BY DEF Pending
  <2>3. Cardinality(Pending(t)) <= history.left[t]
    <3>1. Pending(t) \ Waited(t) = Pending(t)
      BY <2>1
    <3>2. QED
      BY <3>1, Counts DEF Balanced
  <2>4. CASE t = Table
    <3>1. Planned(t)' = 1 /\ Loads(t)' = 0
      BY <1>1, <1>2, <2>4 DEF Planned, Loads, Absent
    <3>2. QED
      BY <2>1, <2>2, <2>3, <3>1, Counts DEF Balanced
  <2>5. CASE t # Table
    <3>1. Planned(t)' = 0 /\ Loads(t)' = Loads(t)
      BY <1>1, <1>2, <2>5 DEF Planned, Loads
    <3>2. QED
      BY <2>1, <2>2, <2>3, <3>1, Counts DEF Balanced
  <2>6. QED
    BY <2>4, <2>5
<1>5. \A n \in DOMAIN Tables : n < own.table => cloud'.loads[Tables[n]] >= 1
  <2>1. \A n \in DOMAIN Tables : n < own.table => cloud.loads[Tables[n]] >= 1
    BY DEF LoadInv
  <2>2. \A n \in DOMAIN Tables : Tables[n] \in TableSet
    BY DEF TableSet
  <2>3. ~(cloud.loads[Table] >= 1)
    <3>1. cloud.loads[Table] \in Nat \cup {Absent}
      BY <1>0
    <3>2. QED
      BY <3>1 DEF Absent
  <2>4. QED
    BY <1>2, <2>1, <2>2, <2>3
<1>6. cloud'.loads[Table] # Absent
  BY <1>0, <1>2 DEF Absent
<1>7. ~Provisioned' /\ pc' \notin AfterTables
  BY DEF SpacesInv, Provisioned, AfterTables, HasProduction
<1>8. QED
  BY <1>1, <1>3, <1>4, <1>5, <1>6, <1>7 DEF LoadInv

LEMMA LoadSubmit ==
  ASSUME ShapeInv, SpacesInv, LoadInv, UNCHANGED <<history, outcome, own, cloud.loads>>,
         pc = "insert", pc' = "loading", cloud'.inserts = cloud.inserts \cup {Mine(Table)}
  PROVE  LoadInv'
<1>0. Table \in TableSet /\ Mine(Table).table = Table /\ Mine(Table).run = history.runs
      /\ history.runs \in Nat
  BY ShapeUsed DEF Mine
<1>1. Mine(Table)' = Mine(Table) /\ Table' = Table
  BY DEF Table, Mine
<1>2. \A i \in cloud.inserts : i.run <= history.runs /\ i.run # history.runs
  BY DEF LoadInv
<1>3. Mine(Table) \notin cloud.inserts /\ IsFiniteSet(cloud'.inserts)
  <2>1. IsFiniteSet(cloud.inserts)
    BY DEF LoadInv
  <2>2. IsFiniteSet(cloud.inserts \cup {Mine(Table)})
    BY <2>1, FS_AddElement
  <2>3. QED
    BY <1>0, <1>2, <2>2
<1>4. ASSUME NEW t \in TableSet
      PROVE  Balanced(t)'
  <2>1. Waited(t) = {} /\ Planned(t)' = 0 /\ Loads(t)' = Loads(t)
    BY DEF Waited, Planned, Loads
  <2>2. CASE t = Table
    <3>1. Pending(t)' = Pending(t) \cup {Mine(Table)} /\ Mine(Table) \notin Pending(t)
      BY <1>0, <1>3, <2>2 DEF Pending
    <3>2. Waited(t)' = {Mine(Table)}
      BY <1>0, <1>1, <2>2, <3>1 DEF Waited, Pending
    <3>3. Planned(t) = 1
      BY <2>2 DEF Planned
    <3>4. Cardinality(Pending(t)') = Cardinality(Pending(t)) + 1
      BY <3>1, Counts, FS_AddElement
    <3>5. Pending(t)' \ Waited(t)' = Pending(t) \ Waited(t)
      BY <2>1, <3>1, <3>2
    <3>6. QED
      BY <2>1, <3>3, <3>4, <3>5, Counts DEF Balanced
  <2>3. CASE t # Table
    <3>1. Pending(t)' = Pending(t)
      BY <1>0, <2>3 DEF Pending
    <3>2. Waited(t)' = {}
      BY <1>0, <1>1, <2>3, <3>1 DEF Waited, Pending
    <3>3. Planned(t) = 0
      BY <2>3 DEF Planned
    <3>4. QED
      BY <2>1, <3>1, <3>2, <3>3, Counts DEF Balanced
  <2>4. QED
    BY <2>2, <2>3
<1>5. \A i \in cloud'.inserts :
        i.run <= history'.runs /\ (i.run = history'.runs => i = Mine(Table)')
  BY <1>0, <1>1, <1>2
<1>6. /\ cloud'.loads[Table'] # Absent /\ Mine(Table)' \in cloud'.inserts
      /\ \A n \in DOMAIN Tables : n < own'.table => cloud'.loads[Tables[n]] >= 1
  BY <1>1 DEF LoadInv
<1>7. ~Provisioned' /\ pc' \notin AfterTables
  BY DEF SpacesInv, Provisioned, AfterTables, HasProduction
<1>8. QED
  BY <1>3, <1>4, <1>5, <1>6, <1>7 DEF LoadInv

(* The workspace runs one: its rows are there, or its table is gone.       *)
LEMMA LoadExecute ==
  ASSUME ShapeInv, LoadInv, Execute
  PROVE  LoadInv'
<1>0. PICK i \in cloud.inserts :
        /\ i.table \in TableSet /\ cloud'.inserts = cloud.inserts \ {i}
        /\ cloud'.loads = [cloud.loads EXCEPT ![i.table] =
                             IF cloud.loads[i.table] = Absent THEN Absent
                             ELSE cloud.loads[i.table] + 1]
  BY ExecuteDoes
<1>1. UNCHANGED <<pc, own, outcome, history, Table, Mine(Table)>>
  BY ExecuteDoes DEF Table, Mine
<1>2. cloud.loads \in [TableSet -> Nat \cup {Absent}]
  BY ShapeUsed DEF CloudType
<1>3. \A t \in TableSet : cloud'.loads[t] = IF t # i.table THEN cloud.loads[t]
                             ELSE IF cloud.loads[t] = Absent THEN Absent ELSE cloud.loads[t] + 1
  BY <1>0, <1>2
<1>4. \A t \in TableSet : cloud.loads[t] >= 1 => cloud'.loads[t] >= 1
  BY <1>2, <1>3 DEF Absent
<1>5. \A t \in TableSet : cloud.loads[t] # Absent => cloud'.loads[t] # Absent
  BY <1>2, <1>3 DEF Absent
<1>6. IsFiniteSet(cloud'.inserts)
  <2>1. IsFiniteSet(cloud.inserts)
    BY DEF LoadInv
  <2>2. QED
    BY <1>0, <2>1, FS_Subset
<1>7. ASSUME NEW t \in TableSet
      PROVE  Balanced(t)'
  <2>1. Pending(t)' = Pending(t) \ {i} /\ Planned(t)' = Planned(t)
    BY <1>0, <1>1 DEF Pending, Planned
  <2>2. Waited(t)' = Waited(t) \ {i}
    BY <1>1, <2>1 DEF Waited
  <2>3. Pending(t)' \ Waited(t)' \subseteq Pending(t) \ Waited(t)
    BY <2>1, <2>2
  <2>4. /\ Cardinality(Pending(t)' \ Waited(t)') <= Cardinality(Pending(t) \ Waited(t))
        /\ Cardinality(Pending(t)' \ Waited(t)') \in Nat
    BY <2>3, Counts, FS_Subset, FS_CardinalityType
  <2>5. CASE t = i.table
    <3>1. i \in Pending(t)
      BY <1>0, <2>5 DEF Pending
    <3>2. Cardinality(Pending(t)') = Cardinality(Pending(t)) - 1
      BY <2>1, <3>1, Counts, FS_RemoveElement
    <3>3. Loads(t)' <= Loads(t) + 1 /\ Loads(t)' \in Nat
      BY <1>2, <1>3, <2>5 DEF Loads, Absent
    <3>4. QED
      BY <1>1, <2>1, <2>4, <3>2, <3>3, Counts DEF Balanced
  <2>6. CASE t # i.table
    <3>1. Pending(t)' = Pending(t)
      BY <2>1, <2>6 DEF Pending
    <3>2. Loads(t)' = Loads(t)
      BY <1>3, <2>6 DEF Loads
    <3>3. Cardinality(Pending(t)') = Cardinality(Pending(t)) /\ Planned(t)' = Planned(t)
          /\ history'.left[t] = history.left[t]
      BY <1>1, <2>1, <3>1
    <3>4. QED
      BY <2>4, <3>2, <3>3, Counts DEF Balanced
  <2>7. QED
    BY <2>5, <2>6
<1>8. pc = "loading" => Mine(Table) \in cloud'.inserts \/ cloud'.loads[Table] >= 1
  <2> SUFFICES ASSUME pc = "loading" PROVE Mine(Table) \in cloud'.inserts \/ cloud'.loads[Table] >= 1
    OBVIOUS
  <2>1. Table \in TableSet /\ Mine(Table).table = Table /\ cloud.loads[Table] # Absent
    BY ShapeUsed DEF LoadInv, Mine
  <2>2. Mine(Table) \in cloud.inserts \/ cloud.loads[Table] >= 1
    BY DEF LoadInv
  <2>3. i = Mine(Table) => cloud'.loads[Table] >= 1
    BY <1>2, <1>3, <2>1 DEF Absent
  <2>4. QED
    BY <1>0, <1>4, <2>1, <2>2, <2>3
<1>9. \A j \in cloud'.inserts :
        /\ j.run <= history'.runs
        /\ j.run = history'.runs /\ pc' # "idle" => pc' = "loading" /\ j = Mine(Table)'
  BY <1>0, <1>1 DEF LoadInv
<1>10. /\ pc \in {"insert", "loading"} => cloud'.loads[Table] # Absent
       /\ pc \in WithTable => \A n \in DOMAIN Tables : n < own.table => cloud'.loads[Tables[n]] >= 1
       /\ pc \in AfterTables \/ Provisioned => \A t \in TableSet : cloud'.loads[t] >= 1
  <2>1. \A n \in DOMAIN Tables : Tables[n] \in TableSet
    BY DEF TableSet
  <2>2. QED
    BY <1>4, <1>5, <2>1, ShapeUsed DEF LoadInv, WithTable
<1>11. Provisioned' = Provisioned
  BY <1>1 DEF Provisioned
<1>12. QED
  BY <1>1, <1>6, <1>7, <1>8, <1>9, <1>10, <1>11 DEF LoadInv, WithTable

(* The command dies: the INSERT it had sent is one more that was left.     *)
LEMMA LoadAbort ==
  ASSUME ShapeInv, LoadInv, Abort
  PROVE  LoadInv'
<1>0. /\ pc # "idle" /\ pc' = "idle" /\ outcome' = "aborted" /\ own'.table = 1
      /\ cloud'.loads = cloud.loads /\ history'.runs = history.runs
      /\ cloud'.inserts \in {cloud.inserts, cloud.inserts \ {Mine(Table)}}
      /\ \A t \in TableSet :
           history'.left[t] = IF t = Table /\ Mine(Table) \in cloud'.inserts
                              THEN history.left[t] + 1 ELSE history.left[t]
  BY AbortDoes DEF Fresh
<1>1. Mine(Table).table = Table /\ Mine(Table).run = history.runs /\ Table \in TableSet
  BY ShapeUsed DEF Mine
<1>2. IsFiniteSet(cloud'.inserts) /\ \A i \in cloud'.inserts : i.run <= history'.runs
  <2>1. IsFiniteSet(cloud.inserts) /\ \A i \in cloud.inserts : i.run <= history.runs
    BY DEF LoadInv
  <2>2. cloud'.inserts \subseteq cloud.inserts
    BY <1>0
  <2>3. QED
    BY <1>0, <2>1, <2>2, FS_Subset
<1>3. ASSUME NEW t \in TableSet
      PROVE  Balanced(t)'
  <2>1. Waited(t)' = {} /\ Planned(t)' = 0 /\ Loads(t)' = Loads(t)
    BY <1>0 DEF Waited, Planned, Loads
  <2>2. CASE t = Table /\ Mine(Table) \in cloud'.inserts
    <3>1. cloud'.inserts = cloud.inserts /\ Mine(Table) \in cloud.inserts
      BY <1>0, <2>2
    <3>2. pc = "loading"
      BY <1>0, <1>1, <3>1 DEF LoadInv
    <3>3. Pending(t)' = Pending(t) /\ Mine(Table) \in Pending(t)
      BY <1>1, <2>2, <3>1 DEF Pending
    <3>4. Waited(t) = {Mine(Table)}
      BY <3>2, <3>3 DEF Waited
    <3>5. Cardinality(Pending(t) \ Waited(t)) = Cardinality(Pending(t)) - 1
      <4>1. IsFiniteSet(Pending(t))
        BY Counts
      <4>2. \A x \in Pending(t) : Cardinality(Pending(t) \ {x}) = Cardinality(Pending(t)) - 1
        BY <4>1, FS_RemoveElement
      <4>3. QED
        BY <3>3, <3>4, <4>2
    <3>6. history'.left[t] = history.left[t] + 1
      BY <1>0, <2>2
    <3>7. Pending(t)' \ Waited(t)' = Pending(t)
      BY <2>1, <3>3
    <3>8. QED
      BY <2>1, <3>3, <3>5, <3>6, <3>7, Counts DEF Balanced
  <2>3. CASE ~(t = Table /\ Mine(Table) \in cloud'.inserts)
    <3>1. history'.left[t] = history.left[t]
      BY <1>0, <2>3
    <3>2. Pending(t)' \subseteq Pending(t) \ Waited(t)
      <4>1. Mine(Table) \in Waited(t) => Mine(Table) \notin Pending(t)'
        BY <1>1, <2>3 DEF Waited, Pending
      <4>2. Waited(t) \subseteq {Mine(Table)} /\ Pending(t)' \subseteq Pending(t)
        BY <1>0 DEF Waited, Pending
      <4>3. QED
        BY <4>1, <4>2
    <3>3. Pending(t)' \ Waited(t)' = Pending(t)' /\ Pending(t)' \subseteq Pending(t)
      BY <2>1, <3>2
    <3>4. /\ Cardinality(Pending(t)') <= Cardinality(Pending(t) \ Waited(t))
          /\ Cardinality(Pending(t)') <= Cardinality(Pending(t))
          /\ Cardinality(Pending(t)') \in Nat
      BY <3>2, <3>3, Counts, FS_Subset, FS_CardinalityType
    <3>5. QED
      BY <2>1, <3>1, <3>3, <3>4, Counts DEF Balanced
  <2>4. QED
    BY <2>2, <2>3
<1>4. ~Provisioned' /\ pc' \notin AfterTables \cup WithTable \cup {"warehouse", "catalog", "schema"}
  BY <1>0 DEF Provisioned, AfterTables, HasProduction, WithTable
<1>5. QED
  BY <1>0, <1>2, <1>3, <1>4 DEF LoadInv, WithTable

(* The teardown drops the tables: what an INSERT had loaded is gone.       *)
LEMMA LoadDrop ==
  ASSUME ShapeInv, SpacesInv, LoadInv, DropSchema
  PROVE  LoadInv'
<1>0. /\ pc = "drop_schema" /\ pc' \in {"drop_catalog", "delete_warehouses"}
      /\ UNCHANGED <<cloud.inserts, history.runs, history.left, outcome>>
      /\ cloud'.loads \in {cloud.loads, NoTables}
  BY DropSchemaDoes
<1>1. \A i \in cloud.inserts : i.run <= history.runs /\ i.run # history.runs
  BY <1>0 DEF LoadInv
<1>2. ASSUME NEW t \in TableSet
      PROVE  Balanced(t)'
  <2>1. Waited(t) = {} /\ Waited(t)' = {} /\ Planned(t) = 0 /\ Planned(t)' = 0
    BY <1>0 DEF Waited, Planned
  <2>2. Pending(t)' = Pending(t) /\ Loads(t)' \in {Loads(t), 0}
    BY <1>0 DEF Pending, Loads, NoTables
  <2>3. QED
    BY <1>0, <2>1, <2>2, Counts DEF Balanced
<1>3. ~Provisioned' /\ pc' \notin AfterTables \cup WithTable \cup {"warehouse", "catalog", "schema"}
  BY <1>0 DEF SpacesInv, Provisioned, AfterTables, HasProduction, WithTable
<1>4. QED
  BY <1>0, <1>1, <1>2, <1>3 DEF LoadInv, WithTable

LEMMA LoadWay ==
  ASSUME ShapeInv, SpacesInv, LoadInv, ResolveWarehouse \/ EnsureCatalog \/ EnsureSchema
  PROVE  LoadInv'
<1>0. /\ pc \in {"warehouse", "catalog", "schema"} /\ pc' \in {"catalog", "schema", "table"}
      /\ UNCHANGED <<cloud.loads, cloud.inserts, history.runs, history.left, outcome>>
      /\ own'.table = own.table
  BY WayToTables DEF Rows
<1>1. own.table = 1 /\ \A i \in cloud.inserts : i.run <= history.runs /\ i.run # history.runs
  BY <1>0 DEF LoadInv
<1>2. ASSUME NEW t \in TableSet
      PROVE  Balanced(t)'
  <2>1. Waited(t) = {} /\ Waited(t)' = {} /\ Planned(t) = 0 /\ Planned(t)' = 0
    BY <1>0 DEF Waited, Planned
  <2>2. Pending(t)' = Pending(t) /\ Loads(t)' = Loads(t)
    BY <1>0 DEF Pending, Loads
  <2>3. QED
    BY <1>0, <2>1, <2>2, Counts DEF Balanced
<1>3. ~Provisioned' /\ pc' \notin AfterTables \cup {"insert", "loading"}
  BY <1>0 DEF SpacesInv, Provisioned, AfterTables, HasProduction
<1>4. \A n \in DOMAIN Tables : ~(n < own'.table)
  BY <1>0, <1>1, Bounds
<1>5. QED
  BY <1>0, <1>1, <1>2, <1>3, <1>4 DEF LoadInv

LEMMA LoadStep ==
  ASSUME ShapeInv, SpacesInv, LoadInv, [Next]_vars
  PROVE  LoadInv'
<1>0. outcome = "provisioned" => pc = "idle"
  BY DEF SpacesInv
<1>1. CASE ResolveWarehouse \/ EnsureCatalog \/ EnsureSchema
  BY <1>1, LoadWay
<1>2. CASE EnsureTable \/ SubmitInsert \/ InsertDone
  <2>1. CASE /\ pc = "table" /\ cloud.loads[Table] > 0
             /\ UNCHANGED <<history, outcome, cloud.loads, cloud.inserts>>
             /\ pc' = AfterTable /\ own' = NextTable
    <3>1. Mine(Table) \notin cloud.inserts
      <4>1. Mine(Table).run = history.runs
        BY DEF Mine
      <4>2. QED
        BY <2>1, <4>1 DEF LoadInv
    <3>2. cloud.loads[Table] >= 1
      <4>1. cloud.loads[Table] \in Nat \cup {Absent}
        BY ShapeUsed DEF CloudType
      <4>2. QED
        BY <2>1, <4>1 DEF Absent
    <3>3. QED
      BY <2>1, <3>1, <3>2, LoadNext
  <2>2. CASE /\ pc = "loading" /\ Mine(Table) \notin cloud.inserts
             /\ UNCHANGED <<history, outcome, cloud.loads, cloud.inserts>>
             /\ pc' = AfterTable /\ own' = NextTable
    <3>1. cloud.loads[Table] >= 1
      BY <2>2 DEF LoadInv
    <3>2. QED
      BY <2>2, <3>1, LoadNext
  <2>3. QED
    BY <1>2, <2>1, <2>2, TableStepsDo, LoadPlan, LoadSubmit
<1>3. CASE Start \/ Abort \/ Execute \/ DropSchema
  BY <1>3, LoadStart, LoadAbort, LoadExecute, LoadDrop
<1>4. CASE EnsureExperiment
  <2>1. pc = "experiment" /\ pc' = "production" /\ outcome' = outcome /\ UNCHANGED Rows
    <3>1. pc = "experiment" /\ pc' = "production"
      BY <1>4 DEF EnsureExperiment, Works, Fails
    <3>2. QED
      BY <1>4, <3>1, EarlyStepsDo, ObjectStepsElsewhere DEF World, Past, Rows
  <2>2. QED
    BY <1>0, <2>1, LoadQuiet DEF WithTable, AfterTables, Provisioned
<1>5. CASE CreateProduction \/ CreateMaintenance
  <2>1. /\ pc \in {"production", "maintenance"} /\ outcome' = outcome
        /\ pc' \in {"production", "maintenance", "agent", "emit"}
    BY <1>5, CreateSpaceDoes DEF CreateProduction, CreateMaintenance
  <2>2. UNCHANGED Rows
    BY <1>5, ObjectStepsElsewhere DEF World, Past, Rows
  <2>3. QED
    BY <1>0, <2>1, <2>2, LoadQuiet DEF WithTable, AfterTables, HasProduction, Provisioned
<1>6. CASE BuildSupervisor \/ CreateTool
  <2>1. /\ pc \in {"agent", "tools"} /\ pc' \in {"tools", "emit", "ready"} /\ outcome' = outcome
    BY <1>6, BuildSupervisorDoes, CreateToolDoes
  <2>2. UNCHANGED Rows
    BY <1>6, ObjectStepsElsewhere DEF World, Past, Rows
  <2>3. QED
    BY <1>0, <2>1, <2>2, LoadQuiet DEF WithTable, AfterTables, HasProduction, Provisioned
<1>7. CASE WaitReady \/ BuildConfig \/ OpenConfig \/ FillConfig \/ WriteQuestions
  <2>1. /\ pc \in {"ready", "emit", "open", "fill", "questions"}
        /\ pc' \in {"ready", "emit", "open", "fill", "questions", "idle"}
    BY <1>7, LateStepsDo
  <2>2. UNCHANGED Rows
    BY <1>7, RowsStay
  <2>3. QED
    BY <2>1, <2>2, LoadQuiet DEF WithTable, AfterTables, HasProduction, Provisioned
<1>8. CASE TrashSpace \/ DeleteAgent \/ DeleteEndpoint \/ ListSpaces \/ ListAgents
  <2>1. /\ pc \in {"list_spaces", "trash", "list_agents", "delete_agents", "delete_endpoint"}
        /\ pc' \in {"trash", "list_agents", "delete_agents", "delete_endpoint", "delete_experiment"}
        /\ outcome' = outcome
    BY <1>8, TrashSpaceDoes, DeleteAgentDoes, DeleteEndpointDoes, ListStepsDo
  <2>2. UNCHANGED Rows
    BY <1>8, ObjectStepsElsewhere DEF World, Past, Rows
  <2>3. QED
    BY <1>0, <2>1, <2>2, LoadQuiet DEF WithTable, AfterTables, HasProduction, Provisioned
<1>9. CASE \/ DeleteExperiment \/ FindWarehouse \/ DropCatalog
           \/ DeleteWarehouses \/ RemoveConfig \/ RemoveArtifacts
  <2>1. /\ pc \in AfterObjects /\ pc' \in AfterObjects \cup {"idle"}
        /\ IF pc' = "idle" THEN outcome' = "torn_down" ELSE outcome' = outcome
    BY <1>9, RemovalStepsDo
  <2>2. UNCHANGED Rows
    BY <1>9, RowsStay, ObjectStepsElsewhere DEF World, Past, Rows
  <2>3. QED
    BY <1>0, <2>1, <2>2, LoadQuiet
    DEF WithTable, AfterTables, AfterObjects, HasProduction, Provisioned
<1>10. CASE EndpointReady
  <2>1. UNCHANGED <<pc, own, outcome, Rows>>
    BY <1>10, EndpointReadyDoes, ObjectStepsElsewhere DEF World, Past, Rows
  <2>2. UNCHANGED <<cloud.loads, cloud.inserts, history.runs, history.left>>
    BY <2>1 DEF Rows
  <2>3. QED
    BY <2>1, <2>2 DEF LoadInv, Balanced, Pending, Waited, Loads, Planned, Mine, Table, Provisioned
<1>11. CASE UNCHANGED vars
  BY <1>11 DEF vars, LoadInv, Balanced, Pending, Waited, Loads, Planned, Mine, Table, Provisioned
<1>12. CASE EditConfig \/ UseHarness
  <2>1. pc = "idle" /\ pc' = "idle" /\ outcome' # "provisioned"
    BY <1>12 DEF EditConfig, UseHarness
  <2>2. UNCHANGED Rows
    BY <1>12, RowsStay
  <2>3. QED
    BY <2>1, <2>2, LoadQuiet DEF WithTable, AfterTables, HasProduction, Provisioned
<1>13. QED
  BY <1>1, <1>2, <1>3, <1>4, <1>5, <1>6, <1>7, <1>8, <1>9, <1>10, <1>11, <1>12
  DEF Next, Provision, Teardown

LEMMA InitLoads == Init => LoadInv
<1> SUFFICES ASSUME Init PROVE LoadInv
  OBVIOUS
<1>1. /\ pc = "idle" /\ outcome = "none" /\ cloud.inserts = {} /\ cloud.loads = NoTables
      /\ history.left = [t \in TableSet |-> 0]
  BY DEF Init
<1>2. ASSUME NEW t \in TableSet
      PROVE  Balanced(t)
  <2>1. Pending(t) = {} /\ Waited(t) = {} /\ Planned(t) = 0
    BY <1>1 DEF Pending, Waited, Planned
  <2>2. Loads(t) = 0 /\ history.left[t] = 0
    BY <1>1 DEF Loads, NoTables
  <2>3. QED
    BY <2>1, <2>2, FS_EmptySet DEF Balanced
<1>3. QED
  BY <1>1, <1>2, FS_EmptySet DEF LoadInv, AfterTables, HasProduction, Provisioned

-----------------------------------------------------------------------------
(* The supervisor of the run, its endpoint and its tools.                  *)
LEMMA NoTarget ==
  ASSUME AgentInv, pc \notin HasTarget, ~Provisioned
  PROVE  own.target = None
BY DEF AgentInv

LEMMA AgentsIdle ==
  ASSUME \A a \in cloud'.agents : AtMostTwo(a.tools),
         pc' \notin {"tools", "ready"}, own'.target = None
  PROVE  AgentInv'
BY DEF AgentInv

LEMMA AgentsKept ==
  ASSUME ShapeInv, AgentInv, UNCHANGED Objects, cloud'.made \in Nat, cloud.made <= cloud'.made,
         UNCHANGED <<own.production, own.maintenance, own.agent, own.target>>,
         pc' \in {"tools", "ready"} => pc' = pc,
         pc \in HasTarget \/ Provisioned => pc' \in HasTarget \/ Provisioned'
  PROVE  AgentInv'
<1>1. \A id : Made(id) => id \in 101..cloud'.made
  BY ShapeUsed DEF Made
<1>2. UNCHANGED <<cloud.agents, cloud.endpoints, Toolset, Named>>
  BY DEF Objects, Toolset, Named
<1>3. QED
  BY <1>1, <1>2 DEF AgentInv, Made

LEMMA ToolStep ==
  ASSUME ShapeInv, ObjectInv, AgentInv, CreateTool
  PROVE  AgentInv'
<1>0. PICK agent \in cloud.agents :
        LET space == IF agent.tools = {} THEN own.production ELSE own.maintenance
        IN /\ agent.id = own.agent /\ agent \in Agent
           /\ pc' = IF agent.tools = {} THEN "tools" ELSE "ready"
           /\ cloud'.agents = (cloud.agents \ {agent})
                              \cup {[agent EXCEPT !.tools = agent.tools \cup {space}]}
  BY CreateToolDoes
<1>1. /\ pc = "tools" /\ UNCHANGED <<own, cloud.made, cloud.spaces, cloud.endpoints>>
  BY CreateToolDoes
<1> DEFINE space == IF agent.tools = {} THEN own.production ELSE own.maintenance
           new   == [agent EXCEPT !.tools = agent.tools \cup {space}]
<1>2. /\ new.id = agent.id /\ new.name = agent.name /\ new.tools = agent.tools \cup {space}
  BY <1>0 DEF Agent
<1>3. cloud'.agents = (cloud.agents \ {agent}) \cup {new}
  BY <1>0
<1>4. agent.name = "mine" /\ agent.tools \in {{}, {own.production}}
  <2>1. PICK a \in cloud.agents : a.name = "mine" /\ a.id = own.agent
                                  /\ a.tools \in {{}, {own.production}}
    BY <1>1 DEF AgentInv, Named
  <2>2. a = agent
    BY <1>0, <2>1 DEF ObjectInv
  <2>3. QED
    BY <2>1, <2>2
<1> HIDE DEF new
<1>5. /\ pc' = "tools" => new.tools = {own.production}
      /\ pc' = "ready" => new.tools = Toolset
      /\ pc' \in {"tools", "ready"} /\ AtMostTwo(new.tools)
  <2>1. CASE agent.tools = {}
    <3>1. new.tools = {own.production} /\ pc' = "tools"
      BY <1>0, <1>2, <2>1
    <3>2. AtMostTwo(new.tools)
      BY <3>1 DEF AtMostTwo
    <3>3. QED
      BY <3>1, <3>2
  <2>2. CASE agent.tools = {own.production}
    <3>1. new.tools = {own.production, own.maintenance} /\ pc' = "ready"
      BY <1>0, <1>2, <2>2
    <3>2. AtMostTwo(new.tools)
      BY <3>1 DEF AtMostTwo
    <3>3. QED
      BY <3>1, <3>2 DEF Toolset
  <2>3. QED
    BY <1>4, <2>1, <2>2
<1>6. own.target = None
  BY <1>1, NoTarget DEF HasTarget, Provisioned
<1>7. new \in cloud'.agents /\ new.id = own'.agent /\ new.name = "mine"
  BY <1>0, <1>1, <1>2, <1>3, <1>4
<1>8. \A a \in cloud'.agents : AtMostTwo(a.tools)
  BY <1>3, <1>5 DEF AgentInv
<1>9. Made(own.agent)' /\ \E e \in cloud'.endpoints : e.id = own'.agent
  BY <1>1 DEF AgentInv, Made
<1>10. UNCHANGED <<Toolset, own.production>> /\ own'.target = None
  BY <1>1, <1>6 DEF Toolset
<1>11. \E a \in Named' : /\ a.id = own'.agent
                         /\ a.tools \in IF pc' = "ready" THEN {Toolset'} ELSE {{}, {own'.production}}
  <2>1. new \in Named'
    BY <1>7 DEF Named
  <2>2. new.tools \in IF pc' = "ready" THEN {Toolset'} ELSE {{}, {own'.production}}
    BY <1>5, <1>10
  <2>3. QED
    BY <1>7, <2>1, <2>2
<1>12. QED
  BY <1>8, <1>9, <1>10, <1>11 DEF AgentInv

LEMMA BuildStep ==
  ASSUME ShapeInv, ObjectInv, AgentInv, BuildSupervisor
  PROVE  AgentInv'
<1> DEFINE new == [id |-> NewId, name |-> "mine", tools |-> {}]
           end == [id |-> NewId, state |-> "NOT_READY"]
<1>1. /\ pc = "agent" /\ UNCHANGED <<own.production, own.maintenance, own.target>>
      /\ \/ UNCHANGED <<cloud.agents>>
         \/ cloud'.agents = cloud.agents \cup {new}
      /\ \/ pc' = "emit"
         \/ /\ pc' = "tools" /\ own'.agent = NewId /\ cloud'.made = NewId
            /\ cloud'.agents = cloud.agents \cup {new}
            /\ cloud'.endpoints = cloud.endpoints \cup {end}
  BY BuildSupervisorDoes
<1>2. own'.target = None
  BY <1>1, NoTarget DEF HasTarget, Provisioned
<1>3. \A a \in cloud'.agents : AtMostTwo(a.tools)
  <2>1. AtMostTwo({})
    BY DEF AtMostTwo
  <2>2. new.tools = {}
    OBVIOUS
  <2> HIDE DEF new, end
  <2>3. \A a \in cloud'.agents : a \in cloud.agents \/ a = new
    BY <1>1
  <2>4. QED
    BY <2>1, <2>2, <2>3 DEF AgentInv
<1>4. CASE pc' = "emit"
  BY <1>2, <1>3, <1>4, AgentsIdle
<1>5. CASE pc' = "tools"
  <2>1. new \in Named' /\ end \in cloud'.endpoints /\ own'.agent = NewId
    BY <1>1, <1>5 DEF Named
  <2>2. Made(own.agent)'
    BY <1>1, <1>5, NewIsMade DEF Made
  <2>3. /\ \E e \in cloud'.endpoints : e.id = own'.agent
        /\ \E a \in Named' : a.id = own'.agent /\ a.tools = {}
    BY <2>1
  <2>4. QED
    BY <1>2, <1>3, <1>5, <2>2, <2>3 DEF AgentInv
<1>6. QED
  BY <1>1, <1>4, <1>5

LEMMA ReadyStep ==
  ASSUME ShapeInv, AgentInv, EndpointReady
  PROVE  AgentInv'
<1>1. UNCHANGED <<cloud.made, cloud.spaces, cloud.agents, pc, own, outcome>>
  BY EndpointReadyDoes
<1>2. \A id : (\E e \in cloud.endpoints : e.id = id) => \E e \in cloud'.endpoints : e.id = id
  <2>1. PICK e \in cloud.endpoints, f \in Endpoint :
          f.id = e.id /\ cloud'.endpoints = (cloud.endpoints \ {e}) \cup {f}
    BY EndpointReadyDoes
  <2>2. f \in cloud'.endpoints /\ \A d \in cloud.endpoints : d = e \/ d \in cloud'.endpoints
    BY <2>1
  <2>3. QED
    BY <2>1, <2>2
<1>3. UNCHANGED <<Toolset, Named, Provisioned>>
  BY <1>1 DEF Toolset, Named, Provisioned
<1>4. QED
  BY <1>1, <1>2, <1>3 DEF AgentInv, Made

LEMMA AgentStep ==
  ASSUME ShapeInv, ObjectInv, SpacesInv, AgentInv, [Next]_vars
  PROVE  AgentInv'
<1>0. cloud.made \in Nat
  BY ShapeUsed
<1>a. \A a \in cloud.agents : AtMostTwo(a.tools)
  BY DEF AgentInv
<1>b. outcome = "provisioned" => pc = "idle"
  BY DEF SpacesInv
<1>c. Fresh.target = None
  BY FreshHas
<1>1. CASE \/ ResolveWarehouse \/ EnsureCatalog \/ EnsureSchema \/ EnsureTable
           \/ SubmitInsert \/ InsertDone \/ EnsureExperiment
  <2>1. /\ pc \in BeforeSpaces /\ pc' \in BeforeSpaces \cup {"production"}
        /\ cloud'.agents = cloud.agents /\ own'.target = own.target
    BY <1>1, EarlyStepsDo DEF Objects, Handles
  <2>2. own.target = None
    BY <2>1, NoTarget DEF BeforeSpaces, HasTarget, Provisioned
  <2>3. QED
    BY <1>a, <2>1, <2>2, AgentsIdle DEF BeforeSpaces
<1>2. CASE WaitReady
  <2>1. /\ UNCHANGED <<cloud, own.production, own.maintenance, own.agent, outcome>>
        /\ pc = "ready" /\ \/ pc' = "ready" /\ UNCHANGED own.target
                           \/ pc' = "emit" /\ own'.target = own.agent
    <3>1. pc = "ready" /\ pc' \in {"ready", "emit"}
      BY <1>2 DEF WaitReady, Works
    <3>2. QED
      BY <1>2, <3>1, LateStepsDo
  <2>2. CASE pc' = "ready" /\ UNCHANGED own.target
    BY <1>0, <2>1, <2>2, AgentsKept DEF Objects, HasTarget, Provisioned
  <2>3. CASE pc' = "emit" /\ own'.target = own.agent
    <3>1. /\ \E e \in cloud.endpoints : e.id = own.agent
          /\ \E a \in Named : a.id = own.agent /\ a.tools = Toolset
      BY <2>1 DEF AgentInv
    <3>2. Named' = Named /\ Toolset' = Toolset
      BY <2>1 DEF Named, Toolset
    <3>3. pc' \in HasTarget
      BY <2>3 DEF HasTarget
    <3>4. QED
      BY <1>a, <2>1, <2>3, <3>1, <3>2, <3>3 DEF AgentInv
  <2>4. QED
    BY <2>1, <2>2, <2>3
<1>3. CASE BuildConfig \/ OpenConfig \/ FillConfig \/ WriteQuestions
  <2>1. CASE pc' = "idle" /\ outcome' = "rejected"
    <3>1. cloud' = cloud /\ own' = Fresh
      BY <1>3, <2>1, LateStepsDo
    <3>2. QED
      BY <1>a, <1>c, <2>1, <3>1, AgentsIdle
  <2>2. CASE ~(pc' = "idle" /\ outcome' = "rejected")
    <3>1. UNCHANGED <<cloud, own.production, own.maintenance, own.agent>>
      BY <1>3, <2>2, LateStepsDo
    <3>2. /\ pc \in HasTarget /\ UNCHANGED own.target
          /\ pc' \in HasTarget \/ (pc' = "idle" /\ outcome' = "provisioned")
      <4>1. pc \in HasTarget /\ pc # "ready"
        BY <1>3 DEF BuildConfig, OpenConfig, FillConfig, WriteQuestions, HasTarget
      <4>2. QED
        BY <2>2, <1>3, <4>1, LateStepsDo DEF HasTarget
    <3>3. pc' \notin {"tools", "ready"} /\ (pc' \in HasTarget \/ Provisioned')
      BY <3>2 DEF HasTarget, Provisioned
    <3>4. QED
      BY <1>0, <3>1, <3>2, <3>3, AgentsKept DEF Objects
  <2>3. QED
    BY <2>1, <2>2
<1>4. CASE TrashSpace \/ DeleteAgent \/ DeleteEndpoint \/ ListSpaces \/ ListAgents
  <2>1. /\ pc \in {"list_spaces", "trash", "list_agents", "delete_agents", "delete_endpoint"}
        /\ pc' \in {"trash", "list_agents", "delete_agents", "delete_endpoint", "delete_experiment"}
        /\ own'.target = own.target /\ cloud'.agents \subseteq cloud.agents
    BY <1>4, TrashSpaceDoes, DeleteAgentDoes, DeleteEndpointDoes, ListStepsDo
  <2>2. own.target = None
    BY <2>1, NoTarget DEF HasTarget, Provisioned
  <2>3. QED
    BY <1>a, <2>1, <2>2, AgentsIdle
<1>5. CASE \/ DeleteExperiment \/ FindWarehouse \/ DropSchema \/ DropCatalog
           \/ DeleteWarehouses \/ RemoveConfig \/ RemoveArtifacts
  <2>1. /\ pc \in AfterObjects /\ pc' \in AfterObjects \cup {"idle"}
        /\ cloud'.agents = cloud.agents /\ own'.target = own.target
    BY <1>5, RemovalStepsDo DEF Objects
  <2>2. own.target = None
    BY <2>1, NoTarget DEF AfterObjects, HasTarget, Provisioned
  <2>3. QED
    BY <1>a, <2>1, <2>2, AgentsIdle DEF AfterObjects
<1>6. CASE Start \/ Abort \/ EditConfig \/ UseHarness \/ Execute \/ UNCHANGED vars
  <2>1. /\ UNCHANGED <<Objects, cloud.made>>
        /\ \/ UNCHANGED <<pc, own, outcome>>
           \/ own' = Fresh /\ pc' \in {"idle", "warehouse", "list_spaces"}
    BY <1>6, OtherStepsDo
  <2>2. CASE UNCHANGED <<pc, own, outcome>>
    BY <1>0, <2>1, <2>2, AgentsKept DEF Provisioned
  <2>3. CASE own' = Fresh /\ pc' \in {"idle", "warehouse", "list_spaces"}
    BY <1>a, <1>c, <2>1, <2>3, AgentsIdle DEF Objects
  <2>4. QED
    BY <2>1, <2>2, <2>3
<1>7. CASE CreateProduction \/ CreateMaintenance
  <2>1. /\ pc \in {"production", "maintenance"} /\ cloud'.agents = cloud.agents
        /\ own'.target = own.target /\ pc' \in {"production", "maintenance", "agent", "emit"}
    BY <1>7, CreateSpaceDoes DEF CreateProduction, CreateMaintenance
  <2>2. own.target = None
    BY <2>1, NoTarget DEF HasTarget, Provisioned
  <2>3. QED
    BY <1>a, <2>1, <2>2, AgentsIdle
<1>8. QED
  BY <1>1, <1>2, <1>3, <1>4, <1>5, <1>6, <1>7, ToolStep, BuildStep, ReadyStep
  DEF Next, Provision, Teardown

-----------------------------------------------------------------------------
(* The config file. What is new wins, and nothing old is lost.             *)
LEMMA UpdatedHas ==
  \A old, new :
    /\ DOMAIN Updated(old, new) = DOMAIN old \cup DOMAIN new
    /\ \A key \in DOMAIN new : Updated(old, new)[key] = new[key]
    /\ \A key \in DOMAIN old \ DOMAIN new : Updated(old, new)[key] = old[key]
BY DEF Updated

(* What build_config_dict gives.                                           *)
LEMMA DictNames ==
  ASSUME own.production # None
  PROVE  Names(ConfigDict(EmittedVariants))
<1> DEFINE variants == EmittedVariants
           sup == IF "supervisor" \in variants THEN own.target ELSE None
           mcp == IF "supervisor_mcp" \in variants THEN own.production ELSE None
           optional == [databricks_profile |-> settings.profile, experiment_id |-> own.experiment,
                        supervisor_target |-> sup, mcp_target |-> mcp]
           given == {key \in DOMAIN optional : optional[key] # None}
           more  == [key \in given |-> optional[key]]
           first == [workspace_host |-> 1, genie_space_id |-> own.production,
                     variants |-> variants, questions_file |-> 1]
           c     == ConfigDict(EmittedVariants)
<1>1. c = Updated(first, more)
  BY DEF ConfigDict
<1>2. /\ DOMAIN first = {"workspace_host", "genie_space_id", "variants", "questions_file"}
      /\ first.genie_space_id = own.production /\ first.variants = variants
  OBVIOUS
<1>3. /\ DOMAIN optional = {"databricks_profile", "experiment_id", "supervisor_target", "mcp_target"}
      /\ optional.supervisor_target = sup /\ optional.mcp_target = mcp
  OBVIOUS
<1>4. DOMAIN more = given /\ \A key \in given : more[key] = optional[key]
  OBVIOUS
<1>5. "supervisor" \in variants => own.target # None
  BY DEF EmittedVariants
<1>6. given \subseteq DOMAIN optional /\ \A key \in DOMAIN optional : key \in given <=> optional[key] # None
  OBVIOUS
<1> HIDE DEF first, more, optional, given, c, variants
<1>7. /\ DOMAIN c = DOMAIN first \cup given
      /\ \A key \in given : c[key] = optional[key]
      /\ \A key \in DOMAIN first : key \notin given => c[key] = first[key]
  <2>1. DOMAIN c = DOMAIN first \cup DOMAIN more
    BY <1>1, UpdatedHas
  <2>2. \A key \in DOMAIN more : c[key] = more[key]
    BY <1>1, UpdatedHas
  <2>3. \A key \in DOMAIN first \ DOMAIN more : c[key] = first[key]
    BY <1>1, UpdatedHas
  <2>4. QED
    BY <1>4, <2>1, <2>2, <2>3
<1>8. "genie_space_id" \notin given /\ "variants" \notin given
  BY <1>3, <1>6
<1>9. /\ {"genie_space_id", "variants"} \subseteq DOMAIN c
      /\ c.genie_space_id = own.production /\ c.variants = variants
  BY <1>2, <1>7, <1>8
<1>10. "supervisor_mcp" \in variants => "mcp_target" \in DOMAIN c /\ c.mcp_target = own.production
  BY <1>3, <1>6, <1>7
<1>11. "supervisor" \in variants =>
         /\ own.target # None
         /\ "supervisor_target" \in DOMAIN c /\ c.supervisor_target = own.target
  BY <1>3, <1>5, <1>6, <1>7
<1>12. QED
  BY <1>9, <1>10, <1>11 DEF Names, c

(* Merging it into an old config keeps what it says.                       *)
LEMMA MergedNames ==
  ASSUME NEW old, NEW new, Names(new)
  PROVE  Names(Merged(old, new))
<1> DEFINE c == Merged(old, new)
<1>1. /\ DOMAIN new \subseteq DOMAIN c /\ \A key \in DOMAIN new : c[key] = new[key]
  <2>1. DOMAIN c = DOMAIN old \cup DOMAIN new
    BY UpdatedHas DEF Merged
  <2>2. \A key \in DOMAIN new : c[key] = new[key]
    BY UpdatedHas DEF Merged
  <2> HIDE DEF c
  <2>3. QED
    BY <2>1, <2>2
<1> HIDE DEF c
<1>2. Names(c)
  BY <1>1 DEF Names
<1>3. QED
  BY <1>2 DEF c

LEMMA ConfigIdle ==
  ASSUME IF disk'.state = "whole" THEN DOMAIN disk'.config # {} ELSE disk'.config = Empty,
         pc' \notin {"open", "fill", "questions"}, ~Provisioned'
  PROVE  ConfigInv'
BY DEF ConfigInv

LEMMA ConfigKept ==
  ASSUME ConfigInv, UNCHANGED <<disk, own, pc, outcome>>
  PROVE  ConfigInv'
BY DEF ConfigInv, Names, Provisioned

LEMMA ConfigStep ==
  ASSUME ShapeInv, SpacesInv, ConfigInv, [Next]_vars
  PROVE  ConfigInv'
<1>a. IF disk.state = "whole" THEN DOMAIN disk.config # {} ELSE disk.config = Empty
  BY DEF ConfigInv
<1>b. outcome = "provisioned" => pc = "idle"
  BY DEF SpacesInv
<1>1. CASE \/ ResolveWarehouse \/ EnsureCatalog \/ EnsureSchema \/ EnsureTable
           \/ SubmitInsert \/ InsertDone \/ EnsureExperiment
  <2>1. /\ pc \in BeforeSpaces /\ pc' \in BeforeSpaces \cup {"production"}
        /\ UNCHANGED <<disk, outcome>>
    BY <1>1, EarlyStepsDo
  <2>2. QED
    BY <1>a, <1>b, <2>1, ConfigIdle DEF BeforeSpaces, Provisioned
<1>2. CASE \/ CreateProduction \/ CreateMaintenance \/ BuildSupervisor \/ CreateTool \/ TrashSpace
           \/ DeleteAgent \/ DeleteEndpoint \/ ListSpaces \/ ListAgents
  <2>1. /\ pc # "idle" /\ UNCHANGED <<disk, outcome>>
        /\ pc' \in {"production", "maintenance", "agent", "emit", "tools", "ready", "trash",
                    "list_agents", "delete_agents", "delete_endpoint", "delete_experiment"}
    BY <1>2, CreateSpaceDoes, BuildSupervisorDoes, CreateToolDoes, TrashSpaceDoes, DeleteAgentDoes,
       DeleteEndpointDoes, ListStepsDo DEF CreateProduction, CreateMaintenance
  <2>2. QED
    BY <1>a, <1>b, <2>1, ConfigIdle DEF Provisioned
<1>3. CASE \/ DeleteExperiment \/ FindWarehouse \/ DropSchema \/ DropCatalog
           \/ DeleteWarehouses \/ RemoveConfig \/ RemoveArtifacts
  <2>1. /\ pc \in AfterObjects /\ pc' \in AfterObjects \cup {"idle"}
        /\ IF pc' = "idle" THEN outcome' = "torn_down" ELSE outcome' = outcome
        /\ \/ UNCHANGED <<disk.state, disk.config>>
           \/ disk'.state = "absent" /\ disk'.config = Empty
    BY <1>3, RemovalStepsDo
  <2>2. QED
    BY <1>a, <1>b, <2>1, ConfigIdle DEF Provisioned, AfterObjects
<1>4. CASE Start \/ Abort \/ EditConfig \/ UseHarness \/ Execute \/ UNCHANGED vars
  <2>1. \/ UNCHANGED <<pc, own, disk, outcome>>
        \/ /\ outcome' # "provisioned" /\ pc' \in {"idle", "warehouse", "list_spaces"}
           /\ EditConfig \/ UNCHANGED <<disk.state, disk.config>>
    BY <1>4, OtherStepsDo
  <2>2. CASE /\ outcome' # "provisioned" /\ pc' \in {"idle", "warehouse", "list_spaces"}
             /\ UNCHANGED <<disk.state, disk.config>>
    BY <1>a, <2>2, ConfigIdle DEF Provisioned
  <2>3. CASE EditConfig
    <3>1. PICK keys : disk' = [disk EXCEPT !.config = Updated(disk.config, keys)]
      BY <2>3 DEF EditConfig
    <3>2. disk.state = "whole" /\ outcome' = "none" /\ pc' = "idle"
      BY <2>3 DEF EditConfig
    <3>3. disk'.state = "whole" /\ disk'.config = Updated(disk.config, keys)
      BY <3>1, <3>2 DEF ShapeInv
    <3>4. DOMAIN disk'.config # {}
      <4>1. DOMAIN disk'.config = DOMAIN disk.config \cup DOMAIN keys
        BY <3>3, UpdatedHas
      <4>2. DOMAIN disk.config # {}
        BY <1>a, <3>2
      <4>3. QED
        BY <4>1, <4>2
    <3>5. QED
      BY <3>2, <3>3, <3>4, ConfigIdle DEF Provisioned
  <2>4. QED
    BY <2>1, <2>2, <2>3, ConfigKept
<1>5. CASE EndpointReady
  BY <1>5, EndpointReadyDoes, ConfigKept
<1>6. CASE WaitReady
  <2>1. pc = "ready" /\ pc' \in {"ready", "emit"} /\ UNCHANGED <<disk, outcome>>
    BY <1>6 DEF WaitReady, Works
  <2>2. QED
    BY <1>a, <1>b, <2>1, ConfigIdle DEF Provisioned
<1>7. CASE BuildConfig
  <2>1. pc = "emit" /\ disk' = disk
    BY <1>7 DEF BuildConfig, Works
  <2>2. \/ pc' = "idle" /\ outcome' = "rejected"
        \/ /\ pc' = "open" /\ outcome' = outcome
           /\ UNCHANGED <<own.target, own.production>>
           /\ own'.config = ConfigDict(EmittedVariants)
    <3>1. pc' \in {"idle", "open"}
      BY <1>7 DEF BuildConfig, Works
    <3>2. QED
      BY <1>7, <2>1, <3>1, LateStepsDo
  <2>3. CASE pc' = "idle" /\ outcome' = "rejected"
    BY <1>a, <2>1, <2>3, ConfigIdle DEF Provisioned
  <2>4. CASE /\ pc' = "open" /\ outcome' = outcome
             /\ UNCHANGED <<own.target, own.production>>
             /\ own'.config = ConfigDict(EmittedVariants)
    <3>1. own.production # None
      BY <2>1 DEF SpacesInv, HasProduction, Made, None
    <3>2. Names(own'.config)
      BY <2>4, <3>1, DictNames
    <3>3. Names(own.config)'
      BY <2>4, <3>2 DEF Names
    <3>4. QED
      BY <1>a, <1>b, <2>1, <2>4, <3>3 DEF ConfigInv, Provisioned
  <2>5. QED
    BY <2>2, <2>3, <2>4
<1>8. CASE OpenConfig
  <2>1. /\ pc = "open" /\ pc' = "fill" /\ outcome' = outcome
        /\ UNCHANGED <<own.target, own.production>>
        /\ own'.config = IF disk.state = "whole" THEN Merged(disk.config, own.config) ELSE own.config
        /\ disk'.state = "torn" /\ disk'.config = Empty
    <3>1. pc = "open" /\ pc' = "fill"
      BY <1>8 DEF OpenConfig, Writes
    <3>2. QED
      BY <1>8, <3>1, LateStepsDo
  <2>2. Names(own'.config)
    BY <2>1, MergedNames DEF ConfigInv
  <2>3. Names(own.config)'
    BY <2>1, <2>2 DEF Names
  <2>4. QED
    BY <1>b, <2>1, <2>3 DEF ConfigInv, Provisioned
<1>9. CASE FillConfig
  <2>1. /\ pc = "fill" /\ pc' = "questions" /\ outcome' = outcome
        /\ UNCHANGED <<own.target, own.production>>
        /\ disk'.state = "whole" /\ disk'.config = own.config
    <3>1. pc = "fill" /\ pc' = "questions"
      BY <1>9 DEF FillConfig, Writes
    <3>2. QED
      BY <1>9, <3>1, LateStepsDo
  <2>2. Names(own.config)
    BY <2>1 DEF ConfigInv
  <2>3. Names(disk.config)' /\ DOMAIN disk'.config # {}
    BY <2>1, <2>2 DEF Names
  <2>4. QED
    BY <2>1, <2>3 DEF ConfigInv
<1>10. CASE WriteQuestions
  <2>1. /\ pc = "questions" /\ pc' = "idle" /\ outcome' = "provisioned"
        /\ UNCHANGED own /\ UNCHANGED <<disk.state, disk.config>>
    <3>1. pc = "questions" /\ pc' = "idle"
      BY <1>10 DEF WriteQuestions
    <3>2. QED
      BY <1>10, <3>1, LateStepsDo
  <2>2. disk.state = "whole" /\ Names(disk.config)
    BY <2>1 DEF ConfigInv
  <2>3. Names(disk.config)'
    BY <2>1, <2>2 DEF Names
  <2>4. QED
    BY <1>a, <2>1, <2>2, <2>3 DEF ConfigInv
<1>11. QED
  BY <1>1, <1>2, <1>3, <1>4, <1>5, <1>6, <1>7, <1>8, <1>9, <1>10 DEF Next, Provision, Teardown

LEMMA InitConfig == Init => AgentInv /\ ConfigInv
<1> SUFFICES ASSUME Init PROVE AgentInv /\ ConfigInv
  OBVIOUS
<1>1. /\ pc = "idle" /\ outcome = "none" /\ own.target = None
      /\ cloud.agents = {[id |-> 2, name |-> "other", tools |-> {}]}
      /\ disk.state = "absent" /\ disk.config = Empty
  BY DEF Init, Fresh
<1>2. \A a \in cloud.agents : AtMostTwo(a.tools)
  BY <1>1 DEF AtMostTwo
<1>3. QED
  BY <1>1, <1>2 DEF AgentInv, ConfigInv, Provisioned

-----------------------------------------------------------------------------
(* The inductive invariant, whole: it holds first, and every step keeps it. *)
IInv == ShapeInv /\ ObjectInv /\ OthersInv /\ SpacesInv /\ AgentInv /\ ConfigInv /\ LoadInv

THEOREM Inductive == Spec => []IInv
<1>1. Init => IInv
  BY InitShape, InitObjects, InitLoads, InitConfig DEF IInv
<1>2. IInv /\ [Next]_vars => IInv'
  BY StepShape, ObjectStep, OthersStep, SpacesStep, AgentStep, ConfigStep, LoadStep DEF IInv
<1>3. QED
  BY <1>1, <1>2, PTL DEF Spec

LEMMA TwoAtMost ==
  ASSUME NEW tools, AtMostTwo(tools)
  PROVE  Cardinality(tools) <= 2
<1>1. PICK x, y : tools \subseteq {x, y}
  BY DEF AtMostTwo
<1>2. IsFiniteSet({x}) /\ Cardinality({x}) = 1
  BY FS_Singleton
<1>3. {x, y} = {x} \cup {y}
  OBVIOUS
<1>4. IsFiniteSet({x, y}) /\ Cardinality({x, y}) <= 2
  BY <1>2, <1>3, FS_AddElement
<1>5. /\ IsFiniteSet(tools) /\ Cardinality(tools) <= Cardinality({x, y})
      /\ Cardinality(tools) \in Nat /\ Cardinality({x, y}) \in Nat
  BY <1>1, <1>4, FS_Subset, FS_CardinalityType
<1>6. QED
  BY <1>4, <1>5

(* The types: among them, that a catalog that is gone has no schemas, that *)
(* a supervisor has two tools at most, spaces the bootstrap made, and that *)
(* the file has a config exactly when it is whole.                         *)
THEOREM TypesHold == Spec => []TypeOK
<1>1. IInv => TypeOK
  <2> SUFFICES ASSUME IInv PROVE TypeOK
    OBVIOUS
  <2>0. ShapeInv /\ ObjectInv /\ AgentInv /\ ConfigInv
    BY DEF IInv
  <2>1. cloud \in CloudType /\ own \in OwnType(own) /\ history \in HistoryType
    BY <2>0 DEF ShapeInv
  <2>2. /\ cloud.made \in Nat /\ cloud.catalog \in BOOLEAN /\ cloud.schemas \subseteq {"demo", "other"}
        /\ cloud.loads \in [TableSet -> Nat \cup {Absent}]
        /\ cloud.inserts \subseteq [table: TableSet, run: 1..MaxRuns]
    BY <2>1 DEF CloudType
  <2>3. ASSUME NEW a \in cloud.agents
        PROVE  a.tools \subseteq 101..cloud.made /\ Cardinality(a.tools) <= 2
    BY <2>0, TwoAtMost DEF ObjectInv, AgentInv, Made
  <2>4. disk.state \in {"absent", "torn", "whole"}
    BY <2>0 DEF ShapeInv
  <2>5. disk.config # Empty <=> disk.state = "whole"
    <3>1. DOMAIN Empty = {}
      BY DEF Empty
    <3>2. QED
      BY <2>0, <3>1 DEF ConfigInv
  <2>6. own.table \in DOMAIN Tables
    BY <2>1 DEF OwnType
  <2>7. history.runs \in 0..MaxRuns /\ history.faults \in 0..MaxFaults
    BY <2>1 DEF HistoryType
  <2>8. /\ ~cloud.catalog => cloud.schemas = {}
        /\ outcome \in {"none", "provisioned", "torn_down", "aborted", "rejected"}
    BY <2>0 DEF ShapeInv
  <2>9. QED
    BY <2>2, <2>3, <2>4, <2>5, <2>6, <2>7, <2>8 DEF TypeOK
<1>2. QED
  BY <1>1, Inductive, PTL

(* A bootstrap that ends well leaves a whole config that names what it     *)
(* made itself, and that is there: the production space, and, where the    *)
(* variants want one, the endpoint of a supervisor with both spaces for    *)
(* tools; whatever config was there before, and whatever failed.           *)
THEOREM ConfigNamesThisRun == Spec => []ConfigIsThisRuns
<1>1. IInv => ConfigIsThisRuns
  <2> SUFFICES ASSUME IInv, outcome = "provisioned" PROVE ConfigIsThisRuns
    BY DEF ConfigIsThisRuns
  <2>1. Provisioned
    BY DEF IInv, SpacesInv, Provisioned
  <2>2. disk.state = "whole" /\ Names(disk.config)
    BY <2>1 DEF IInv, ConfigInv
  <2>3. own.production \in Ids(Titled)
    <3>1. PICK s \in cloud.spaces : s.id = own.production /\ s.title = "production"
      BY <2>1 DEF IInv, SpacesInv
    <3>2. QED
      BY <3>1 DEF Ids, Titled
  <2>4. own.target # None =>
          /\ own.target \in Ids(cloud.endpoints)
          /\ \E a \in Named : a.id = own.target /\ a.tools = {own.production, own.maintenance}
    BY DEF IInv, AgentInv, Ids, Toolset
  <2>5. QED
    BY <2>2, <2>3, <2>4 DEF ConfigIsThisRuns, Names
<1>2. QED
  BY <1>1, Inductive, PTL

(* What the bootstrap did not make survives every command that ends, fails *)
(* or dies: provided no catalog of the configured name was there before it *)
(* was told to create one, since the teardown drops that one whole (which  *)
(* the run Bootstrap_catalog shows).                                       *)
THEOREM SharedKept ==
  ASSUME ~Adopts
  PROVE  Spec => []SharedUntouched
<1>1. IInv => SharedUntouched
  BY DEF IInv, OthersInv, SharedUntouched, Ids
<1>2. QED
  BY <1>1, Inductive, PTL

(* However often commands are started, fail or die, a table's loads, done  *)
(* and running, are one, and one for each INSERT dead commands left: more  *)
(* than one load there can be, but none that is not accounted for. And a   *)
(* bootstrap that ends well leaves no table empty (provision.py:233-241).  *)
THEOREM LoadsAccounted == Spec => []LoadsAreAccounted
<1>1. IInv => LoadsAreAccounted
  <2> SUFFICES ASSUME IInv PROVE LoadsAreAccounted
    OBVIOUS
  <2>0. ShapeInv /\ SpacesInv /\ LoadInv
    BY DEF IInv
  <2>1. ASSUME NEW t \in TableSet
        PROVE  Loads(t) + Cardinality(Pending(t)) <= 1 + history.left[t]
    <3>1. /\ Cardinality(Pending(t)) \in Nat /\ Loads(t) \in Nat /\ Planned(t) \in {0, 1}
          /\ history.left[t] \in Nat /\ Balanced(t)
      BY <2>0, Counts
    <3>2. Loads(t) + Cardinality(Pending(t)) + Planned(t) <= 1 + history.left[t]
      BY <3>1 DEF Balanced
    <3>3. QED
      BY <3>1, <3>2
  <2>2. ASSUME outcome = "provisioned", NEW t \in TableSet PROVE Loads(t) >= 1
    <3>1. cloud.loads[t] >= 1
      BY <2>0, <2>2 DEF SpacesInv, LoadInv, Provisioned
    <3>2. QED
      BY <3>1 DEF Loads, Absent
  <2>3. QED
    BY <2>1, <2>2 DEF LoadsAreAccounted
<1>2. QED
  BY <1>1, Inductive, PTL

-----------------------------------------------------------------------------
(* The config a bootstrap leaves loads. What the rules ask of a config     *)
(* that no environment and no merge supplies: no credential, guardrails    *)
(* and a trace destination that hold.                                      *)
Sound(c) == ~Given(c, "secret") /\ Guardrails(c) /\ TraceDestinationWhole(c)

(* An edit that the rules accept on its own, and that does not take back   *)
(* the permission an earlier one may rest on.                              *)
HarmlessEdit(keys) ==
  Sound(keys) /\ (Given(keys, "concurrency") \/ Get(keys, "allow_concurrency", TRUE))

EmittedKeys == {"workspace_host", "genie_space_id", "variants", "questions_file",
                "databricks_profile", "experiment_id", "supervisor_target", "mcp_target"}

LoadableInv ==
  /\ disk.state = "whole" => Sound(disk.config)
  /\ pc = "open" => DOMAIN own.config \subseteq EmittedKeys
  /\ pc \in {"open", "fill"} => RequiredGiven(own.config) /\ Sound(own.config)
  /\ pc = "questions" \/ Provisioned => RequiredGiven(disk.config)

LEMMA UpdatedGets ==
  \A old, new, key, default :
    /\ Given(Updated(old, new), key) <=> Given(old, key) \/ Given(new, key)
    /\ Get(Updated(old, new), key, default)
         = IF Given(new, key) THEN new[key] ELSE Get(old, key, default)
BY DEF Updated, Get, Given

(* What the rules ask of a config depends on these keys only.              *)
GuardedKeys == {"secret", "concurrency", "allow_concurrency", "repetitions", "max_questions",
                "request_timeout_seconds", "poll_interval_seconds", "max_runtime_seconds",
                "trace_destination"}

LEMMA SoundKept ==
  ASSUME NEW old, NEW new, Sound(old), DOMAIN new \cap GuardedKeys = {}
  PROVE  Sound(Updated(old, new))
<1> DEFINE c == Updated(old, new)
<1>1. \A key \in GuardedKeys : ~Given(new, key)
  BY DEF Given
<1>2. \A key \in GuardedKeys : \A default :
        (Given(c, key) <=> Given(old, key)) /\ Get(c, key, default) = Get(old, key, default)
  BY <1>1, UpdatedGets
<1> HIDE DEF c
<1>3. ~Given(c, "secret")
  BY <1>2 DEF Sound, GuardedKeys
<1>4. Guardrails(c)
  BY <1>2 DEF Sound, Guardrails, GuardedKeys
<1>5. TraceDestinationWhole(c)
  <2>1. Get(c, "trace_destination", 0) = Get(old, "trace_destination", 0)
        /\ (Given(c, "trace_destination") <=> Given(old, "trace_destination"))
    BY <1>2 DEF GuardedKeys
  <2>2. QED
    BY <2>1 DEF Sound, TraceDestinationWhole, Get
<1>6. QED
  BY <1>3, <1>4, <1>5 DEF Sound, c

LEMMA SoundEdited ==
  ASSUME NEW old, NEW keys, Sound(old), HarmlessEdit(keys)
  PROVE  Sound(Updated(old, keys))
<1> DEFINE c == Updated(old, keys)
<1>1. \A key, default : /\ Given(c, key) <=> Given(old, key) \/ Given(keys, key)
                        /\ Get(c, key, default) = IF Given(keys, key) THEN keys[key]
                                                  ELSE Get(old, key, default)
  BY UpdatedGets
<1>2. \A key, default : Given(keys, key) => keys[key] = Get(keys, key, default)
  BY DEF Get
<1>3. Sound(keys) /\ (Given(keys, "concurrency") \/ Get(keys, "allow_concurrency", TRUE))
  BY DEF HarmlessEdit
<1> HIDE DEF c
<1>4. ~Given(c, "secret")
  BY <1>1, <1>3 DEF Sound
<1>5. Guardrails(c)
  <2>1. \A key \in {"repetitions", "max_questions", "request_timeout_seconds",
                    "poll_interval_seconds"} : Get(c, key, 1) >= 1
    BY <1>1, <1>2, <1>3 DEF Sound, Guardrails
  <2>2. Get(c, "max_runtime_seconds", 1) # NaN
    BY <1>1, <1>2, <1>3 DEF Sound, Guardrails
  <2>3. Get(c, "concurrency", 1) >= 1
        /\ (Get(c, "concurrency", 1) # 1 => Get(c, "allow_concurrency", FALSE))
    <3>1. CASE Given(keys, "concurrency")
      <4>1. Get(c, "concurrency", 1) = Get(keys, "concurrency", 1)
        BY <1>1, <1>2, <3>1
      <4>2. Get(keys, "allow_concurrency", FALSE) => Get(c, "allow_concurrency", FALSE)
        BY <1>1 DEF Get
      <4>3. QED
        BY <1>3, <4>1, <4>2 DEF Sound, Guardrails
    <3>2. CASE ~Given(keys, "concurrency")
      <4>1. Get(c, "concurrency", 1) = Get(old, "concurrency", 1)
        BY <1>1, <3>2
      <4>2. Get(old, "allow_concurrency", FALSE) => Get(c, "allow_concurrency", FALSE)
        BY <1>1, <1>3, <3>2 DEF Get
      <4>3. QED
        BY <4>1, <4>2 DEF Sound, Guardrails
    <3>3. QED
      BY <3>1, <3>2
  <2>4. QED
    BY <2>1, <2>2, <2>3 DEF Guardrails
<1>6. TraceDestinationWhole(c)
  <2>1. CASE Given(keys, "trace_destination")
    <3>1. Get(c, "trace_destination", 0) = keys["trace_destination"]
      BY <1>1, <2>1
    <3>2. QED
      BY <1>3, <2>1, <3>1 DEF Sound, TraceDestinationWhole, Get
  <2>2. CASE ~Given(keys, "trace_destination")
    <3>1. /\ Get(c, "trace_destination", 0) = Get(old, "trace_destination", 0)
          /\ Given(c, "trace_destination") <=> Given(old, "trace_destination")
      BY <1>1, <2>2
    <3>2. QED
      BY <3>1 DEF Sound, TraceDestinationWhole, Get
  <2>3. QED
    BY <2>1, <2>2
<1>7. QED
  BY <1>4, <1>5, <1>6 DEF Sound, c

(* What is required stays when the new keys say so, or leave the variants. *)
LEMMA RequiredKept ==
  ASSUME NEW old, NEW new
  PROVE  /\ RequiredGiven(new) => RequiredGiven(Updated(old, new))
         /\ "variants" \notin DOMAIN new /\ RequiredGiven(old) => RequiredGiven(Updated(old, new))
<1> DEFINE c == Updated(old, new)
<1>1. /\ DOMAIN c = DOMAIN old \cup DOMAIN new
      /\ "variants" \in DOMAIN new => c.variants = new.variants
      /\ "variants" \in DOMAIN old \ DOMAIN new => c.variants = old.variants
  <2>1. DOMAIN c = DOMAIN old \cup DOMAIN new
    BY UpdatedHas
  <2>2. "variants" \in DOMAIN new => c.variants = new.variants
    BY UpdatedHas
  <2>3. "variants" \in DOMAIN old \ DOMAIN new => c.variants = old.variants
    BY UpdatedHas
  <2>4. QED
    BY <2>1, <2>2, <2>3
<1> HIDE DEF c
<1>2. QED
  BY <1>1 DEF RequiredGiven, c

LEMMA DictKeys ==
  /\ DOMAIN ConfigDict(EmittedVariants) \subseteq EmittedKeys
  /\ {"workspace_host", "genie_space_id", "questions_file", "variants"}
       \subseteq DOMAIN ConfigDict(EmittedVariants)
<1> DEFINE base == [workspace_host |-> 1, genie_space_id |-> own.production,
                   variants |-> EmittedVariants, questions_file |-> 1]
           For(variant, id) == IF variant \in EmittedVariants THEN id ELSE None
           optional == [databricks_profile |-> settings.profile, experiment_id |-> own.experiment,
                        supervisor_target |-> For("supervisor", own.target),
                        mcp_target |-> For("supervisor_mcp", own.production)]
           given == {key \in DOMAIN optional : optional[key] # None}
           extra == [key \in given |-> optional[key]]
<1>1. ConfigDict(EmittedVariants) = Updated(base, extra)
  BY DEF ConfigDict
<1>0. DOMAIN extra \subseteq {"databricks_profile", "experiment_id", "supervisor_target", "mcp_target"}
  OBVIOUS
<1> HIDE DEF extra
<1>2. DOMAIN base = {"workspace_host", "genie_space_id", "variants", "questions_file"}
  OBVIOUS
<1> HIDE DEF base
<1>3. DOMAIN ConfigDict(EmittedVariants) = DOMAIN base \cup DOMAIN extra
  BY <1>1, UpdatedHas
<1>4. QED
  BY <1>0, <1>2, <1>3 DEF EmittedKeys

(* The environment says nothing of the variants, nor of what is guarded.   *)
LEMMA OverridesSpare ==
  ASSUME NEW env
  PROVE  LET over == [key \in DOMAIN env \cap EnvOverridable |-> env[key]]
         IN DOMAIN over \cap GuardedKeys = {} /\ "variants" \notin DOMAIN over
BY DEF EnvOverridable, GuardedKeys

LEMMA EmittedIsSound ==
  ASSUME NEW c, NEW env, ParseConfigAccepts(c, env), DOMAIN c \subseteq EmittedKeys,
         {"workspace_host", "genie_space_id", "questions_file", "variants"} \subseteq DOMAIN c
  PROVE  RequiredGiven(c) /\ Sound(c)
<1> DEFINE over == [key \in DOMAIN env \cap EnvOverridable |-> env[key]]
<1>1. RequiredGiven(Overridden(c, env))
  BY DEF ParseConfigAccepts
<1>2. "variants" \in DOMAIN c \ DOMAIN over
  BY OverridesSpare
<1>3. Overridden(c, env).variants = c.variants
  BY <1>2, UpdatedHas DEF Overridden
<1>4. \A key \in GuardedKeys : ~Given(c, key)
  BY DEF Given, GuardedKeys, EmittedKeys
<1>5. \A key \in GuardedKeys : \A default : Get(c, key, default) = default
  BY <1>4 DEF Get
<1>6. Guardrails(c)
  <2>1. /\ Get(c, "concurrency", 1) = 1 /\ Get(c, "max_runtime_seconds", 1) = 1
        /\ \A key \in {"repetitions", "max_questions", "request_timeout_seconds",
                       "poll_interval_seconds"} : Get(c, key, 1) = 1
    BY <1>5 DEF GuardedKeys
  <2>2. /\ Get(c, "concurrency", 1) >= 1 /\ ~(Get(c, "concurrency", 1) # 1)
        /\ Get(c, "max_runtime_seconds", 1) # NaN
    BY <2>1 DEF NaN
  <2>3. \A key \in {"repetitions", "max_questions", "request_timeout_seconds",
                   "poll_interval_seconds"} : Get(c, key, 1) >= 1
    BY <2>1
  <2>4. QED
    BY <2>2, <2>3 DEF Guardrails
<1>7. ~Given(c, "secret") /\ TraceDestinationWhole(c)
  BY <1>4 DEF TraceDestinationWhole, GuardedKeys
<1>8. QED
  BY <1>1, <1>3, <1>6, <1>7 DEF RequiredGiven, Sound

LEMMA LoadableElsewhere ==
  ASSUME LoadableInv, pc' \notin {"open", "fill", "questions"}, ~Provisioned',
         UNCHANGED <<disk.state, disk.config>> \/ disk'.state # "whole"
  PROVE  LoadableInv'
BY DEF LoadableInv

LEMMA LoadableKept ==
  ASSUME LoadableInv, UNCHANGED <<disk, own, pc, outcome>>
  PROVE  LoadableInv'
BY DEF LoadableInv, Provisioned

LEMMA LoadableStep ==
  ASSUME \A keys \in UserKeys : HarmlessEdit(keys),
         ShapeInv, SpacesInv, LoadableInv, [Next]_vars
  PROVE  LoadableInv'
<1>b. outcome = "provisioned" => pc = "idle"
  BY DEF SpacesInv
<1>1. CASE \/ ResolveWarehouse \/ EnsureCatalog \/ EnsureSchema \/ EnsureTable
           \/ SubmitInsert \/ InsertDone \/ EnsureExperiment
  <2>1. /\ pc \in BeforeSpaces /\ pc' \in BeforeSpaces \cup {"production"}
        /\ UNCHANGED <<disk, outcome>>
    BY <1>1, EarlyStepsDo
  <2>2. QED
    BY <1>b, <2>1, LoadableElsewhere DEF BeforeSpaces, Provisioned
<1>2. CASE \/ CreateProduction \/ CreateMaintenance \/ BuildSupervisor \/ CreateTool \/ TrashSpace
           \/ DeleteAgent \/ DeleteEndpoint \/ ListSpaces \/ ListAgents
  <2>1. /\ pc # "idle" /\ UNCHANGED <<disk, outcome>>
        /\ pc' \in {"production", "maintenance", "agent", "emit", "tools", "ready", "trash",
                    "list_agents", "delete_agents", "delete_endpoint", "delete_experiment"}
    BY <1>2, CreateSpaceDoes, BuildSupervisorDoes, CreateToolDoes, TrashSpaceDoes, DeleteAgentDoes,
       DeleteEndpointDoes, ListStepsDo DEF CreateProduction, CreateMaintenance
  <2>2. QED
    BY <1>b, <2>1, LoadableElsewhere DEF Provisioned
<1>3. CASE \/ DeleteExperiment \/ FindWarehouse \/ DropSchema \/ DropCatalog
           \/ DeleteWarehouses \/ RemoveConfig \/ RemoveArtifacts
  <2>1. /\ pc \in AfterObjects /\ pc' \in AfterObjects \cup {"idle"}
        /\ IF pc' = "idle" THEN outcome' = "torn_down" ELSE outcome' = outcome
        /\ UNCHANGED <<disk.state, disk.config>> \/ disk'.state = "absent"
    BY <1>3, RemovalStepsDo
  <2>2. QED
    BY <1>b, <2>1, LoadableElsewhere DEF Provisioned, AfterObjects
<1>4. CASE Start \/ Abort \/ EditConfig \/ UseHarness \/ Execute \/ UNCHANGED vars
  <2>1. \/ UNCHANGED <<pc, own, disk, outcome>>
        \/ /\ outcome' # "provisioned" /\ pc' \in {"idle", "warehouse", "list_spaces"}
           /\ EditConfig \/ UNCHANGED <<disk.state, disk.config>>
    BY <1>4, OtherStepsDo
  <2>2. CASE /\ outcome' # "provisioned" /\ pc' \in {"idle", "warehouse", "list_spaces"}
             /\ UNCHANGED <<disk.state, disk.config>>
    BY <2>2, LoadableElsewhere DEF Provisioned
  <2>3. CASE EditConfig
    <3>1. PICK keys \in UserKeys : disk' = [disk EXCEPT !.config = Updated(disk.config, keys)]
      BY <2>3 DEF EditConfig
    <3>2. disk.state = "whole" /\ outcome' = "none" /\ pc' = "idle"
      BY <2>3 DEF EditConfig
    <3>3. disk'.config = Updated(disk.config, keys)
      BY <3>1, <3>2 DEF ShapeInv
    <3>4. Sound(disk'.config)
      <4>1. Sound(disk.config) /\ HarmlessEdit(keys)
        BY <3>2 DEF LoadableInv
      <4>2. QED
        BY <3>3, <4>1, SoundEdited
    <3>5. QED
      BY <3>2, <3>4 DEF LoadableInv, Sound, Provisioned
  <2>4. QED
    BY <2>1, <2>2, <2>3, LoadableKept
<1>5. CASE EndpointReady
  BY <1>5, EndpointReadyDoes, LoadableKept
<1>6. CASE WaitReady
  <2>1. pc = "ready" /\ pc' \in {"ready", "emit"} /\ UNCHANGED <<disk, outcome>>
    BY <1>6 DEF WaitReady, Works
  <2>2. QED
    BY <1>b, <2>1, LoadableElsewhere DEF Provisioned
<1>7. CASE BuildConfig
  <2> DEFINE c == ConfigDict(EmittedVariants)
  <2>1. /\ pc = "emit" /\ disk' = disk
        /\ \/ pc' = "idle" /\ outcome' = "rejected"
           \/ /\ pc' = "open" /\ outcome' = outcome /\ own' = [own EXCEPT !.config = c]
              /\ \E env \in Envs : ParseConfigAccepts(c, env)
    BY <1>7 DEF BuildConfig, Works
  <2>2. CASE pc' = "idle" /\ outcome' = "rejected"
    BY <2>1, <2>2, LoadableElsewhere DEF Provisioned
  <2>3. CASE /\ pc' = "open" /\ outcome' = outcome /\ own' = [own EXCEPT !.config = c]
             /\ \E env \in Envs : ParseConfigAccepts(c, env)
    <3>1. PICK env \in Envs : ParseConfigAccepts(c, env)
      BY <2>3
    <3>2. /\ DOMAIN c \subseteq EmittedKeys
          /\ {"workspace_host", "genie_space_id", "questions_file", "variants"} \subseteq DOMAIN c
      BY DictKeys
    <3> HIDE DEF c
    <3>3. RequiredGiven(c) /\ Sound(c)
      BY <3>1, <3>2, EmittedIsSound
    <3>4. own'.config = c
      BY <2>3, ShapeUsed DEF OwnType
    <3>5. disk'.state = "whole" => Sound(disk'.config)
      BY <2>1 DEF LoadableInv
    <3>6. outcome' # "provisioned"
      BY <1>b, <2>1, <2>3
    <3>7. pc' = "open"
      BY <2>3
    <3>8. QED
      BY <3>2, <3>3, <3>4, <3>5, <3>6, <3>7 DEF LoadableInv, Provisioned
  <2>4. QED
    BY <2>1, <2>2, <2>3
<1>8. CASE OpenConfig
  <2>1. /\ pc = "open" /\ pc' = "fill" /\ outcome' = outcome
        /\ own'.config = IF disk.state = "whole" THEN Merged(disk.config, own.config) ELSE own.config
        /\ disk'.state = "torn"
    <3>1. pc = "open" /\ pc' = "fill"
      BY <1>8 DEF OpenConfig, Writes
    <3>2. QED
      BY <1>8, <3>1, LateStepsDo
  <2>2. /\ RequiredGiven(own.config) /\ Sound(own.config)
        /\ DOMAIN own.config \cap GuardedKeys = {}
    BY <2>1 DEF LoadableInv, EmittedKeys, GuardedKeys
  <2>3. RequiredGiven(own'.config) /\ Sound(own'.config)
    <3>1. CASE disk.state = "whole"
      <4>1. own'.config = Updated(disk.config, own.config)
        BY <2>1, <3>1 DEF Merged
      <4>2. Sound(disk.config)
        BY <3>1 DEF LoadableInv
      <4>3. QED
        BY <2>2, <4>1, <4>2, SoundKept, RequiredKept
    <3>2. CASE disk.state # "whole"
      BY <2>1, <2>2, <3>2
    <3>3. QED
      BY <3>1, <3>2
  <2>4. QED
    BY <1>b, <2>1, <2>3 DEF LoadableInv, Provisioned
<1>9. CASE FillConfig
  <2>1. pc = "fill" /\ pc' = "questions" /\ disk'.config = own.config
    <3>1. pc = "fill" /\ pc' = "questions"
      BY <1>9 DEF FillConfig, Writes
    <3>2. QED
      BY <1>9, <3>1, LateStepsDo
  <2>2. QED
    BY <2>1 DEF LoadableInv, Provisioned
<1>10. CASE WriteQuestions
  <2>1. /\ pc = "questions" /\ pc' = "idle" /\ UNCHANGED <<disk.state, disk.config>>
    <3>1. pc = "questions" /\ pc' = "idle"
      BY <1>10 DEF WriteQuestions
    <3>2. QED
      BY <1>10, <3>1, LateStepsDo
  <2>2. QED
    BY <2>1 DEF LoadableInv, Provisioned
<1>11. QED
  BY <1>1, <1>2, <1>3, <1>4, <1>5, <1>6, <1>7, <1>8, <1>9, <1>10 DEF Next, Provision, Teardown

(* What a sound config that names this run's objects needs to be loaded:   *)
(* an environment cannot take back what it gives.                          *)
LEMMA SoundLoads ==
  ASSUME NEW c, NEW env, RequiredGiven(c), Sound(c), Names(c), AuthUnambiguous(Overridden(c, env))
  PROVE  ParseConfigAccepts(c, env)
<1> DEFINE over == [key \in DOMAIN env \cap EnvOverridable |-> env[key]]
           d    == Overridden(c, env)
<1>1. d = Updated(c, over)
  BY DEF Overridden
<1>2. DOMAIN over \cap GuardedKeys = {} /\ "variants" \notin DOMAIN over
  BY OverridesSpare
<1> HIDE DEF over, d
<1>3. RequiredGiven(d) /\ Sound(d)
  BY <1>1, <1>2, RequiredKept, SoundKept
<1>4. /\ DOMAIN c \subseteq DOMAIN d /\ d.variants = c.variants
  <2>1. "variants" \in DOMAIN c \ DOMAIN over
    BY <1>2 DEF RequiredGiven
  <2>2. d.variants = c.variants
    BY <1>1, <2>1, UpdatedHas
  <2>3. DOMAIN c \subseteq DOMAIN d
    BY <1>1, UpdatedHas
  <2>4. QED
    BY <2>2, <2>3
<1>5. TargetsGiven(d)
  BY <1>4 DEF Names, TargetsGiven, Given
<1>6. QED
  BY <1>3, <1>5 DEF ParseConfigAccepts, Sound, d

(* A bootstrap that ends well leaves a config that loads in every          *)
(* environment, whatever it was merged into and however often users edited *)
(* it, unless a profile meets the default authentication: provided no edit *)
(* itself breaks the rules, the one thing the bootstrap cannot help, since *)
(* it keeps every key it does not emit.                                    *)
THEOREM EmittedLoads ==
  ASSUME \A keys \in UserKeys : HarmlessEdit(keys)
  PROVE  Spec => []EmittedConfigLoads
<1>1. Init => LoadableInv
  BY DEF Init, LoadableInv, Provisioned
<1>2. IInv /\ LoadableInv /\ [Next]_vars => LoadableInv'
  BY LoadableStep DEF IInv
<1>3. IInv /\ LoadableInv => EmittedConfigLoads
  <2> SUFFICES ASSUME IInv, LoadableInv, outcome = "provisioned",
                      NEW env \in Envs, AuthUnambiguous(Overridden(disk.config, env))
               PROVE  ParseConfigAccepts(disk.config, env)
    BY DEF EmittedConfigLoads
  <2>1. Provisioned
    BY DEF IInv, SpacesInv, Provisioned
  <2>2. disk.state = "whole" /\ Names(disk.config)
    BY <2>1 DEF IInv, ConfigInv
  <2>3. QED
    BY <2>1, <2>2, SoundLoads DEF LoadableInv
<1>4. QED
  BY <1>1, <1>2, <1>3, Inductive, PTL DEF Spec
==============================================================================
