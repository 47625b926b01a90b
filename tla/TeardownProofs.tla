---------------------------- MODULE TeardownProofs ----------------------------
(***************************************************************************)
(* What a teardown leaves: the invariant behind TeardownRemovesEverything, *)
(* phase by phase, for every settings file, workspace and table list, and  *)
(* any number of commands, failures and deaths before it.                  *)
(***************************************************************************)
EXTENDS BootstrapProofs

(* The steps of a teardown by what is gone when they are reached.          *)
SpacesGone     == {"list_agents", "delete_agents", "delete_endpoint"} \cup AfterObjects
ExperimentGone == AfterObjects \ {"delete_experiment"}
DroppingDone   == {"delete_warehouses", "remove_config", "remove_rest"}
WarehousesGone == {"remove_config", "remove_rest"}
BeforeDropping == {"list_spaces", "trash", "list_agents", "delete_agents", "delete_endpoint",
                   "delete_experiment", "find_warehouse"}

Done(steps) == pc \in steps \/ outcome = "torn_down"
Faultless   == ~Adopts /\ history.faults = 0
Dropped     == "demo" \notin cloud.schemas /\ (settings.create => ~cloud.catalog)

(* Holds whatever failed: which warehouses there are besides those found,  *)
(* and that a bootstrap without a supervisor makes no agent.               *)
EverInv ==
  /\ outcome # "none" => pc = "idle"
  /\ cloud.warehouses = history.found \cup Managed
  /\ settings.reuse # None => Managed = {}
  /\ pc = "agent" => settings.build
  /\ ~settings.build => Named = {}
  /\ pc \in BeforeDropping => own.warehouse = None

(* Of a command that met no failure.                                       *)
CleanInv ==
  own.clean =>
    /\ pc = "trash" => Ids(Titled) \subseteq own.todo
    /\ Done(SpacesGone) => Titled = {}
    /\ pc \in {"delete_agents", "delete_endpoint"} => Ids(Named) \subseteq own.todo
    /\ Done(AfterObjects) => Named = {}
    /\ Done(ExperimentGone) => cloud.experiment = None
    /\ pc = "drop_catalog" => "demo" \notin cloud.schemas
    /\ Done(DroppingDone) /\ (own.warehouse # None \/ Faultless) => Dropped
    /\ Done(WarehousesGone) => Managed = {}
    /\ Done({"remove_rest"}) => disk.state = "absent"
    /\ outcome = "torn_down" => disk.artifacts \cap {"questions", "mlruns", own.output} = {}

(* Every endpoint but that of others has an agent, or is the next to go.   *)
Paired == \A e \in cloud.endpoints : \/ e.id = 2 \/ e.id \in Ids(Named)
                                     \/ pc = "delete_endpoint" /\ e.id = own.agent

(* As long as no command failed: every endpoint of the bootstrap still has *)
(* its agent, and where a bootstrap made something to drop there is a      *)
(* warehouse to drop it with.                                              *)
FaultlessInv ==
  history.faults = 0 =>
    /\ own.clean
    /\ Paired
    /\ ~Adopts /\ settings.reuse = None /\ cloud.warehouses = {} => Dropped
    /\ pc \in {"catalog", "schema"} => settings.reuse # None \/ cloud.warehouses # {}

-----------------------------------------------------------------------------
(* A step either meets no failure and leaves the command as clean as it    *)
(* was, or fails and says so, or begins or ends the command.               *)
Honest(o) == o \in OwnType(o) /\ o.clean = own.clean

Quiet     == history'.faults = history.faults /\ own'.clean = own.clean
Failed    == history'.faults = history.faults + 1 /\ ~own'.clean
Elsewhere == /\ own' = Fresh /\ pc' \in {"idle", "warehouse", "list_spaces"}
             /\ outcome' \notin {"provisioned", "torn_down"}
             /\ history'.faults \in {history.faults, history.faults + 1}

LEMMA HonestSets ==
  ASSUME NEW o, Honest(o)
  PROVE  /\ \A v : Honest([o EXCEPT !.warehouse = v])
         /\ \A v \in DOMAIN Tables : Honest([o EXCEPT !.table = v])
         /\ \A v \in BOOLEAN : Honest([o EXCEPT !.fallback = v])
         /\ \A v \in Nat : Honest([o EXCEPT !.production = v])
         /\ \A v \in Nat : Honest([o EXCEPT !.maintenance = v])
         /\ \A v \in Nat : Honest([o EXCEPT !.agent = v])
         /\ \A v \in Nat : Honest([o EXCEPT !.target = v])
         /\ \A v \in Nat : Honest([o EXCEPT !.experiment = v])
         /\ \A v \in Nat : Honest([o EXCEPT !.polls = v])
         /\ \A v \in BOOLEAN : Honest([o EXCEPT !.confirmed = v])
         /\ \A v \in SUBSET Nat : Honest([o EXCEPT !.todo = v])
         /\ \A v : Honest([o EXCEPT !.output = v])
         /\ \A v : Honest([o EXCEPT !.config = v])
<1>1. o \in OwnType(o) /\ o.clean = own.clean
  BY DEF Honest
<1>2. /\ \A v : [o EXCEPT !.warehouse = v].clean = o.clean
      /\ \A v : [o EXCEPT !.table = v].clean = o.clean
      /\ \A v : [o EXCEPT !.fallback = v].clean = o.clean
      /\ \A v : [o EXCEPT !.production = v].clean = o.clean
      /\ \A v : [o EXCEPT !.maintenance = v].clean = o.clean
      /\ \A v : [o EXCEPT !.agent = v].clean = o.clean
      /\ \A v : [o EXCEPT !.target = v].clean = o.clean
      /\ \A v : [o EXCEPT !.experiment = v].clean = o.clean
      /\ \A v : [o EXCEPT !.polls = v].clean = o.clean
      /\ \A v : [o EXCEPT !.confirmed = v].clean = o.clean
      /\ \A v : [o EXCEPT !.todo = v].clean = o.clean
      /\ \A v : [o EXCEPT !.output = v].clean = o.clean
      /\ \A v : [o EXCEPT !.config = v].clean = o.clean
  BY <1>1 DEF OwnType
<1>3. QED
  BY <1>1, <1>2, OwnSets DEF Honest

LEMMA OwnIsHonest == ShapeInv => Honest(own)
BY DEF ShapeInv, Honest

LEMMA WorksClean ==
  ASSUME ShapeInv, NEW n, NEW o, NEW w, Honest(o),
         Works(n, o, w) \/ Writes(n, o, w) \/ Fails(n, o, w)
  PROVE  Quiet \/ Failed
<1>1. CASE Works(n, o, w) \/ Writes(n, o, w)
  BY <1>1 DEF Works, Writes, Quiet, Honest
<1>2. CASE Fails(n, o, w)
  <2>1. own' = [o EXCEPT !.clean = FALSE] /\ history' = [history EXCEPT !.faults = history.faults + 1]
    BY <1>2 DEF Fails
  <2>2. o \in OwnType(o) /\ history \in HistoryType
    BY DEF Honest, ShapeInv
  <2>3. ~own'.clean
    BY <2>1, <2>2 DEF OwnType
  <2>4. history'.faults = history.faults + 1
    BY <2>1, <2>2 DEF HistoryType
  <2>5. QED
    BY <2>3, <2>4 DEF Failed
<1>3. QED
  BY <1>1, <1>2

LEMMA StepClean ==
  ASSUME ShapeInv, [Next]_vars
  PROVE  Quiet \/ Failed \/ Elsewhere \/ (RemoveArtifacts /\ pc' = "idle")
<1>0. /\ own \in OwnType(own) /\ Honest(own) /\ NewId \in Nat /\ cloud \in CloudType
      /\ history \in HistoryType
  BY ShapeUsed, OwnIsHonest DEF ShapeInv
<1>a. ASSUME NEW n, NEW o, NEW w, Honest(o), Works(n, o, w) \/ Writes(n, o, w) \/ Fails(n, o, w)
      PROVE  Quiet \/ Failed
  BY <1>a, WorksClean
<1>1. CASE ResolveWarehouse \/ FindWarehouse
  <2>1. \A id : Honest([own EXCEPT !.warehouse = id])
    BY <1>0, HonestSets
  <2>2. \E n, w : Works(n, own, w) \/ \E id : Works(n, [own EXCEPT !.warehouse = id], w)
    BY <1>1 DEF ResolveWarehouse, FindWarehouse
  <2>3. QED
    BY <1>0, <1>a, <2>1, <2>2
<1>2. CASE EnsureTable \/ InsertDone
  <2>1. Honest(NextTable)
    <3>1. NextTable = [own EXCEPT !.table = NextTable.table] /\ NextTable.table \in DOMAIN Tables
      BY NextTableShape
    <3>2. QED
      BY <1>0, <3>1, HonestSets
  <2>2. \E n, w : Works(n, NextTable, w) \/ Works(n, own, w)
    BY <1>2 DEF EnsureTable, InsertDone
  <2>3. QED
    BY <1>0, <1>a, <2>1, <2>2
<1>3. CASE \/ EnsureCatalog \/ EnsureSchema \/ SubmitInsert \/ CreateTool \/ DeleteEndpoint
           \/ DeleteExperiment \/ DropSchema \/ DropCatalog \/ DeleteWarehouses
  <2>1. \E n, w : Works(n, own, w) \/ Fails(n, own, w)
    BY <1>3 DEF EnsureCatalog, EnsureSchema, SubmitInsert, CreateTool, DeleteEndpoint,
                DeleteExperiment, DropSchema, DropCatalog, DeleteWarehouses
  <2>2. QED
    BY <1>0, <1>a, <2>1
<1>4. CASE EnsureExperiment
  <2>1. cloud.experiment \in Nat
    BY <1>0 DEF CloudType
  <2>2. \E n, w : Fails(n, own, w) \/ \E id \in Nat : Works(n, [own EXCEPT !.experiment = id], w)
    BY <1>0, <1>4, <2>1 DEF EnsureExperiment
  <2>3. \A id \in Nat : Honest([own EXCEPT !.experiment = id])
    BY <1>0, HonestSets
  <2>4. QED
    BY <1>0, <1>a, <2>2, <2>3
<1>5. ASSUME NEW title \in {"production", "maintenance"}, NEW next, CreateSpace(title, next)
      PROVE  Quiet \/ Failed
  <2> DEFINE o == [own EXCEPT !.fallback = FALSE]
             u == [own EXCEPT !.fallback = TRUE]
  <2>1. Honest(o) /\ Honest(u)
    BY <1>0, HonestSets
  <2>2. \E n, w : Works(n, [o EXCEPT ![title] = NewId], w) \/ Fails(n, u, w)
    BY <1>5 DEF CreateSpace
  <2> HIDE DEF o, u
  <2>3. Honest([o EXCEPT ![title] = NewId])
    <3>1. Honest([o EXCEPT !.production = NewId]) /\ Honest([o EXCEPT !.maintenance = NewId])
      BY <1>0, <2>1, HonestSets
    <3>2. CASE title = "production"
      BY <3>1, <3>2
    <3>3. CASE title = "maintenance"
      BY <3>1, <3>3
    <3>4. QED
      BY <3>2, <3>3
  <2>4. QED
    BY <1>a, <2>1, <2>2, <2>3
<1>6. CASE BuildSupervisor
  <2>1. \E n, w : Fails(n, own, w) \/ Works(n, [own EXCEPT !.agent = NewId], w)
    BY <1>6 DEF BuildSupervisor
  <2>2. Honest([own EXCEPT !.agent = NewId])
    BY <1>0, HonestSets
  <2>3. QED
    BY <1>0, <1>a, <2>1, <2>2
<1>7. CASE WaitReady
  <2>1. own.agent \in Nat /\ own.polls + 1 \in Nat /\ TRUE \in BOOLEAN
    BY <1>0 DEF OwnType
  <2> DEFINE o == [own EXCEPT !.confirmed = TRUE]
  <2>2. Honest(o) /\ Honest([own EXCEPT !.polls = own.polls + 1])
        /\ Honest([own EXCEPT !.target = own.agent])
    BY <1>0, <2>1, HonestSets
  <2>3. o.agent = own.agent
    BY <1>0 DEF OwnType
  <2>4. Target(o) = [o EXCEPT !.target = own.agent] /\ Target(own) = [own EXCEPT !.target = own.agent]
    BY <2>3 DEF Target
  <2>5. \E n, w : \/ Works(n, Target(o), w) \/ Works(n, [own EXCEPT !.polls = own.polls + 1], w)
                  \/ Works(n, Target(own), w)
    BY <1>7 DEF WaitReady
  <2> HIDE DEF o
  <2>6. Honest(Target(o)) /\ Honest(Target(own))
    BY <2>1, <2>2, <2>4, HonestSets
  <2>7. QED
    BY <1>a, <2>2, <2>5, <2>6
<1>8. CASE BuildConfig \/ OpenConfig \/ FillConfig
  <2>1. \/ \E n, w, c : Works(n, [own EXCEPT !.config = c], w) \/ Writes(n, [own EXCEPT !.config = c], w)
        \/ pc' = "idle" /\ outcome' = "rejected" /\ own' = Fresh /\ UNCHANGED history
    BY <1>8 DEF BuildConfig, OpenConfig, FillConfig
  <2>2. \A c : Honest([own EXCEPT !.config = c])
    BY <1>0, HonestSets
  <2>3. QED
    BY <1>a, <2>1, <2>2 DEF Elsewhere
<1>9. CASE WriteQuestions \/ Execute \/ EndpointReady \/ UNCHANGED vars
  <2>1. own' = own /\ history' = history
    BY <1>9 DEF WriteQuestions, Execute, EndpointReady, vars
  <2>2. QED
    BY <2>1 DEF Quiet
<1>10. CASE ListSpaces \/ ListAgents \/ TrashSpace
  <2>1. Ids(Titled) \in SUBSET Nat /\ Ids(Named) \in SUBSET Nat
    BY IdsAreNumbers
  <2>2. own.todo \in SUBSET Nat
    BY <1>0 DEF OwnType
  <2>3. \E n, w : \/ Works(n, own, w) \/ Fails(n, own, w)
                  \/ \E ids \in SUBSET Nat : Works(n, Todo(ids), w) \/ Fails(n, Todo(ids), w)
    BY <1>10, <2>1, <2>2 DEF ListSpaces, ListAgents, TrashSpace
  <2>4. \A ids \in SUBSET Nat : Honest(Todo(ids))
    BY <1>0, HonestSets DEF Todo
  <2>5. QED
    BY <1>0, <1>a, <2>3, <2>4
<1>11. CASE DeleteAgent
  <2>1. own.todo \in SUBSET Nat
    BY <1>0 DEF OwnType
  <2>2. \E n, w : \/ Works(n, own, w)
                  \/ \E ids \in SUBSET Nat, id \in Nat :
                       \/ Works(n, [Todo(ids) EXCEPT !.agent = id], w)
                       \/ Fails(n, [Todo(ids) EXCEPT !.agent = id], w)
    BY <1>11, <2>1 DEF DeleteAgent
  <2>3. \A ids \in SUBSET Nat : Honest(Todo(ids))
    BY <1>0, HonestSets DEF Todo
  <2>4. \A ids \in SUBSET Nat, id \in Nat : Honest([Todo(ids) EXCEPT !.agent = id])
    BY <2>3, HonestSets
  <2>5. QED
    BY <1>0, <1>a, <2>2, <2>4
<1>12. CASE RemoveConfig
  <2>1. \E n, v, w : Writes(n, [own EXCEPT !.output = v], w) \/ Fails(n, [own EXCEPT !.output = v], w)
    BY <1>12 DEF RemoveConfig
  <2>2. \A v : Honest([own EXCEPT !.output = v])
    BY <1>0, HonestSets
  <2>3. QED
    BY <1>a, <2>1, <2>2
<1>13. CASE RemoveArtifacts
  BY <1>13 DEF RemoveArtifacts
<1>14. CASE Start \/ Abort \/ EditConfig \/ UseHarness
  <2>1. /\ own' = Fresh /\ pc' \in {"idle", "warehouse", "list_spaces"}
        /\ outcome' \notin {"provisioned", "torn_down"}
    BY <1>14 DEF Start, Abort, EditConfig, UseHarness
  <2>2. history'.faults \in {history.faults, history.faults + 1}
    <3>1. CASE Abort
      BY <1>0, <3>1 DEF Abort, HistoryType
    <3>2. CASE Start
      BY <1>0, <3>2 DEF Start, HistoryType
    <3>3. CASE EditConfig \/ UseHarness
      BY <3>3 DEF EditConfig, UseHarness
    <3>4. QED
      BY <1>14, <3>1, <3>2, <3>3
  <2>3. QED
    BY <2>1, <2>2 DEF Elsewhere
<1>15. CASE CreateProduction \/ CreateMaintenance
  BY <1>5, <1>15 DEF CreateProduction, CreateMaintenance
<1>16. QED
  BY <1>1, <1>2, <1>3, <1>4, <1>6, <1>7, <1>8, <1>9, <1>10, <1>11, <1>12, <1>13, <1>14, <1>15
  DEF Next, Provision, Teardown

-----------------------------------------------------------------------------
(* Warehouses, catalog, schemas and the experiment change in these steps   *)
(* only.                                                                   *)
Estate == <<cloud.warehouses, cloud.catalog, cloud.schemas, cloud.experiment>>

EstateStep == \/ ResolveWarehouse \/ EnsureCatalog \/ EnsureSchema \/ EnsureExperiment
              \/ DeleteExperiment \/ DropSchema \/ DropCatalog \/ DeleteWarehouses

LEMMA EstateStays ==
  ASSUME ShapeInv, [Next]_vars, ~EstateStep
  PROVE  UNCHANGED Estate
<1> DEFINE Sames(w) == /\ w.warehouses = cloud.warehouses /\ w.catalog = cloud.catalog
                       /\ w.schemas = cloud.schemas /\ w.experiment = cloud.experiment
<1>0. cloud \in CloudType /\ NewId \in Nat
  BY ShapeUsed
<1>a. ASSUME NEW n, NEW o, NEW w, Works(n, o, w) \/ Fails(n, o, w), Sames(w)
      PROVE  UNCHANGED Estate
  BY <1>a DEF Works, Fails, Estate
<1>b. Sames(cloud) /\ \A w, v : Sames(w) /\ w \in CloudType => Sames([w EXCEPT !.endpoints = v])
  BY DEF CloudType
<1>1. ASSUME NEW title \in {"production", "maintenance"}, NEW next, CreateSpace(title, next)
      PROVE  UNCHANGED Estate
  <2> DEFINE x == [id |-> NewId, title |-> title]
             w == With("spaces", x)
  <2>1. \E n, o : Works(n, o, w) \/ Fails(n, o, w) \/ Fails(n, o, cloud)
    BY <1>1 DEF CreateSpace
  <2>2. w = [[cloud EXCEPT !.made = NewId] EXCEPT !.spaces = cloud.spaces \cup {x}]
    BY <1>0, WithShape DEF Space
  <2>3. Sames(w)
    BY <1>0, <2>2 DEF CloudType
  <2> HIDE DEF w, Sames
  <2>4. QED
    BY <1>a, <1>b, <2>1, <2>3
<1>2. CASE BuildSupervisor
  <2> DEFINE new == [id |-> NewId, name |-> "mine", tools |-> {}]
             v   == With("agents", new)
             w   == [v EXCEPT !.endpoints = v.endpoints \cup {[id |-> NewId, state |-> "NOT_READY"]}]
  <2>1. \E n, o : Works(n, o, w) \/ Fails(n, o, w) \/ Fails(n, o, cloud)
    BY <1>2 DEF BuildSupervisor
  <2>2. v = [[cloud EXCEPT !.made = NewId] EXCEPT !.agents = cloud.agents \cup {new}] /\ CloudOk(v)
    BY <1>0, WithShape DEF Agent
  <2>3. Sames(v)
    BY <1>0, <2>2 DEF CloudType
  <2> HIDE DEF v, Sames
  <2>4. Sames(w)
    BY <1>b, <2>2, <2>3 DEF CloudOk
  <2> HIDE DEF w
  <2>5. QED
    BY <1>a, <1>b, <2>1, <2>4
<1>3. CASE CreateTool \/ SubmitInsert \/ EnsureTable \/ InsertDone
  <2>1. \E n, o, a : \/ Works(n, o, [cloud EXCEPT !.agents = a]) \/ Works(n, o, cloud)
                     \/ Works(n, o, [cloud EXCEPT !.inserts = a])
                     \/ Works(n, o, [cloud EXCEPT !.loads = a])
    BY <1>3 DEF CreateTool, SubmitInsert, EnsureTable, InsertDone
  <2>2. \A a : /\ Sames([cloud EXCEPT !.agents = a]) /\ Sames([cloud EXCEPT !.inserts = a])
               /\ Sames([cloud EXCEPT !.loads = a])
    BY <1>0 DEF CloudType
  <2> HIDE DEF Sames
  <2>3. QED
    BY <1>a, <1>b, <2>1, <2>2
<1>4. CASE TrashSpace \/ DeleteEndpoint
  <2>1. \E n, o, items : \/ Works(n, o, cloud) \/ Fails(n, o, cloud)
                         \/ Works(n, o, Without("spaces", items))
                         \/ Works(n, o, Without("endpoints", items))
    BY <1>4 DEF TrashSpace, DeleteEndpoint
  <2>2. \A items : Sames(Without("spaces", items)) /\ Sames(Without("endpoints", items))
    BY <1>0, WithoutShape DEF CloudType
  <2> HIDE DEF Sames
  <2>3. QED
    BY <1>a, <1>b, <2>1, <2>2
<1>5. CASE DeleteAgent
  <2>1. ASSUME NEW items, NEW e, NEW n, NEW o,
               LET gone == Without("agents", items)
               IN Works(n, o, [gone EXCEPT !.endpoints = gone.endpoints \ e])
        PROVE  UNCHANGED Estate
    <3> DEFINE gone == Without("agents", items)
               w    == [gone EXCEPT !.endpoints = gone.endpoints \ e]
    <3>1. gone = [cloud EXCEPT !.agents = cloud.agents \ items] /\ CloudOk(gone)
      BY WithoutShape
    <3>2. Sames(gone)
      BY <1>0, <3>1 DEF CloudType
    <3>3. Works(n, o, w)
      BY <2>1
    <3> HIDE DEF gone, Sames
    <3>4. Sames(w)
      BY <1>b, <3>1, <3>2 DEF CloudOk
    <3> HIDE DEF w
    <3>5. QED
      BY <1>a, <3>3, <3>4
  <2>2. CASE \E n, o : Works(n, o, cloud) \/ Fails(n, o, cloud)
    BY <1>a, <1>b, <2>2
  <2>3. QED
    BY <1>5, <2>1, <2>2 DEF DeleteAgent
<1>6. CASE ListSpaces \/ ListAgents \/ FindWarehouse \/ WaitReady
  <2>1. \E n, o : Works(n, o, cloud) \/ Fails(n, o, cloud)
    BY <1>6 DEF ListSpaces, ListAgents, FindWarehouse, WaitReady
  <2>2. QED
    BY <1>a, <1>b, <2>1
<1>7. CASE BuildConfig \/ OpenConfig \/ FillConfig \/ WriteQuestions
  BY <1>7, LateStepsDo DEF Estate
<1>8. CASE RemoveConfig \/ RemoveArtifacts \/ Start \/ EditConfig \/ UseHarness \/ UNCHANGED vars
  <2>1. cloud' = cloud
    BY <1>8 DEF RemoveConfig, Writes, Fails, RemoveArtifacts, Start, EditConfig, UseHarness, vars
  <2>2. QED
    BY <2>1 DEF Estate
<1>9. CASE Abort \/ Execute \/ EndpointReady
  <2>1. \E i, l : cloud' \in {cloud, [cloud EXCEPT !.inserts = i], [cloud EXCEPT !.endpoints = i],
                              [[cloud EXCEPT !.inserts = i] EXCEPT !.loads = l]}
    BY <1>0, <1>9 DEF Abort, Execute, EndpointReady, CloudType
  <2>2. QED
    BY <1>0, <2>1 DEF CloudType, Estate
<1>10. CASE CreateProduction \/ CreateMaintenance
  BY <1>1, <1>10 DEF CreateProduction, CreateMaintenance
<1>11. QED
  BY <1>2, <1>3, <1>4, <1>5, <1>6, <1>7, <1>8, <1>9, <1>10
  DEF EstateStep, Next, Provision, Teardown

LEMMA FailsIs ==
  ASSUME ShapeInv, NEW n, NEW o, NEW w, Honest(o), Fails(n, o, w)
  PROVE  /\ Failed /\ pc' = n /\ cloud' = w /\ own'.warehouse = o.warehouse
         /\ own'.todo = o.todo /\ own'.agent = o.agent
         /\ UNCHANGED <<settings, disk, outcome, history.found>>
<1>1. /\ own' = [o EXCEPT !.clean = FALSE] /\ history' = [history EXCEPT !.faults = history.faults + 1]
      /\ pc' = n /\ cloud' = w /\ UNCHANGED <<settings, disk, outcome>>
  BY DEF Fails
<1>2. o \in OwnType(o) /\ history \in HistoryType
  BY DEF Honest, ShapeInv
<1>3. ~own'.clean /\ own'.warehouse = o.warehouse /\ own'.todo = o.todo /\ own'.agent = o.agent
  BY <1>1, <1>2 DEF OwnType
<1>4. history'.faults = history.faults + 1 /\ history'.found = history.found
  BY <1>1, <1>2 DEF HistoryType
<1>5. QED
  BY <1>1, <1>3, <1>4 DEF Failed

LEMMA MakingDoes ==
  ASSUME ShapeInv, ResolveWarehouse \/ EnsureCatalog \/ EnsureSchema \/ EnsureExperiment
  PROVE  /\ UNCHANGED <<settings, disk, outcome, history.found>>
         /\ \/ /\ pc = "warehouse" /\ pc' = "catalog"
               /\ UNCHANGED <<cloud.catalog, cloud.schemas, cloud.experiment>>
               /\ settings.reuse # None \/ cloud'.warehouses # {}
               /\ \/ UNCHANGED cloud.warehouses
                  \/ /\ settings.reuse = None
                     /\ \E w : w.managed /\ cloud'.warehouses = cloud.warehouses \cup {w}
            \/ pc = "catalog" /\ pc' = "schema" /\ UNCHANGED <<cloud.warehouses, cloud.experiment>>
            \/ pc = "schema" /\ pc' = "table" /\ UNCHANGED <<cloud.warehouses, cloud.experiment>>
            \/ /\ pc = "experiment" /\ pc' = "production"
               /\ UNCHANGED <<cloud.warehouses, cloud.catalog, cloud.schemas>>
<1>0. cloud \in CloudType /\ NewId \in Nat /\ Honest(own) /\ history \in HistoryType
  BY ShapeUsed, OwnIsHonest DEF ShapeInv
<1>1. CASE ResolveWarehouse
  <2> DEFINE new == [id |-> NewId, serverless |-> TRUE, managed |-> TRUE]
             w == With("warehouses", new)
  <2>1. /\ pc = "warehouse" /\ pc' = "catalog" /\ UNCHANGED <<settings, disk, outcome, history>>
        /\ \/ settings.reuse # None /\ cloud' = cloud
           \/ Serverless # {} /\ cloud' = cloud
           \/ settings.reuse = None /\ cloud' = w
    BY <1>1 DEF ResolveWarehouse, Works
  <2>2. w = [[cloud EXCEPT !.made = NewId] EXCEPT !.warehouses = cloud.warehouses \cup {new}]
    BY <1>0, WithShape DEF Warehouse
  <2>3. /\ w.warehouses = cloud.warehouses \cup {new} /\ w.catalog = cloud.catalog
        /\ w.schemas = cloud.schemas /\ w.experiment = cloud.experiment
    BY <1>0, <2>2 DEF CloudType
  <2>4. Serverless # {} => cloud.warehouses # {}
    BY DEF Serverless
  <2>5. new.managed
    OBVIOUS
  <2> HIDE DEF w, new
  <2>6. QED
    BY <2>1, <2>3, <2>4, <2>5
<1>2. CASE EnsureCatalog
  <2>1. pc = "catalog" /\ pc' = "schema" /\ UNCHANGED <<settings, disk, outcome, history>>
        /\ \E c : cloud' = [cloud EXCEPT !.catalog = c]
    BY <1>2 DEF EnsureCatalog, Works
  <2>2. QED
    BY <1>0, <2>1 DEF CloudType
<1>3. CASE EnsureSchema
  <2>1. pc = "schema" /\ pc' = "table" /\ UNCHANGED <<settings, disk, outcome, history>>
        /\ \E c : cloud' = [cloud EXCEPT !.schemas = c]
    BY <1>3 DEF EnsureSchema, Works
  <2>2. QED
    BY <1>0, <2>1 DEF CloudType
<1>4. CASE EnsureExperiment
  <2>1. \/ Fails("production", own, cloud)
        \/ /\ pc' = "production" /\ UNCHANGED <<settings, disk, outcome, history>>
           /\ \E id, m : cloud' = [[cloud EXCEPT !.experiment = id] EXCEPT !.made = m]
    BY <1>0, <1>4 DEF EnsureExperiment, Works, CloudType
  <2>2. pc' = "production" /\ UNCHANGED <<settings, disk, outcome, history.found>>
        /\ \E id, m : cloud' \in {cloud, [[cloud EXCEPT !.experiment = id] EXCEPT !.made = m]}
    BY <1>0, <2>1, FailsIs
  <2>3. pc = "experiment"
    BY <1>4 DEF EnsureExperiment
  <2>4. UNCHANGED <<cloud.warehouses, cloud.catalog, cloud.schemas>>
    BY <1>0, <2>2 DEF CloudType
  <2>5. QED
    BY <2>2, <2>3, <2>4
<1>5. QED
  BY <1>1, <1>2, <1>3, <1>4

LEMMA DroppingDoes ==
  ASSUME ShapeInv, DeleteExperiment \/ DropSchema \/ DropCatalog \/ DeleteWarehouses
  PROVE  /\ UNCHANGED <<settings, disk, outcome, history.found, own.warehouse>>
         /\ \/ /\ pc = "delete_experiment" /\ pc' = "find_warehouse"
               /\ UNCHANGED <<cloud.warehouses, cloud.catalog, cloud.schemas>>
               /\ Failed \/ cloud'.experiment = None
            \/ /\ pc = "drop_schema" /\ UNCHANGED <<cloud.warehouses, cloud.catalog, cloud.experiment>>
               /\ \/ Failed /\ pc' = "delete_warehouses"
                  \/ pc' = "drop_catalog" /\ "demo" \notin cloud'.schemas
            \/ /\ pc = "drop_catalog" /\ pc' = "delete_warehouses"
               /\ UNCHANGED <<cloud.warehouses, cloud.experiment>>
               /\ Failed \/ /\ cloud'.schemas \subseteq cloud.schemas
                            /\ settings.create => ~cloud'.catalog
            \/ /\ pc = "delete_warehouses"
               /\ UNCHANGED <<cloud.catalog, cloud.schemas, cloud.experiment>>
               /\ \/ /\ pc' = "delete_warehouses"
                     /\ \E w \in Managed : cloud'.warehouses = cloud.warehouses \ {w}
                  \/ /\ pc' = "remove_config" /\ UNCHANGED cloud.warehouses
                     /\ Failed \/ settings.reuse # None \/ Managed = {}
<1>0. cloud \in CloudType /\ Honest(own) /\ history \in HistoryType
  BY ShapeUsed, OwnIsHonest DEF ShapeInv
<1>f. ASSUME NEW n, Fails(n, own, cloud)
      PROVE  /\ Failed /\ pc' = n /\ cloud' = cloud
             /\ UNCHANGED <<settings, disk, outcome, history.found, own.warehouse>>
  BY <1>0, <1>f, FailsIs
<1>w. ASSUME NEW n, NEW w, Works(n, own, w)
      PROVE  /\ pc' = n /\ cloud' = w
             /\ UNCHANGED <<settings, disk, outcome, history.found, own.warehouse>>
  BY <1>w DEF Works
<1>1. CASE DeleteExperiment
  <2> DEFINE w == [cloud EXCEPT !.experiment = None]
  <2>1. pc = "delete_experiment" /\ \/ Works("find_warehouse", own, w)
                                    \/ Fails("find_warehouse", own, cloud)
    BY <1>1 DEF DeleteExperiment
  <2>2. /\ w.experiment = None /\ w.warehouses = cloud.warehouses
        /\ w.catalog = cloud.catalog /\ w.schemas = cloud.schemas
    BY <1>0 DEF CloudType
  <2> HIDE DEF w
  <2>3. QED
    BY <1>f, <1>w, <2>1, <2>2
<1>2. CASE DropSchema
  <2> DEFINE w == [[cloud EXCEPT !.schemas = cloud.schemas \ {"demo"}] EXCEPT !.loads = NoTables]
  <2>1. pc = "drop_schema" /\ \/ Works("drop_catalog", own, w)
                              \/ Fails("delete_warehouses", own, cloud)
    BY <1>2 DEF DropSchema
  <2>2. /\ "demo" \notin w.schemas /\ w.warehouses = cloud.warehouses
        /\ w.catalog = cloud.catalog /\ w.experiment = cloud.experiment
    BY <1>0 DEF CloudType
  <2> HIDE DEF w
  <2>3. QED
    BY <1>f, <1>w, <2>1, <2>2
<1>3. CASE DropCatalog
  <2> DEFINE w == [[cloud EXCEPT !.catalog = FALSE] EXCEPT !.schemas = {}]
  <2>1. /\ pc = "drop_catalog"
        /\ \/ Works("delete_warehouses", own, w)
           \/ Fails("delete_warehouses", own, cloud)
           \/ ~settings.create /\ Works("delete_warehouses", own, cloud)
    BY <1>3 DEF DropCatalog
  <2>2. /\ ~w.catalog /\ w.schemas \subseteq cloud.schemas
        /\ w.warehouses = cloud.warehouses /\ w.experiment = cloud.experiment
    BY <1>0 DEF CloudType
  <2> HIDE DEF w
  <2>3. QED
    BY <1>f, <1>w, <2>1, <2>2
<1>4. CASE DeleteWarehouses
  <2>1. /\ pc = "delete_warehouses"
        /\ \/ \E w \in Managed : Works("delete_warehouses", own, Without("warehouses", {w}))
           \/ Fails("remove_config", own, cloud)
           \/ (settings.reuse # None \/ Managed = {}) /\ Works("remove_config", own, cloud)
    BY <1>4 DEF DeleteWarehouses
  <2>2. ASSUME NEW items
        PROVE  LET w == Without("warehouses", items)
               IN /\ w.warehouses = cloud.warehouses \ items /\ w.catalog = cloud.catalog
                  /\ w.schemas = cloud.schemas /\ w.experiment = cloud.experiment
    BY <1>0, WithoutShape DEF CloudType
  <2>3. CASE \E w \in Managed : Works("delete_warehouses", own, Without("warehouses", {w}))
    <3>1. PICK x \in Managed : Works("delete_warehouses", own, Without("warehouses", {x}))
      BY <2>3
    <3>2. /\ pc' = "delete_warehouses" /\ cloud' = Without("warehouses", {x})
          /\ UNCHANGED <<settings, disk, outcome, history.found, own.warehouse>>
      BY <1>w, <3>1
    <3>3. QED
      BY <2>1, <2>2, <3>2
  <2>4. CASE Fails("remove_config", own, cloud)
    BY <1>f, <2>1, <2>4
  <2>5. CASE (settings.reuse # None \/ Managed = {}) /\ Works("remove_config", own, cloud)
    BY <1>w, <2>1, <2>5
  <2>6. QED
    BY <2>1, <2>3, <2>4, <2>5
<1>5. QED
  BY <1>1, <1>2, <1>3, <1>4

LEMMA ClearingDoes ==
  ASSUME ShapeInv, ListSpaces \/ TrashSpace \/ ListAgents \/ DeleteAgent \/ DeleteEndpoint
  PROVE  /\ UNCHANGED <<settings, disk, outcome, history.found, own.warehouse>>
         /\ \/ /\ pc = "list_spaces" /\ UNCHANGED Objects
               /\ \/ pc' = "trash" /\ own'.todo = Ids(Titled)
                  \/ Failed /\ pc' = AfterSpaces
            \/ /\ pc = "trash" /\ UNCHANGED <<cloud.agents, cloud.endpoints>>
               /\ \/ pc' = AfterSpaces /\ UNCHANGED cloud.spaces /\ (Failed \/ own.todo = {})
                  \/ /\ pc' = "trash"
                     /\ \E id \in own.todo :
                          /\ own'.todo = own.todo \ {id}
                          /\ cloud'.spaces = cloud.spaces \ {s \in cloud.spaces : s.id = id}
            \/ /\ pc = "list_agents" /\ UNCHANGED Objects
               /\ \/ pc' = "delete_agents" /\ own'.todo = Ids(Named)
                  \/ Failed /\ pc' = "delete_experiment"
            \/ /\ pc = "delete_agents" /\ UNCHANGED cloud.spaces
               /\ \/ pc' = "delete_experiment" /\ own.todo = {} /\ UNCHANGED Objects
                  \/ Failed /\ pc' = "delete_agents" /\ UNCHANGED Objects
                  \/ /\ pc' = "delete_endpoint"
                     /\ \E id \in own.todo :
                          /\ own'.todo = own.todo \ {id} /\ own'.agent = id
                          /\ cloud'.agents = cloud.agents \ {a \in cloud.agents : a.id = id}
                          /\ cloud'.endpoints \subseteq cloud.endpoints
            \/ /\ pc = "delete_endpoint" /\ pc' = "delete_agents"
               /\ UNCHANGED <<cloud.spaces, cloud.agents, own.todo>>
               /\ \/ Failed /\ UNCHANGED cloud.endpoints
                  \/ cloud'.endpoints = cloud.endpoints \ Endpoints(own.agent)
<1>0. /\ cloud \in CloudType /\ own \in OwnType(own) /\ Honest(own)
      /\ own.todo \in SUBSET Nat
  BY ShapeUsed, OwnIsHonest, IdsAreNumbers
<1>a. ASSUME NEW n, NEW o, NEW w, Works(n, o, w)
      PROVE  /\ pc' = n /\ own' = o /\ cloud' = w
             /\ UNCHANGED <<settings, disk, outcome, history>>
  BY <1>a DEF Works
<1>b. ASSUME NEW ids \in SUBSET Nat
      PROVE  /\ Honest(Todo(ids)) /\ Todo(ids).todo = ids /\ Todo(ids).warehouse = own.warehouse
             /\ \A id \in Nat :
                  LET o == [Todo(ids) EXCEPT !.agent = id]
                  IN Honest(o) /\ o.todo = ids /\ o.agent = id /\ o.warehouse = own.warehouse
  <2> DEFINE t == Todo(ids)
  <2>1. t = [own EXCEPT !.todo = ids]
    BY DEF Todo
  <2>2. Honest(t)
    BY <1>0, <2>1, HonestSets
  <2>3. t.todo = ids /\ t.warehouse = own.warehouse
    BY <1>0, <2>1 DEF OwnType
  <2> HIDE DEF t
  <2>4. ASSUME NEW id \in Nat
        PROVE  LET o == [t EXCEPT !.agent = id]
               IN Honest(o) /\ o.todo = ids /\ o.agent = id /\ o.warehouse = own.warehouse
    <3> DEFINE o == [t EXCEPT !.agent = id]
    <3>1. Honest(o)
      BY <2>2, HonestSets
    <3>2. o.todo = ids /\ o.agent = id /\ o.warehouse = own.warehouse
      BY <2>2, <2>3 DEF Honest, OwnType
    <3>3. QED
      BY <3>1, <3>2
  <2>5. QED
    BY <2>2, <2>3, <2>4 DEF t
<1>1. CASE ListSpaces
  <2>1. pc = "list_spaces" /\ \/ Works("trash", Todo(Ids(Titled)), cloud)
                              \/ Fails(AfterSpaces, own, cloud)
    BY <1>1 DEF ListSpaces
  <2>2. CASE Works("trash", Todo(Ids(Titled)), cloud)
    BY <1>a, <1>b, <2>1, <2>2, IdsAreNumbers DEF Objects
  <2>3. CASE Fails(AfterSpaces, own, cloud)
    BY <1>0, <2>1, <2>3, FailsIs DEF Objects
  <2>4. QED
    BY <2>1, <2>2, <2>3
<1>2. CASE TrashSpace
  <2>1. pc = "trash"
    BY <1>2 DEF TrashSpace
  <2>2. CASE own.todo = {} /\ Works(AfterSpaces, own, cloud)
    BY <1>a, <2>1, <2>2
  <2>3. ASSUME NEW id \in own.todo,
               Works("trash", Todo(own.todo \ {id}),
                     Without("spaces", {s \in cloud.spaces : s.id = id}))
        PROVE  /\ UNCHANGED <<settings, disk, outcome, history.found, own.warehouse>>
               /\ UNCHANGED <<cloud.agents, cloud.endpoints>> /\ pc' = "trash"
               /\ own'.todo = own.todo \ {id}
               /\ cloud'.spaces = cloud.spaces \ {s \in cloud.spaces : s.id = id}
    <3>1. cloud' = [cloud EXCEPT !.spaces = cloud.spaces \ {s \in cloud.spaces : s.id = id}]
      BY <1>a, <2>3, WithoutShape
    <3>2. /\ cloud'.spaces = cloud.spaces \ {s \in cloud.spaces : s.id = id}
          /\ UNCHANGED <<cloud.agents, cloud.endpoints>>
      BY <1>0, <3>1 DEF CloudType
    <3>3. own.todo \ {id} \in SUBSET Nat
      BY <1>0
    <3>4. /\ own' = Todo(own.todo \ {id}) /\ pc' = "trash"
          /\ UNCHANGED <<settings, disk, outcome, history>>
      BY <1>a, <2>3
    <3>5. own'.todo = own.todo \ {id} /\ UNCHANGED own.warehouse
      BY <1>b, <3>3, <3>4
    <3>6. QED
      BY <3>2, <3>4, <3>5
  <2>4. CASE Fails(AfterSpaces, Todo({}), cloud)
    <3>1. {} \in SUBSET Nat
      OBVIOUS
    <3>2. Honest(Todo({})) /\ Todo({}).warehouse = own.warehouse
      BY <1>b, <3>1
    <3>3. /\ UNCHANGED <<settings, disk, outcome, history.found, own.warehouse>>
          /\ cloud' = cloud /\ Failed /\ pc' = AfterSpaces
      BY <2>4, <3>2, FailsIs
    <3>4. QED
      BY <2>1, <3>3
  <2>5. QED
    BY <1>2, <2>1, <2>2, <2>3, <2>4 DEF TrashSpace
<1>3. CASE ListAgents
  <2>1. pc = "list_agents" /\ \/ Works("delete_agents", Todo(Ids(Named)), cloud)
                              \/ Fails("delete_experiment", own, cloud)
    BY <1>3 DEF ListAgents
  <2>2. CASE Works("delete_agents", Todo(Ids(Named)), cloud)
    BY <1>a, <1>b, <2>1, <2>2, IdsAreNumbers DEF Objects
  <2>3. CASE Fails("delete_experiment", own, cloud)
    BY <1>0, <2>1, <2>3, FailsIs DEF Objects
  <2>4. QED
    BY <2>1, <2>2, <2>3
<1>4. CASE DeleteAgent
  <2>1. pc = "delete_agents"
    BY <1>4 DEF DeleteAgent
  <2>2. CASE own.todo = {} /\ Works("delete_experiment", own, cloud)
    BY <1>a, <2>1, <2>2 DEF Objects
  <2>3. ASSUME NEW id \in own.todo, NEW e \in {{}, Endpoints(id)},
               LET gone == Without("agents", {a \in cloud.agents : a.id = id})
                   next == [Todo(own.todo \ {id}) EXCEPT !.agent = id]
               IN Works("delete_endpoint", next, [gone EXCEPT !.endpoints = gone.endpoints \ e])
        PROVE  /\ UNCHANGED <<settings, disk, outcome, history.found, own.warehouse, cloud.spaces>>
               /\ pc' = "delete_endpoint" /\ own'.todo = own.todo \ {id} /\ own'.agent = id
               /\ cloud'.agents = cloud.agents \ {a \in cloud.agents : a.id = id}
               /\ cloud'.endpoints \subseteq cloud.endpoints
    <3> DEFINE gone == Without("agents", {a \in cloud.agents : a.id = id})
               o    == [Todo(own.todo \ {id}) EXCEPT !.agent = id]
    <3>1. gone = [cloud EXCEPT !.agents = cloud.agents \ {a \in cloud.agents : a.id = id}]
          /\ CloudOk(gone)
      BY WithoutShape
    <3>2. /\ gone.spaces = cloud.spaces /\ gone.endpoints = cloud.endpoints
          /\ gone.agents = cloud.agents \ {a \in cloud.agents : a.id = id}
      BY <1>0, <3>1 DEF CloudType
    <3>3. own.todo \ {id} \in SUBSET Nat /\ id \in Nat
      BY <1>0
    <3>4. o.todo = own.todo \ {id} /\ o.agent = id /\ o.warehouse = own.warehouse
      BY <1>b, <3>3
    <3> HIDE DEF gone, o
    <3>5. /\ cloud' = [gone EXCEPT !.endpoints = gone.endpoints \ e] /\ own' = o
          /\ pc' = "delete_endpoint" /\ UNCHANGED <<settings, disk, outcome, history>>
      BY <1>a, <2>3 DEF gone, o
    <3>6. /\ cloud'.spaces = gone.spaces /\ cloud'.agents = gone.agents
          /\ cloud'.endpoints = gone.endpoints \ e
      BY <3>1, <3>5 DEF CloudOk, CloudType
    <3>7. QED
      BY <3>2, <3>4, <3>5, <3>6
  <2>4. ASSUME NEW id \in own.todo,
               Fails("delete_agents", [Todo(own.todo \ {id}) EXCEPT !.agent = id], cloud)
        PROVE  /\ UNCHANGED <<settings, disk, outcome, history.found, own.warehouse, cloud>>
               /\ Failed /\ pc' = "delete_agents"
    <3> DEFINE o == [Todo(own.todo \ {id}) EXCEPT !.agent = id]
    <3>1. own.todo \ {id} \in SUBSET Nat /\ id \in Nat
      BY <1>0
    <3>2. Honest(o) /\ o.warehouse = own.warehouse
      BY <1>b, <3>1
    <3> HIDE DEF o
    <3>3. Fails("delete_agents", o, cloud)
      BY <2>4 DEF o
    <3>4. QED
      BY <3>2, <3>3, FailsIs
  <2>5. QED
    BY <1>4, <2>1, <2>2, <2>3, <2>4 DEF DeleteAgent, Objects
<1>5. CASE DeleteEndpoint
  <2>1. /\ pc = "delete_endpoint"
        /\ \/ Works("delete_agents", own, Without("endpoints", Endpoints(own.agent)))
           \/ Fails("delete_agents", own, cloud)
    BY <1>5 DEF DeleteEndpoint
  <2>2. CASE Works("delete_agents", own, Without("endpoints", Endpoints(own.agent)))
    <3>1. cloud' = [cloud EXCEPT !.endpoints = cloud.endpoints \ Endpoints(own.agent)]
      BY <1>a, <2>2, WithoutShape
    <3>2. UNCHANGED <<cloud.spaces, cloud.agents>>
          /\ cloud'.endpoints = cloud.endpoints \ Endpoints(own.agent)
      BY <1>0, <3>1 DEF CloudType
    <3>3. QED
      BY <1>a, <2>1, <2>2, <3>2
  <2>3. CASE Fails("delete_agents", own, cloud)
    BY <1>0, <2>1, <2>3, FailsIs
  <2>4. QED
    BY <2>1, <2>2, <2>3
<1>6. QED
  BY <1>1, <1>2, <1>3, <1>4, <1>5

LEMMA ClosingDoes ==
  ASSUME ShapeInv, FindWarehouse \/ RemoveConfig \/ RemoveArtifacts
  PROVE  /\ UNCHANGED <<settings, cloud, history.found>>
         /\ \/ /\ pc = "find_warehouse" /\ UNCHANGED <<disk, outcome>>
               /\ \/ pc' = "drop_schema"
                  \/ /\ pc' = "delete_warehouses" /\ UNCHANGED own.warehouse
                     /\ settings.reuse = None /\ cloud.warehouses = {}
            \/ /\ pc = "remove_config" /\ pc' = "remove_rest" /\ UNCHANGED <<outcome, own.warehouse>>
               /\ Failed \/ disk'.state = "absent"
            \/ /\ pc = "remove_rest" /\ pc' = "idle" /\ outcome' = "torn_down"
               /\ UNCHANGED <<disk.state, own.warehouse>>
               /\ \/ Failed
                  \/ /\ Quiet
                     /\ disk'.artifacts \cap {"questions", "mlruns", own'.output} = {}
<1>0. /\ own \in OwnType(own) /\ Honest(own) /\ DOMAIN disk = {"state", "config", "artifacts"}
      /\ disk = [disk EXCEPT !.state = disk.state] /\ history \in HistoryType
  BY ShapeUsed, OwnIsHonest DEF ShapeInv
<1>1. CASE FindWarehouse
  <2>1. /\ pc = "find_warehouse" /\ UNCHANGED <<settings, cloud, disk, outcome, history>>
        /\ \/ pc' = "drop_schema"
           \/ /\ pc' = "delete_warehouses" /\ own' = own
              /\ settings.reuse = None
              /\ (IF Serverless # {} THEN Serverless ELSE cloud.warehouses) = {}
    BY <1>1 DEF FindWarehouse, Works
  <2>2. QED
    BY <2>1
<1>2. CASE RemoveConfig
  <2> DEFINE o == [own EXCEPT !.output = Get(disk.config, "output_dir", "outputs")]
             files == [[disk EXCEPT !.state = "absent"] EXCEPT !.config = Empty]
  <2>1. /\ pc = "remove_config"
        /\ Writes("remove_rest", o, files) \/ Fails("remove_rest", o, cloud)
    BY <1>2 DEF RemoveConfig
  <2>2. Honest(o)
    BY <1>0, HonestSets
  <2>3. o.warehouse = own.warehouse
    BY <1>0 DEF OwnType
  <2>4. files.state = "absent"
    BY <1>0
  <2> HIDE DEF o, files
  <2>5. CASE Writes("remove_rest", o, files)
    BY <2>1, <2>3, <2>4, <2>5 DEF Writes
  <2>6. CASE Fails("remove_rest", o, cloud)
    BY <2>1, <2>2, <2>3, <2>6, FailsIs
  <2>7. QED
    BY <2>1, <2>5, <2>6
<1>3. CASE RemoveArtifacts
  <2>1. /\ pc = "remove_rest" /\ pc' = "idle" /\ outcome' = "torn_down"
        /\ UNCHANGED <<settings, cloud>>
    BY <1>3 DEF RemoveArtifacts
  <2>2. CASE /\ disk' = [disk EXCEPT !.artifacts = disk.artifacts \ {"questions", own.output, "mlruns"}]
             /\ UNCHANGED <<own, history>>
    <3>1. /\ disk'.artifacts = disk.artifacts \ {"questions", own.output, "mlruns"}
          /\ UNCHANGED disk.state
      BY <1>0, <2>2
    <3>2. QED
      BY <2>1, <2>2, <3>1 DEF Quiet
  <2>3. CASE /\ \E items : disk' = [disk EXCEPT !.artifacts = disk.artifacts \ items]
             /\ own' = [own EXCEPT !.clean = FALSE]
             /\ history' = [history EXCEPT !.faults = history.faults + 1]
    <3>1. ~own'.clean /\ UNCHANGED own.warehouse
      BY <1>0, <2>3 DEF OwnType
    <3>2. history'.faults = history.faults + 1 /\ history'.found = history.found
      BY <1>0, <2>3 DEF HistoryType
    <3>3. UNCHANGED disk.state
      BY <1>0, <2>3
    <3>4. QED
      BY <2>1, <3>1, <3>2, <3>3 DEF Failed
  <2>4. QED
    BY <1>3, <2>2, <2>3 DEF RemoveArtifacts
<1>4. QED
  BY <1>1, <1>2, <1>3

(* No command has ended while one runs, and only one with a supervisor to  *)
(* build gets to build it.                                                 *)
LEMMA OutcomeStep ==
  ASSUME ShapeInv, outcome # "none" => pc = "idle", [Next]_vars
  PROVE  outcome' # "none" => pc' = "idle"
<1>1. CASE \/ ResolveWarehouse \/ EnsureCatalog \/ EnsureSchema \/ EnsureTable
           \/ SubmitInsert \/ InsertDone \/ EnsureExperiment
  BY <1>1, EarlyStepsDo DEF BeforeSpaces
<1>2. CASE \/ CreateProduction \/ CreateMaintenance \/ BuildSupervisor \/ CreateTool \/ TrashSpace
           \/ DeleteAgent \/ DeleteEndpoint \/ ListSpaces \/ ListAgents
  <2>1. pc # "idle" /\ UNCHANGED outcome
    BY <1>2, CreateSpaceDoes, BuildSupervisorDoes, CreateToolDoes, TrashSpaceDoes, DeleteAgentDoes,
       DeleteEndpointDoes, ListStepsDo DEF CreateProduction, CreateMaintenance
  <2>2. QED
    BY <2>1
<1>3. CASE \/ DeleteExperiment \/ FindWarehouse \/ DropSchema \/ DropCatalog
           \/ DeleteWarehouses \/ RemoveConfig \/ RemoveArtifacts
  BY <1>3, RemovalStepsDo DEF AfterObjects
<1>4. CASE WaitReady \/ BuildConfig \/ OpenConfig \/ FillConfig \/ WriteQuestions
  BY <1>4, LateStepsDo
<1>5. CASE Start \/ Abort \/ EditConfig \/ UseHarness
  BY <1>5 DEF Start, Abort, EditConfig, UseHarness
<1>6. CASE Execute \/ EndpointReady \/ UNCHANGED vars
  BY <1>6 DEF Execute, EndpointReady, vars
<1>7. QED
  BY <1>1, <1>2, <1>3, <1>4, <1>5, <1>6 DEF Next, Provision, Teardown

-----------------------------------------------------------------------------
(* A bootstrap that builds no supervisor has no agent.                     *)
LEMMA BuilderStep ==
  ASSUME ShapeInv, EverInv, [Next]_vars
  PROVE  /\ pc' = "agent" => settings'.build
         /\ ~settings'.build => Named' = {}
<1>0. UNCHANGED settings
  BY OthersStay
<1>a. (pc = "agent" => settings.build) /\ (~settings.build => Named = {})
  BY DEF EverInv
<1>1. CASE \/ ResolveWarehouse \/ EnsureCatalog \/ EnsureSchema \/ EnsureTable
           \/ SubmitInsert \/ InsertDone \/ EnsureExperiment
  <2>1. pc' \in BeforeSpaces \cup {"production"} /\ UNCHANGED cloud.agents
    BY <1>1, EarlyStepsDo DEF Objects
  <2>2. Named' = Named /\ pc' # "agent"
    BY <2>1 DEF Named, BeforeSpaces
  <2>3. QED
    BY <1>0, <1>a, <2>2
<1>2. CASE CreateProduction \/ CreateMaintenance
  <2>1. UNCHANGED cloud.agents
    BY <1>2, CreateSpaceDoes DEF CreateProduction, CreateMaintenance
  <2>2. Named' = Named
    BY <2>1 DEF Named
  <2>3. pc' = "agent" => settings.build
    <3>1. CASE CreateProduction
      BY <3>1, CreateSpaceDoes DEF CreateProduction
    <3>2. CASE CreateMaintenance
      BY <3>2, CreateSpaceDoes DEF CreateMaintenance
    <3>3. QED
      BY <1>2, <3>1, <3>2
  <2>4. QED
    BY <1>0, <1>a, <2>2, <2>3
<1>3. CASE BuildSupervisor
  <2>1. pc = "agent"
    BY <1>3, BuildSupervisorDoes
  <2>2. QED
    BY <1>0, <1>a, <2>1
<1>4. CASE CreateTool
  <2>1. PICK agent \in cloud.agents, space \in {own.production, own.maintenance} :
          /\ agent \in Agent /\ pc' \in {"tools", "ready"}
          /\ cloud'.agents = (cloud.agents \ {agent})
                             \cup {[agent EXCEPT !.tools = agent.tools \cup {space}]}
    BY <1>4, CreateToolDoes
  <2> DEFINE new == [agent EXCEPT !.tools = agent.tools \cup {space}]
  <2>2. new.name = agent.name /\ cloud'.agents = (cloud.agents \ {agent}) \cup {new}
    BY <2>1 DEF Agent
  <2> HIDE DEF new
  <2>3. Named = {} => Named' = {}
    BY <2>2 DEF Named
  <2>4. QED
    BY <1>0, <1>a, <2>1, <2>3
<1>5. CASE ListSpaces \/ TrashSpace \/ ListAgents \/ DeleteAgent \/ DeleteEndpoint
  <2>1. cloud'.agents \subseteq cloud.agents /\ pc' # "agent"
    BY <1>5, ClearingDoes DEF AfterSpaces, Objects
  <2>2. Named' \subseteq Named
    BY <2>1 DEF Named
  <2>3. QED
    BY <1>0, <1>a, <2>1, <2>2
<1>6. CASE \/ DeleteExperiment \/ FindWarehouse \/ DropSchema \/ DropCatalog
           \/ DeleteWarehouses \/ RemoveConfig \/ RemoveArtifacts
  <2>1. UNCHANGED cloud.agents /\ pc' \in AfterObjects \cup {"idle"}
    BY <1>6, RemovalStepsDo DEF Objects
  <2>2. Named' = Named /\ pc' # "agent"
    BY <2>1 DEF Named, AfterObjects
  <2>3. QED
    BY <1>0, <1>a, <2>2
<1>7. CASE WaitReady \/ BuildConfig \/ OpenConfig \/ FillConfig \/ WriteQuestions
  <2>1. cloud' = cloud /\ pc' # "agent"
    BY <1>7, LateStepsDo
  <2>2. Named' = Named
    BY <2>1 DEF Named
  <2>3. QED
    BY <1>0, <1>a, <2>1, <2>2
<1>8. CASE Start \/ Abort \/ EditConfig \/ UseHarness \/ Execute \/ UNCHANGED vars
  <2>1. UNCHANGED cloud.agents /\ (pc' = pc \/ pc' \in {"idle", "warehouse", "list_spaces"})
    BY <1>8, OtherStepsDo DEF Objects
  <2>2. Named' = Named
    BY <2>1 DEF Named
  <2>3. QED
    BY <1>0, <1>a, <2>1, <2>2
<1>9. CASE EndpointReady
  <2>1. UNCHANGED <<cloud.agents, pc>>
    BY <1>9, EndpointReadyDoes
  <2>2. Named' = Named
    BY <2>1 DEF Named
  <2>3. QED
    BY <1>0, <1>a, <2>1, <2>2
<1>10. QED
  BY <1>1, <1>2, <1>3, <1>4, <1>5, <1>6, <1>7, <1>8, <1>9 DEF Next, Provision, Teardown

LEMMA WarehousesStep ==
  ASSUME ShapeInv, OthersInv, EverInv, [Next]_vars
  PROVE  /\ cloud'.warehouses = history'.found \cup Managed'
         /\ settings'.reuse # None => Managed' = {}
<1>0. UNCHANGED <<settings, history.found>> /\ history.found \subseteq cloud.warehouses
  BY OthersStay DEF EverInv
<1>a. /\ cloud.warehouses = history.found \cup Managed /\ (settings.reuse # None => Managed = {})
      /\ \A w \in Managed : w.managed
  BY DEF EverInv, Managed
<1>1. CASE UNCHANGED cloud.warehouses
  BY <1>0, <1>a, <1>1 DEF Managed
<1>2. CASE \E w : /\ w.managed /\ cloud'.warehouses = cloud.warehouses \cup {w}
                  /\ settings.reuse = None
  BY <1>0, <1>a, <1>2 DEF Managed
<1>3. CASE \E w \in Managed : cloud'.warehouses = cloud.warehouses \ {w}
  <2>1. PICK w \in Managed : cloud'.warehouses = cloud.warehouses \ {w}
    BY <1>3
  <2>2. Managed' = Managed \ {w}
    BY <2>1 DEF Managed
  <2>3. history.found \subseteq cloud'.warehouses
    <3>1. \A v \in history.found : v # w
      BY <1>a DEF OthersInv
    <3>2. QED
      BY <1>0, <2>1, <3>1
  <2>4. QED
    BY <1>0, <1>a, <2>1, <2>2, <2>3
<1>4. QED
  <2>1. CASE ~EstateStep
    BY <1>1, <2>1, EstateStays DEF Estate
  <2>2. CASE ResolveWarehouse \/ EnsureCatalog \/ EnsureSchema \/ EnsureExperiment
    BY <1>1, <1>2, <2>2, MakingDoes
  <2>3. CASE DeleteExperiment \/ DropSchema \/ DropCatalog \/ DeleteWarehouses
    BY <1>1, <1>3, <2>3, DroppingDoes
  <2>4. QED
    BY <2>1, <2>2, <2>3 DEF EstateStep

(* A provision is at none of the steps of a teardown.                      *)
Tearing == {"list_spaces", "trash"} \cup SpacesGone

LEMMA ProvisionApart ==
  ASSUME ShapeInv, EverInv, Provision
  PROVE  pc' \notin Tearing /\ outcome' # "torn_down"
<1>0. pc # "idle" => outcome # "torn_down"
  BY DEF EverInv
<1> USE DEF Tearing, SpacesGone, AfterObjects
<1>1. CASE \/ ResolveWarehouse \/ EnsureCatalog \/ EnsureSchema \/ EnsureTable
           \/ SubmitInsert \/ InsertDone \/ EnsureExperiment
  BY <1>0, <1>1, EarlyStepsDo DEF BeforeSpaces
<1>2. CASE CreateProduction \/ CreateMaintenance
  <2>1. CASE CreateProduction
    BY <1>0, <2>1, CreateSpaceDoes DEF CreateProduction
  <2>2. CASE CreateMaintenance
    BY <1>0, <2>2, CreateSpaceDoes DEF CreateMaintenance
  <2>3. QED
    BY <1>2, <2>1, <2>2
<1>3. CASE BuildSupervisor \/ CreateTool
  BY <1>0, <1>3, BuildSupervisorDoes, CreateToolDoes
<1>4. CASE WaitReady \/ BuildConfig \/ OpenConfig \/ FillConfig \/ WriteQuestions
  BY <1>0, <1>4, LateStepsDo
<1>5. QED
  BY <1>1, <1>2, <1>3, <1>4 DEF Provision

LEMMA EverStep ==
  ASSUME ShapeInv, OthersInv, EverInv, [Next]_vars
  PROVE  EverInv'
<1>1. pc' \in BeforeDropping => own'.warehouse = None
  <2>0. pc \in BeforeDropping => own.warehouse = None
    BY DEF EverInv
  <2>1. CASE Provision
    BY <2>1, ProvisionApart DEF Tearing, SpacesGone, AfterObjects, BeforeDropping
  <2>2. CASE ListSpaces \/ TrashSpace \/ ListAgents \/ DeleteAgent \/ DeleteEndpoint
    <3>1. UNCHANGED own.warehouse /\ pc \in BeforeDropping
      BY <2>2, ClearingDoes DEF BeforeDropping
    <3>2. QED
      BY <2>0, <3>1
  <2>3. CASE DeleteExperiment \/ DropSchema \/ DropCatalog \/ DeleteWarehouses
    BY <2>0, <2>3, DroppingDoes DEF BeforeDropping
  <2>4. CASE FindWarehouse \/ RemoveConfig \/ RemoveArtifacts
    BY <2>4, ClosingDoes DEF BeforeDropping
  <2>5. CASE Start \/ Abort \/ EditConfig \/ UseHarness
    BY <2>5 DEF Start, Abort, EditConfig, UseHarness, Fresh
  <2>6. CASE Execute \/ EndpointReady \/ UNCHANGED vars
    BY <2>0, <2>6 DEF Execute, EndpointReady, vars
  <2>7. QED
    BY <2>1, <2>2, <2>3, <2>4, <2>5, <2>6 DEF Next, Teardown
<1>2. QED
  BY <1>1, OutcomeStep, BuilderStep, WarehousesStep DEF EverInv

-----------------------------------------------------------------------------
(* A step that changes neither spaces and agents nor the estate, nor where *)
(* the command is, leaves CleanInv.                                        *)
LEMMA CleanKept ==
  ASSUME CleanInv, Quiet, UNCHANGED <<cloud.spaces, cloud.agents, Estate>>,
         UNCHANGED <<settings, disk, pc, own, outcome>>
  PROVE  CleanInv'
<1>1. Titled' = Titled /\ Named' = Named /\ Managed' = Managed
  BY DEF Titled, Named, Managed, Estate
<1>2. Ids(Titled)' = Ids(Titled) /\ Ids(Named)' = Ids(Named)
  BY <1>1 DEF Ids
<1>3. Dropped' = Dropped
  BY DEF Dropped, Estate
<1>4. cloud'.experiment = cloud.experiment /\ Faultless' = Faultless
  BY DEF Quiet, Estate, Faultless
<1>5. CASE ~own.clean
  BY <1>5 DEF CleanInv
<1>6. CASE own.clean
  <2>1. /\ pc' = "trash" => Ids(Titled)' \subseteq own'.todo
        /\ Done(SpacesGone)' => Titled' = {}
        /\ pc' \in {"delete_agents", "delete_endpoint"} => Ids(Named)' \subseteq own'.todo
        /\ Done(AfterObjects)' => Named' = {}
    BY <1>1, <1>2, <1>6 DEF CleanInv, Done
  <2>2. /\ Done(ExperimentGone)' => cloud'.experiment = None
        /\ pc' = "drop_catalog" => "demo" \notin cloud'.schemas
        /\ Done(DroppingDone)' /\ (own'.warehouse # None \/ Faultless') => Dropped'
        /\ Done(WarehousesGone)' => Managed' = {}
    BY <1>1, <1>3, <1>4, <1>6 DEF CleanInv, Done, Estate
  <2>3. /\ Done({"remove_rest"})' => disk'.state = "absent"
        /\ outcome' = "torn_down" => disk'.artifacts \cap {"questions", "mlruns", own'.output} = {}
    BY <1>6 DEF CleanInv, Done
  <2>4. QED
    BY <2>1, <2>2, <2>3 DEF CleanInv
<1>7. QED
  BY <1>5, <1>6

(* What a teardown without failures has listed and not yet removed.        *)
LEMMA ClearingClean ==
  ASSUME ShapeInv, EverInv, CleanInv, own.clean, Quiet, UNCHANGED Estate,
         ListSpaces \/ TrashSpace \/ ListAgents \/ DeleteAgent \/ DeleteEndpoint
  PROVE  CleanInv'
<1>0. /\ ~Failed /\ outcome = "none" /\ UNCHANGED <<settings, outcome>>
      /\ pc' \in {"trash"} \cup (SpacesGone \ ExperimentGone)
  <2>1. history.faults \in Nat
    BY DEF ShapeInv, HistoryType
  <2>2. ~Failed
    BY <2>1 DEF Failed, Quiet
  <2>3. pc # "idle" /\ UNCHANGED <<settings, outcome>>
        /\ pc' \in {"trash"} \cup (SpacesGone \ ExperimentGone)
    BY ClearingDoes DEF AfterSpaces, SpacesGone, ExperimentGone, AfterObjects
  <2>4. QED
    BY <2>2, <2>3 DEF EverInv
<1>a. /\ pc = "trash" => Ids(Titled) \subseteq own.todo
      /\ pc \in SpacesGone => Titled = {}
      /\ pc \in {"delete_agents", "delete_endpoint"} => Ids(Named) \subseteq own.todo
  BY DEF CleanInv, Done
<1> SUFFICES /\ pc' = "trash" => Ids(Titled)' \subseteq own'.todo
             /\ pc' \in SpacesGone => Titled' = {}
             /\ pc' \in {"delete_agents", "delete_endpoint"} => Ids(Named)' \subseteq own'.todo
             /\ pc' = "delete_experiment" => Named' = {}
  BY <1>0 DEF CleanInv, Done, SpacesGone, ExperimentGone, AfterObjects, DroppingDone, WarehousesGone
<1>1. CASE ListSpaces
  <2>1. UNCHANGED cloud.spaces /\ pc' = "trash" /\ own'.todo = Ids(Titled)
    BY <1>0, <1>1, ClearingDoes DEF Objects, ListSpaces
  <2>2. Ids(Titled)' = Ids(Titled)
    BY <2>1 DEF Ids, Titled
  <2>3. QED
    BY <2>1, <2>2 DEF SpacesGone, AfterObjects
<1>2. CASE TrashSpace
  <2>1. /\ pc = "trash" /\ UNCHANGED cloud.agents
        /\ \/ pc' = AfterSpaces /\ UNCHANGED cloud.spaces /\ own.todo = {}
           \/ /\ pc' = "trash"
              /\ \E id \in own.todo :
                   /\ own'.todo = own.todo \ {id}
                   /\ cloud'.spaces = cloud.spaces \ {s \in cloud.spaces : s.id = id}
    BY <1>0, <1>2, ClearingDoes DEF TrashSpace
  <2>2. \A s \in Titled : s.id \in own.todo
    BY <1>a, <2>1 DEF Ids
  <2>3. CASE pc' = AfterSpaces /\ UNCHANGED cloud.spaces /\ own.todo = {}
    <3>1. Titled' = {}
      BY <2>2, <2>3 DEF Titled
    <3>2. pc' = "delete_experiment" => Named' = {}
      BY <2>1, <2>3 DEF AfterSpaces, EverInv, Named
    <3>3. pc' \in {"list_agents", "delete_experiment"}
      BY <2>3 DEF AfterSpaces
    <3>4. QED
      BY <3>1, <3>2, <3>3
  <2>4. CASE /\ pc' = "trash"
             /\ \E id \in own.todo :
                  /\ own'.todo = own.todo \ {id}
                  /\ cloud'.spaces = cloud.spaces \ {s \in cloud.spaces : s.id = id}
    <3>1. \A s \in Titled' : s.id \in own'.todo
      BY <2>2, <2>4 DEF Titled
    <3>2. QED
      BY <2>4, <3>1 DEF Ids, SpacesGone, AfterObjects
  <2>5. QED
    BY <2>1, <2>3, <2>4
<1>3. CASE ListAgents \/ DeleteAgent \/ DeleteEndpoint
  <2>1. /\ pc \in SpacesGone /\ pc' \in SpacesGone /\ UNCHANGED cloud.spaces
        /\ \/ pc' = "delete_agents" /\ own'.todo = Ids(Named) /\ UNCHANGED cloud.agents
           \/ pc = "delete_agents" /\ pc' = "delete_experiment" /\ own.todo = {} /\ UNCHANGED cloud.agents
           \/ /\ pc = "delete_agents" /\ pc' = "delete_endpoint"
              /\ \E id \in own.todo :
                   /\ own'.todo = own.todo \ {id}
                   /\ cloud'.agents = cloud.agents \ {a \in cloud.agents : a.id = id}
           \/ /\ pc = "delete_endpoint" /\ pc' = "delete_agents"
              /\ UNCHANGED <<cloud.agents, own.todo>>
    BY <1>0, <1>3, ClearingDoes
    DEF ListAgents, DeleteAgent, DeleteEndpoint, Objects, SpacesGone, AfterObjects
  <2>2. Titled' = {}
    BY <1>a, <2>1 DEF Titled
  <2>3. pc \in {"delete_agents", "delete_endpoint"} => \A a \in Named : a.id \in own.todo
    BY <1>a DEF Ids
  <2>4. /\ pc' \in {"delete_agents", "delete_endpoint"} => \A a \in Named' : a.id \in own'.todo
        /\ pc' = "delete_experiment" => Named' = {}
    <3>1. CASE pc' = "delete_agents" /\ own'.todo = Ids(Named) /\ UNCHANGED cloud.agents
      BY <3>1 DEF Named, Ids
    <3>2. CASE pc = "delete_agents" /\ pc' = "delete_experiment" /\ own.todo = {} /\ UNCHANGED cloud.agents
      BY <2>3, <3>2 DEF Named
    <3>3. CASE /\ pc = "delete_agents" /\ pc' = "delete_endpoint"
               /\ \E id \in own.todo :
                    /\ own'.todo = own.todo \ {id}
                    /\ cloud'.agents = cloud.agents \ {a \in cloud.agents : a.id = id}
      BY <2>3, <3>3 DEF Named
    <3>4. CASE /\ pc = "delete_endpoint" /\ pc' = "delete_agents"
               /\ UNCHANGED <<cloud.agents, own.todo>>
      BY <2>3, <3>4 DEF Named
    <3>5. QED
      BY <2>1, <3>1, <3>2, <3>3, <3>4
  <2>5. QED
    BY <2>1, <2>2, <2>4 DEF Ids, SpacesGone, AfterObjects
<1>4. QED
  BY <1>1, <1>2, <1>3

(* What a teardown without failures has dropped and deleted.               *)
LEMMA RemovingClean ==
  ASSUME ShapeInv, EverInv, CleanInv, FaultlessInv, own.clean, Quiet,
         \/ DeleteExperiment \/ FindWarehouse \/ DropSchema \/ DropCatalog
         \/ DeleteWarehouses \/ RemoveConfig \/ RemoveArtifacts
  PROVE  CleanInv'
<1>0. /\ ~Failed /\ outcome = "none" /\ UNCHANGED <<settings, cloud.spaces, cloud.agents>>
      /\ Faultless' = Faultless
  <2>1. history.faults \in Nat
    BY DEF ShapeInv, HistoryType
  <2>2. pc # "idle" /\ UNCHANGED <<settings, cloud.spaces, cloud.agents>>
    BY RemovalStepsDo DEF AfterObjects, Objects
  <2>3. QED
    BY <2>1, <2>2 DEF EverInv, Failed, Quiet, Faultless
<1>1. /\ Titled' = {} /\ Named' = {}
      /\ pc' \in ExperimentGone \/ (pc' = "idle" /\ outcome' = "torn_down")
  <2>1. /\ pc \in AfterObjects
        /\ pc' \in ExperimentGone \/ (pc' = "idle" /\ outcome' = "torn_down")
    BY DroppingDoes, ClosingDoes DEF ExperimentGone, AfterObjects
  <2>2. Titled = {} /\ Named = {}
    BY <2>1 DEF CleanInv, Done, SpacesGone
  <2>3. QED
    BY <1>0, <2>1, <2>2 DEF Titled, Named
<1>a. /\ pc \in ExperimentGone => cloud.experiment = None
      /\ pc = "drop_catalog" => "demo" \notin cloud.schemas
      /\ pc \in DroppingDone /\ (own.warehouse # None \/ Faultless) => Dropped
      /\ pc \in WarehousesGone => Managed = {}
      /\ pc = "remove_rest" => disk.state = "absent"
      /\ pc = "find_warehouse" => own.warehouse = None
      /\ Faultless /\ settings.reuse = None /\ cloud.warehouses = {} => Dropped
      /\ settings.reuse # None => Managed = {}
  BY DEF CleanInv, Done, EverInv, FaultlessInv, Faultless, BeforeDropping
<1> USE DEF ExperimentGone, AfterObjects, DroppingDone, WarehousesGone
<1>2. cloud'.experiment = None
  BY <1>0, <1>a, DroppingDoes, ClosingDoes
<1>3. pc' = "drop_catalog" => "demo" \notin cloud'.schemas
  BY <1>0, DroppingDoes, ClosingDoes
<1>4. pc' \in DroppingDone \/ pc' = "idle" =>
        (own'.warehouse # None \/ Faultless' => Dropped')
  <2>1. CASE DeleteExperiment \/ DropSchema
    BY <1>0, <2>1, DroppingDoes DEF DeleteExperiment, DropSchema
  <2>2. CASE DropCatalog
    BY <1>0, <1>a, <2>2, DroppingDoes DEF Dropped, DropCatalog
  <2>3. CASE DeleteWarehouses
    BY <1>0, <1>a, <2>3, DroppingDoes DEF Dropped, DeleteWarehouses
  <2>4. CASE FindWarehouse
    BY <1>0, <1>a, <2>4, ClosingDoes DEF Dropped, FindWarehouse
  <2>5. CASE RemoveConfig \/ RemoveArtifacts
    BY <1>0, <1>a, <2>5, ClosingDoes DEF Dropped, RemoveConfig, RemoveArtifacts
  <2>6. QED
    BY <2>1, <2>2, <2>3, <2>4, <2>5
<1>5. pc' \in WarehousesGone \/ pc' = "idle" => Managed' = {}
  BY <1>0, <1>a, DroppingDoes, ClosingDoes DEF Managed
<1>6. pc' \in {"remove_rest", "idle"} => disk'.state = "absent"
  BY <1>0, <1>a, DroppingDoes, ClosingDoes
<1>7. pc' = "idle" => disk'.artifacts \cap {"questions", "mlruns", own'.output} = {}
  BY <1>0, DroppingDoes, ClosingDoes
<1>8. /\ pc' # "trash" /\ pc' \notin {"delete_agents", "delete_endpoint"}
      /\ outcome' = "torn_down" => pc' = "idle"
  <2>1. outcome' = "torn_down" => pc' = "idle"
    BY <1>0, RemovalStepsDo
  <2>2. QED
    BY <1>1, <2>1
<1>9. QED
  BY <1>1, <1>2, <1>3, <1>4, <1>5, <1>6, <1>7, <1>8 DEF CleanInv, Done

LEMMA CleanStep ==
  ASSUME ShapeInv, EverInv, CleanInv, FaultlessInv, [Next]_vars
  PROVE  CleanInv'
<1>1. CASE ~own'.clean
  BY <1>1 DEF CleanInv
<1>2. CASE pc' \notin Tearing \ {"list_spaces"} /\ outcome' # "torn_down"
  BY <1>2 DEF CleanInv, Done, Tearing, SpacesGone, ExperimentGone, AfterObjects, DroppingDone,
              WarehousesGone
<1>3. CASE Provision \/ Start \/ Abort \/ EditConfig \/ UseHarness
  <2>1. CASE Provision
    BY <1>2, <2>1, ProvisionApart
  <2>2. CASE Start \/ Abort \/ EditConfig \/ UseHarness
    <3>1. pc' \in {"idle", "warehouse", "list_spaces"} /\ outcome' # "torn_down"
      BY <2>2 DEF Start, Abort, EditConfig, UseHarness
    <3>2. QED
      BY <1>2, <3>1 DEF Tearing, SpacesGone, AfterObjects
  <2>3. QED
    BY <1>3, <2>1, <2>2
<1>4. CASE own'.clean /\ (Teardown \/ Execute \/ EndpointReady \/ UNCHANGED vars)
  <2>1. Quiet /\ own.clean
    <3>1. CASE Teardown
      <4>1. own' = Fresh /\ pc' \in {"idle", "warehouse", "list_spaces"} => outcome' = "torn_down"
        BY <3>1, ClearingDoes, RemovalStepsDo DEF Teardown, AfterSpaces, AfterObjects
      <4>2. RemoveArtifacts /\ pc' = "idle" => Quiet \/ Failed
        <5>1. RemoveArtifacts => pc = "remove_rest"
          BY DEF RemoveArtifacts
        <5>2. QED
          BY <5>1, ClosingDoes
      <4>3. QED
        BY <1>4, <4>1, <4>2, StepClean DEF Quiet, Failed, Elsewhere
    <3>2. CASE Execute \/ EndpointReady \/ UNCHANGED vars
      BY <1>4, <3>2 DEF Execute, EndpointReady, vars, Quiet
    <3>3. QED
      BY <1>4, <3>1, <3>2
  <2>2. CASE \/ DeleteExperiment \/ FindWarehouse \/ DropSchema \/ DropCatalog
             \/ DeleteWarehouses \/ RemoveConfig \/ RemoveArtifacts
    BY <2>1, <2>2, RemovingClean
  <2>3. CASE ResolveWarehouse \/ EnsureCatalog \/ EnsureSchema \/ EnsureExperiment
    BY <1>2, <2>3, ProvisionApart DEF Provision
  <2>4. CASE ~EstateStep /\ (ListSpaces \/ TrashSpace \/ ListAgents \/ DeleteAgent \/ DeleteEndpoint)
    BY <2>1, <2>4, EstateStays, ClearingClean
  <2>5. CASE ~EstateStep /\ (Execute \/ EndpointReady \/ UNCHANGED vars)
    <3>1. UNCHANGED <<settings, disk, pc, own, outcome>>
      BY <2>5 DEF Execute, EndpointReady, vars
    <3>2. UNCHANGED <<cloud.spaces, cloud.agents>>
      BY <2>5, EndpointReadyDoes, OtherStepsDo DEF Objects
    <3>3. QED
      BY <2>1, <2>5, <3>1, <3>2, EstateStays, CleanKept
  <2>6. QED
    BY <1>4, <2>2, <2>3, <2>4, <2>5 DEF Teardown, EstateStep
<1>5. QED
  BY <1>1, <1>3, <1>4 DEF Next

-----------------------------------------------------------------------------
LEMMA PairedStep ==
  ASSUME ShapeInv, Paired, [Next]_vars, history'.faults = history.faults
  PROVE  Paired'
<1>0. history.faults \in Nat /\ history \in HistoryType
  BY DEF ShapeInv, HistoryType
<1>a. ASSUME pc # "delete_endpoint", UNCHANGED cloud.endpoints,
             \A a \in Named : \E b \in Named' : b.id = a.id
      PROVE  Paired'
  BY <1>a DEF Paired, Ids
<1>1. CASE \/ ResolveWarehouse \/ EnsureCatalog \/ EnsureSchema \/ EnsureTable
           \/ SubmitInsert \/ InsertDone \/ EnsureExperiment
  BY <1>a, <1>1, EarlyStepsDo DEF Objects, Named, BeforeSpaces
<1>2. CASE CreateProduction \/ CreateMaintenance
  BY <1>a, <1>2, CreateSpaceDoes DEF CreateProduction, CreateMaintenance, Named
<1>3. CASE BuildSupervisor
  <2> DEFINE new == [id |-> NewId, name |-> "mine", tools |-> {}]
             end == [id |-> NewId, state |-> "NOT_READY"]
  <2>1. /\ pc = "agent"
        /\ \/ UNCHANGED <<cloud.agents, cloud.endpoints>>
           \/ /\ cloud'.agents = cloud.agents \cup {new}
              /\ cloud'.endpoints = cloud.endpoints \cup {end}
    BY <1>3, BuildSupervisorDoes
  <2>2. new.name = "mine" /\ new.id = end.id
    OBVIOUS
  <2> HIDE DEF new, end
  <2>3. QED
    BY <2>1, <2>2 DEF Paired, Named, Ids
<1>4. CASE CreateTool
  <2>1. PICK agent \in cloud.agents, space \in {own.production, own.maintenance} :
          /\ agent \in Agent /\ pc = "tools" /\ UNCHANGED cloud.endpoints
          /\ cloud'.agents = (cloud.agents \ {agent})
                             \cup {[agent EXCEPT !.tools = agent.tools \cup {space}]}
    BY <1>4, CreateToolDoes
  <2> DEFINE new == [agent EXCEPT !.tools = agent.tools \cup {space}]
  <2>2. /\ new.name = agent.name /\ new.id = agent.id
        /\ cloud'.agents = (cloud.agents \ {agent}) \cup {new}
    BY <2>1 DEF Agent
  <2> HIDE DEF new
  <2>3. \A a \in Named : \E b \in Named' : b.id = a.id
    BY <2>2 DEF Named
  <2>4. QED
    BY <1>a, <2>1, <2>3
<1>5. CASE WaitReady \/ BuildConfig \/ OpenConfig \/ FillConfig \/ WriteQuestions
  BY <1>a, <1>5, LateStepsDo DEF Named
<1>6. CASE ListSpaces \/ TrashSpace \/ ListAgents \/ DeleteAgent \/ DeleteEndpoint
  <2>0. ~Failed
    BY <1>0 DEF Failed
  <2>1. CASE pc \notin {"delete_agents", "delete_endpoint"}
    BY <1>a, <1>6, <2>1, ClearingDoes DEF Objects, Named
  <2>2. CASE pc = "delete_agents" /\ pc' = "delete_experiment"
    BY <1>a, <1>6, <2>0, <2>2, ClearingDoes DEF Objects, Named
  <2>3. CASE pc = "delete_agents" /\ pc' # "delete_experiment"
    <3>1. PICK id \in own.todo :
            /\ pc' = "delete_endpoint" /\ own'.agent = id
            /\ cloud'.agents = cloud.agents \ {a \in cloud.agents : a.id = id}
            /\ cloud'.endpoints \subseteq cloud.endpoints
      BY <1>6, <2>0, <2>3, ClearingDoes
    <3>2. QED
      BY <2>3, <3>1 DEF Paired, Named, Ids
  <2>4. CASE pc = "delete_endpoint"
    <3>1. /\ UNCHANGED cloud.agents /\ pc' = "delete_agents"
          /\ cloud'.endpoints = cloud.endpoints \ Endpoints(own.agent)
      BY <1>6, <2>0, <2>4, ClearingDoes
    <3>2. QED
      BY <2>4, <3>1 DEF Paired, Named, Ids, Endpoints
  <2>5. QED
    BY <2>1, <2>2, <2>3, <2>4
<1>7. CASE \/ DeleteExperiment \/ FindWarehouse \/ DropSchema \/ DropCatalog
           \/ DeleteWarehouses \/ RemoveConfig \/ RemoveArtifacts
  BY <1>a, <1>7, RemovalStepsDo DEF Objects, Named, AfterObjects
<1>8. CASE Start \/ EditConfig \/ UseHarness
  <2>1. pc = "idle" /\ UNCHANGED cloud
    BY <1>8 DEF Start, EditConfig, UseHarness
  <2>2. QED
    BY <1>a, <2>1 DEF Named
<1>9. CASE Abort
  BY <1>0, <1>9 DEF Abort, HistoryType
<1>10. CASE Execute \/ UNCHANGED vars
  <2>1. UNCHANGED Objects /\ UNCHANGED <<pc, own>>
    BY <1>10, OtherStepsDo DEF Execute, vars
  <2>2. QED
    BY <2>1 DEF Objects, Paired, Named, Ids
<1>11. CASE EndpointReady
  <2>1. /\ UNCHANGED <<cloud.agents, pc, own>>
        /\ \E e \in cloud.endpoints : \E f \in Endpoint :
             f.id = e.id /\ cloud'.endpoints = (cloud.endpoints \ {e}) \cup {f}
    BY <1>11, EndpointReadyDoes
  <2>2. QED
    BY <2>1 DEF Paired, Named, Ids
<1>12. QED
  BY <1>1, <1>2, <1>3, <1>4, <1>5, <1>6, <1>7, <1>8, <1>9, <1>10, <1>11
  DEF Next, Provision, Teardown

LEMMA FaultlessStep ==
  ASSUME ShapeInv, OthersInv, EverInv, CleanInv, FaultlessInv, [Next]_vars
  PROVE  FaultlessInv'
<1> SUFFICES ASSUME history'.faults = 0 PROVE FaultlessInv'
  BY DEF FaultlessInv
<1>1. history.faults = 0 /\ own'.clean
  <2>1. history.faults \in Nat /\ Fresh.clean
    BY DEF ShapeInv, HistoryType, Fresh
  <2>2. RemoveArtifacts => Quiet \/ Failed
    <3>1. RemoveArtifacts => pc = "remove_rest"
      BY DEF RemoveArtifacts
    <3>2. QED
      BY <3>1, ClosingDoes
  <2>3. CASE Quiet
    BY <2>3 DEF Quiet, FaultlessInv
  <2>4. CASE Failed
    BY <2>1, <2>4 DEF Failed
  <2>5. CASE Elsewhere
    BY <2>1, <2>5 DEF Elsewhere
  <2>6. QED
    BY <2>2, <2>3, <2>4, <2>5, StepClean
<1>2. /\ own.clean /\ Paired
      /\ ~Adopts /\ settings.reuse = None /\ cloud.warehouses = {} => Dropped
      /\ pc \in {"catalog", "schema"} => settings.reuse # None \/ cloud.warehouses # {}
  BY <1>1 DEF FaultlessInv
<1>3. Paired'
  BY <1>1, <1>2, PairedStep
<1>4. UNCHANGED settings
  BY OthersStay
<1>5. ~Adopts /\ settings'.reuse = None /\ cloud'.warehouses = {} => Dropped'
  <2>1. CASE ~EstateStep
    BY <1>2, <1>4, <2>1, EstateStays DEF Estate, Dropped
  <2>2. CASE ResolveWarehouse \/ EnsureCatalog \/ EnsureSchema \/ EnsureExperiment
    BY <1>2, <1>4, <2>2, MakingDoes DEF Dropped
  <2>3. CASE DeleteExperiment \/ DropSchema \/ DropCatalog \/ DeleteWarehouses
    <3>1. ~Failed
      BY <1>1 DEF Failed
    <3>2. ~Adopts /\ pc = "delete_warehouses" => Dropped
      BY <1>1, <1>2 DEF CleanInv, Done, DroppingDone, Faultless
    <3>3. QED
      BY <1>2, <1>4, <2>3, <3>1, <3>2, DroppingDoes DEF Dropped
  <2>4. QED
    BY <2>1, <2>2, <2>3 DEF EstateStep
<1>6. pc' \in {"catalog", "schema"} => settings'.reuse # None \/ cloud'.warehouses # {}
  <2>1. CASE ResolveWarehouse \/ EnsureCatalog \/ EnsureSchema \/ EnsureExperiment
    BY <1>2, <1>4, <2>1, MakingDoes
  <2>2. CASE EnsureTable \/ SubmitInsert \/ InsertDone
    BY <2>2, TableStepsDo DEF AfterTable
  <2>3. CASE CreateProduction \/ CreateMaintenance
    <3>1. CASE CreateProduction
      BY <3>1, CreateSpaceDoes DEF CreateProduction
    <3>2. CASE CreateMaintenance
      BY <3>2, CreateSpaceDoes DEF CreateMaintenance
    <3>3. QED
      BY <2>3, <3>1, <3>2
  <2>4. CASE BuildSupervisor \/ CreateTool
    BY <2>4, BuildSupervisorDoes, CreateToolDoes
  <2>5. CASE WaitReady \/ BuildConfig \/ OpenConfig \/ FillConfig \/ WriteQuestions
    BY <2>5, LateStepsDo
  <2>6. CASE Teardown
    BY <2>6, ClearingDoes, RemovalStepsDo DEF Teardown, AfterSpaces, AfterObjects
  <2>7. CASE Start \/ Abort \/ EditConfig \/ UseHarness
    BY <2>7 DEF Start, Abort, EditConfig, UseHarness
  <2>8. CASE ~EstateStep /\ (Execute \/ EndpointReady \/ UNCHANGED vars)
    <3>1. UNCHANGED pc
      BY <2>8 DEF Execute, EndpointReady, vars
    <3>2. QED
      BY <1>2, <1>4, <2>8, <3>1, EstateStays DEF Estate
  <2>9. QED
    BY <2>1, <2>2, <2>3, <2>4, <2>5, <2>6, <2>7, <2>8 DEF Next, Provision, Teardown, EstateStep
<1>7. QED
  BY <1>1, <1>3, <1>5, <1>6 DEF FaultlessInv

LEMMA InitTeardown ==
  ASSUME Init
  PROVE  EverInv /\ CleanInv /\ FaultlessInv
<1>1. /\ Managed = {} /\ Named = {} /\ cloud.experiment = None /\ pc = "idle" /\ outcome = "none"
      /\ own.clean /\ cloud.warehouses = history.found
  <2>1. PICK found \in Workspaces : cloud.warehouses = found /\ history.found = found
    BY DEF Init
  <2>2. \A w \in found : ~w.managed
    BY <2>1, BootstrapAssumption
  <2>3. QED
    BY <2>1, <2>2 DEF Init, Managed, Named, Fresh
<1>2. (~Adopts => Dropped) /\ \A e \in cloud.endpoints : e.id = 2
  <2>1. /\ "demo" \notin cloud.schemas /\ (~Adopts /\ settings.create => ~cloud.catalog)
        /\ cloud.endpoints = {[id |-> 2, state |-> "READY"]}
    BY DEF Init
  <2>2. QED
    BY <2>1 DEF Dropped
<1>3. EverInv /\ CleanInv
  BY <1>1 DEF EverInv, CleanInv, Done, BeforeDropping, SpacesGone, ExperimentGone, AfterObjects,
              DroppingDone, WarehousesGone
<1>4. FaultlessInv
  BY <1>1, <1>2 DEF FaultlessInv, Paired
<1>5. QED
  BY <1>3, <1>4

TeardownInv == EverInv /\ CleanInv /\ FaultlessInv

LEMMA TeardownInductive == Spec => [](IInv /\ TeardownInv)
<1>1. Init => TeardownInv
  BY InitTeardown DEF TeardownInv
<1>2. IInv /\ TeardownInv /\ [Next]_vars => TeardownInv'
  BY EverStep, CleanStep, FaultlessStep DEF IInv, TeardownInv
<1>3. QED
  BY <1>1, <1>2, Inductive, PTL DEF Spec

(* A teardown that ends without a failure has removed all it can find: the *)
(* spaces by title, the agents by name, the experiment by path, the        *)
(* warehouses by tag, the schema and catalog if it had a warehouse, and    *)
(* the local files; whatever failed or died before it, in any workspace.   *)
Cleared ==
  /\ Titled = {} /\ Named = {} /\ Managed = {} /\ cloud.experiment = None
  /\ own.warehouse # None => Dropped
  /\ disk.state = "absent" /\ disk.artifacts \cap {"questions", "mlruns", own.output} = {}

THEOREM TeardownClears == Spec => [](TornDown => Cleared)
<1>1. TeardownInv => (TornDown => Cleared)
  BY DEF TeardownInv, CleanInv, Done, TornDown, Cleared
<1>2. QED
  BY <1>1, TeardownInductive, PTL

(* And when no command failed before it either, the workspace is as the    *)
(* first bootstrap found it. That is so provided no catalog of the         *)
(* configured name was there before it was told to create one: with one,   *)
(* no end is as it was found, since a teardown drops the catalog, or lacks *)
(* a warehouse and leaves it.                                              *)
THEOREM TeardownEmpties ==
  ASSUME ~Adopts
  PROVE  Spec => []TeardownRemovesEverything
<1>1. IInv /\ TeardownInv /\ (TornDown => Cleared) => TeardownRemovesEverything
  <2> SUFFICES ASSUME IInv, TeardownInv, TornDown, Cleared
               PROVE  TeardownRemovesEverything
    BY DEF TeardownRemovesEverything
  <2>1. history.faults = 0 => AsFound
    <3> SUFFICES ASSUME history.faults = 0 PROVE AsFound
      OBVIOUS
    <3>1. cloud.warehouses = history.found
      BY DEF TeardownInv, EverInv, Cleared
    <3>2. \A e \in cloud.endpoints : e.id = 2
      <4>1. pc = "idle" /\ Paired /\ Ids(Named) = {}
        BY DEF TeardownInv, EverInv, FaultlessInv, Cleared, TornDown, Ids
      <4>2. QED
        BY <4>1 DEF Paired
    <3>3. Ids(cloud.endpoints) = {2}
      BY <3>2 DEF IInv, OthersInv, Ids
    <3>4. Dropped
      BY DEF TeardownInv, CleanInv, Done, TornDown, Faultless
    <3>5. QED
      BY <3>1, <3>3, <3>4 DEF AsFound, Cleared, Dropped
  <2>2. QED
    BY <2>1 DEF TeardownRemovesEverything, Cleared, Dropped
<1>2. QED
  BY <1>1, TeardownInductive, TeardownClears, PTL
==============================================================================
