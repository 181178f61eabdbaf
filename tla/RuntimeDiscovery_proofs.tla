---------------------- MODULE RuntimeDiscovery_proofs -----------------------
(***************************************************************************)
(* Proofs about RuntimeDiscovery, for any number of runtime processes and  *)
(* clients, any releases and any number of migrations.                     *)
(*                                                                         *)
(* The version a process reads when it opens the database may be old when  *)
(* it migrates.  Core says why that does no harm: the open transaction     *)
(* belongs to the one process that is migrating (Holder), starts from the  *)
(* schema as it is (Migrating), and only a process whose version is still  *)
(* the current one gets past the tables it creates (Migrated); a process   *)
(* that gets to listen has none left to do (Serving).                      *)
(***************************************************************************)
EXTENDS RuntimeDiscovery, TLAPS

RuntimeRows == [pc : Alive \cup {"none", "stopped", "dead"},
                release : 1 .. LatestSchema, next : 1 .. LatestSchema + 1,
                pid : Pids \cup {None}, port : Ports \cup {None},
                said : BOOLEAN]

RuntimeTypes == /\ runtime \in [Instances -> RuntimeRows]
                /\ \A i \in Instances : runtime[i].next <= runtime[i].release + 1

SchemaTypes ==
  /\ schema \in [version : 0 .. LatestSchema, tables : SUBSET (1 .. LatestSchema)]
  /\ draft \in {None} \cup Drafts

Holder ==
  \A i \in Instances :
    runtime[i].pc \in {"migrating", "migrated"} <=> (draft # None /\ draft.by = i)

(* A process that has read version v has migration v + 1 or an earlier one *)
(* to do next.                                                             *)
Reading ==
  \A i \in Instances :
    /\ runtime[i].pc \in {"opening", "migrating"} => runtime[i].next <= schema.version + 1
    /\ runtime[i].pc \in {"none", "spawned"} => runtime[i].next = 1

Migrating ==
  \A i \in Instances : runtime[i].pc = "migrating" =>
    /\ runtime[i].next <= runtime[i].release
    /\ draft.version = schema.version /\ draft.tables = schema.tables

Migrated ==
  \A i \in Instances : runtime[i].pc = "migrated" =>
    /\ runtime[i].next <= runtime[i].release
    /\ runtime[i].next = schema.version + 1
    /\ draft.version = runtime[i].next /\ draft.tables = 1 .. runtime[i].next

Serving ==
  \A i \in Instances : runtime[i].pc \in Answering => runtime[i].release <= schema.version

Core == /\ RuntimeTypes /\ SchemaTypes /\ SchemaIsWhole /\ Holder
        /\ Reading /\ Migrating /\ Migrated /\ Serving

----------------------------------------------------------------------------
(* The row of a process changes and no transaction is left with it: all    *)
(* steps but those of a migration that succeeds.                           *)
Outside(i, x) ==
  /\ x \in RuntimeRows /\ x.next <= x.release + 1
  /\ x.pc \notin {"migrating", "migrated"}
  /\ x.pc = "opening" => x.next <= schema.version + 1
  /\ x.pc \in {"none", "spawned"} => x.next = 1
  /\ x.pc \in Answering => x.release <= schema.version

LEMMA OutsideKeeps ==
  ASSUME Core, NEW i \in Instances, NEW x, Outside(i, x),
         runtime' = [runtime EXCEPT ![i] = x], schema' = schema,
         draft' = IF draft # None /\ draft.by = i THEN None ELSE draft
  PROVE  Core'
<1>. USE DEF Core
<1>1. runtime' \in [Instances -> RuntimeRows] /\ runtime'[i] = x
      /\ \A j \in Instances \ {i} : runtime'[j] = runtime[j]
  BY DEF RuntimeTypes, Outside
<1>2. RuntimeTypes' BY <1>1 DEF RuntimeTypes, Outside, RuntimeRows
<1>3. SchemaTypes' /\ SchemaIsWhole' BY DEF SchemaTypes, SchemaIsWhole
<1>4. Holder' BY <1>1 DEF Holder, Outside
<1>5. Reading' BY <1>1 DEF Reading, Outside
<1>6. \A j \in Instances \ {i} : runtime[j].pc \in {"migrating", "migrated"} => draft' = draft
  BY DEF Holder
<1>7. Migrating' BY <1>1, <1>6 DEF Migrating, Outside
<1>8. Migrated' BY <1>1, <1>6 DEF Migrated, Outside
<1>9. Serving' BY <1>1 DEF Serving, Outside
<1>. QED BY <1>2, <1>3, <1>4, <1>5, <1>7, <1>8, <1>9

(* A process that does not migrate leaves the transaction of another alone.*)
LEMMA NotHolding ==
  ASSUME Core, NEW i \in Instances, runtime[i].pc \notin {"migrating", "migrated"}
  PROVE  draft = IF draft # None /\ draft.by = i THEN None ELSE draft
BY DEF Core, Holder

LEMMA EndsIsOutside ==
  ASSUME Core, NEW i \in Instances, NEW pc \in {"dead", "stopped"}, Ends(i, pc)
  PROVE  \E x : Outside(i, x) /\ runtime' = [runtime EXCEPT ![i] = x]
<1>. DEFINE x == [Unstarted EXCEPT !.pc = pc, !.pid = runtime[i].pid,
                                   !.port = runtime[i].port, !.said = runtime[i].said]
<1>1. runtime[i] \in RuntimeRows BY DEF Core, RuntimeTypes
<1>2. Unstarted \in RuntimeRows /\ Unstarted.next = 1 /\ Unstarted.release = 1
  BY LatestAssumption DEF Unstarted, RuntimeRows
<1>3. x \in RuntimeRows /\ x.pc = pc /\ x.next = 1 /\ x.release = 1
  BY <1>1, <1>2 DEF RuntimeRows
<1>4. Outside(i, x) BY <1>2, <1>3, LatestAssumption DEF Outside, Answering
<1>. QED BY <1>4 DEF Ends

(* A step that changes where a process is and no column the schema depends *)
(* on.                                                                     *)
LEMMA MoveIsOutside ==
  ASSUME Core, NEW i \in Instances,
         NEW pc \in Alive \ {"migrating", "migrated", "opening", "spawned"},
         pc \in Answering => runtime[i].pc \in Answering
  PROVE  /\ Outside(i, [runtime[i] EXCEPT !.pc = pc])
         /\ Goto(i, pc) => runtime' = [runtime EXCEPT ![i] = [runtime[i] EXCEPT !.pc = pc]]
<1>1. runtime[i] \in RuntimeRows /\ runtime[i].next <= runtime[i].release + 1
  BY DEF Core, RuntimeTypes
<1>2. [runtime[i] EXCEPT !.pc = pc] \in RuntimeRows BY <1>1 DEF RuntimeRows
<1>3. [runtime[i] EXCEPT !.pc = pc].pc = pc
      /\ [runtime[i] EXCEPT !.pc = pc].next = runtime[i].next
      /\ [runtime[i] EXCEPT !.pc = pc].release = runtime[i].release
  BY <1>1 DEF RuntimeRows
<1>4. pc # "none" BY DEF Alive
<1>5. Outside(i, [runtime[i] EXCEPT !.pc = pc])
  BY <1>1, <1>2, <1>3, <1>4 DEF Outside, Core, Serving
<1>. QED BY <1>5 DEF Goto

LEMMA GotoKeeps ==
  ASSUME Core, NEW i \in Instances,
         NEW pc \in Alive \ {"migrating", "migrated", "opening", "spawned"},
         pc \in Answering => runtime[i].pc \in Answering,
         runtime[i].pc \notin {"migrating", "migrated"},
         Goto(i, pc), UNCHANGED <<schema, draft>>
  PROVE  Core'
BY MoveIsOutside, OutsideKeeps, NotHolding

LEMMA EndsKeeps ==
  ASSUME Core, NEW i \in Instances, NEW pc \in {"dead", "stopped"}, Ends(i, pc),
         schema' = schema,
         \/ Rollback(i)
         \/ runtime[i].pc \notin {"migrating", "migrated"} /\ draft' = draft
  PROVE  Core'
BY EndsIsOutside, OutsideKeeps, NotHolding DEF Rollback

(* What the clients and the operating system do to processes.              *)
LEMMA SignalledKeeps ==
  ASSUME Core, NEW i \in Instances, Signalled(i), schema' = schema
  PROVE  Core'
<1>1. CASE UNCHANGED <<runtime, draft>>
  BY <1>1 DEF Core, RuntimeTypes, SchemaTypes, SchemaIsWhole, Holder, Reading, Migrating,
              Migrated, Serving
<1>2. CASE runtime[i].pc = "ready" /\ Goto(i, "closing") /\ UNCHANGED draft
  BY <1>2, GotoKeeps DEF Alive, Answering
<1>3. CASE Dies(i) BY <1>3, EndsKeeps DEF Dies
<1>. QED BY <1>1, <1>2, <1>3 DEF Signalled

LEMMA SpawnsKeeps ==
  ASSUME Core, NEW child \in Instances \cup {None}, NEW releases \in SUBSET (1 .. LatestSchema),
         Spawns(child, releases), UNCHANGED <<schema, draft>>
  PROVE  Core'
<1>1. CASE UNCHANGED runtime
  BY <1>1 DEF Core, RuntimeTypes, SchemaTypes, SchemaIsWhole, Holder, Reading, Migrating,
              Migrated, Serving
<1>2. ASSUME NEW release \in releases, NEW pid \in Pids, child \in Instances,
             \A i \in Instances : runtime[i].pc = "none" <=> i >= child,
             runtime' = [runtime EXCEPT ![child] =
                           [@ EXCEPT !.pc = "spawned", !.release = release, !.pid = pid]]
      PROVE  Core'
  <2>. DEFINE x == [runtime[child] EXCEPT !.pc = "spawned", !.release = release, !.pid = pid]
  <2>1. runtime[child] \in RuntimeRows BY <1>2 DEF Core, RuntimeTypes
  <2>2. runtime[child].pc = "none" BY <1>2 DEF Instances
  <2>3. runtime[child].next = 1 BY <1>2, <2>2 DEF Core, Reading
  <2>4. x \in RuntimeRows BY <2>1 DEF RuntimeRows, Alive
  <2>5. x.pc = "spawned" /\ x.next = 1 /\ x.release = release
    BY <2>1, <2>3 DEF RuntimeRows
  <2>6. Outside(child, x)
    BY <2>4, <2>5, LatestAssumption DEF Outside, Answering
  <2>7. runtime' = [runtime EXCEPT ![child] = x] BY <1>2
  <2>. HIDE DEF x
  <2>. QED BY <1>2, <2>2, <2>6, <2>7, OutsideKeeps, NotHolding
<1>. QED BY <1>1, <1>2 DEF Spawns

----------------------------------------------------------------------------
(* Opening the database: a process that goes on has a release at least as  *)
(* new as the schema, and remembers the version it read.                   *)
LEMMA OpensKeeps ==
  ASSUME Core, NEW i \in Instances, Opens(i)
  PROVE  Core'
<1>. USE DEF Opens
<1>1. CASE schema.version > runtime[i].release BY <1>1, EndsKeeps
<1>2. CASE ~(schema.version > runtime[i].release)
  <2>. DEFINE x == [runtime[i] EXCEPT !.pc = "opening", !.next = schema.version + 1]
  <2>1. runtime[i] \in RuntimeRows /\ schema.version \in 0 .. LatestSchema
    BY DEF Core, RuntimeTypes, SchemaTypes
  <2>2. schema.version + 1 \in 1 .. LatestSchema + 1 BY <2>1, LatestAssumption
  <2>3. x \in RuntimeRows BY <2>1, <2>2 DEF RuntimeRows, Alive
  <2>4. x.pc = "opening" /\ x.next = schema.version + 1 /\ x.release = runtime[i].release
    BY <2>1 DEF RuntimeRows
  <2>5. schema.version <= runtime[i].release
    BY <1>2, <2>1, LatestAssumption DEF RuntimeRows
  <2>6. Outside(i, x)
    BY <2>1, <2>2, <2>3, <2>4, <2>5, LatestAssumption DEF Outside, Answering, RuntimeRows
  <2>7. runtime' = [runtime EXCEPT ![i] = x] BY <1>2
  <2>. HIDE DEF x
  <2>. QED BY <2>6, <2>7, OutsideKeeps, NotHolding
<1>. QED BY <1>1, <1>2

(* A process listens once nothing is pending: what it read, and what it    *)
(* has done since, is its release.                                         *)
LEMMA ListensKeeps ==
  ASSUME Core, NEW i \in Instances, Listens(i)
  PROVE  Core'
<1>1. PICK port \in Ports : runtime' = [runtime EXCEPT ![i].pc = "listening", ![i].port = port]
  BY DEF Listens
<1>. DEFINE x == [runtime[i] EXCEPT !.pc = "listening", !.port = port]
<1>2. runtime[i] \in RuntimeRows /\ runtime[i].next <= runtime[i].release + 1
      /\ schema.version \in 0 .. LatestSchema
  BY DEF Core, RuntimeTypes, SchemaTypes
<1>3. x \in RuntimeRows BY <1>2 DEF RuntimeRows, Alive
<1>4. x.pc = "listening" /\ x.next = runtime[i].next /\ x.release = runtime[i].release
  BY <1>2 DEF RuntimeRows
<1>5. runtime[i].next <= schema.version + 1 /\ ~(runtime[i].next <= runtime[i].release)
  BY DEF Listens, Pending, Core, Reading
<1>6. runtime[i].release <= schema.version
  BY <1>2, <1>5, LatestAssumption DEF RuntimeRows
<1>7. Outside(i, x) BY <1>2, <1>3, <1>4, <1>6 DEF Outside
<1>8. runtime' = [runtime EXCEPT ![i] = x] BY <1>1
<1>9. runtime[i].pc = "opening" /\ schema' = schema /\ draft' = draft BY DEF Listens
<1>. HIDE DEF x
<1>. QED BY <1>7, <1>8, <1>9, OutsideKeeps, NotHolding

(* BEGIN IMMEDIATE: nobody else has a transaction open.                    *)
LEMMA MigrationBeginsKeeps ==
  ASSUME Core, NEW i \in Instances, MigrationBegins(i)
  PROVE  Core'
<1>. USE DEF MigrationBegins
<1>1. CASE draft = None
  <2>. DEFINE x == [runtime[i] EXCEPT !.pc = "migrating"]
  <2>1. runtime[i] \in RuntimeRows /\ runtime[i].next <= runtime[i].release + 1
        /\ schema \in [version : 0 .. LatestSchema, tables : SUBSET (1 .. LatestSchema)]
    BY DEF Core, RuntimeTypes, SchemaTypes
  <2>2. x \in RuntimeRows /\ x.pc = "migrating" /\ x.next = runtime[i].next
        /\ x.release = runtime[i].release
    BY <2>1 DEF RuntimeRows, Alive
  <2>3. runtime' = [runtime EXCEPT ![i] = x] BY <1>1 DEF Goto
  <2>. HIDE DEF x
  <2>4. runtime' \in [Instances -> RuntimeRows] /\ runtime'[i] = x
        /\ \A j \in Instances \ {i} : runtime'[j] = runtime[j]
    BY <2>2, <2>3 DEF Core, RuntimeTypes
  <2>5. draft' = [by |-> i, version |-> schema.version, tables |-> schema.tables]
    BY <1>1
  <2>6. draft' \in Drafts /\ draft' # None
    BY <2>1, <2>5, NoneAssumption DEF Drafts
  <2>7. RuntimeTypes' BY <2>1, <2>2, <2>4 DEF Core, RuntimeTypes
  <2>8. SchemaTypes' /\ SchemaIsWhole' BY <2>6 DEF Core, SchemaTypes, SchemaIsWhole
  <2>9. Holder' BY <1>1, <2>2, <2>4, <2>5, <2>6 DEF Core, Holder
  <2>10. Reading' BY <2>2, <2>4 DEF Core, Reading
  <2>11. Migrating'
    BY <1>1, <2>2, <2>4, <2>5 DEF Core, Migrating, Holder, Pending
  <2>12. Migrated' BY <1>1, <2>2, <2>4 DEF Core, Migrated, Holder
  <2>13. Serving' BY <2>2, <2>4 DEF Core, Serving, Answering
  <2>. QED
    BY <2>7, <2>8, <2>9, <2>10, <2>11, <2>12, <2>13 DEF Core
<1>2. CASE draft # None BY <1>2, EndsKeeps
<1>. QED BY <1>1, <1>2

LEMMA DraftMoves ==
  ASSUME NEW d \in Drafts, NEW v \in 1 .. LatestSchema
  PROVE  LET e == [d EXCEPT !.version = v, !.tables = @ \cup {v}]
         IN e \in Drafts /\ e.by = d.by /\ e.version = v /\ e.tables = d.tables \cup {v}
<1>. DEFINE T == d.tables \cup {v}
<1>1. T \in SUBSET (1 .. LatestSchema) /\ v \in 0 .. LatestSchema
  BY LatestAssumption DEF Drafts
<1>. HIDE DEF T
<1>2. [d EXCEPT !.version = v, !.tables = T] \in Drafts BY <1>1 DEF Drafts
<1>. QED BY <1>2 DEF Drafts, T

(* The tables of the migration are in the transaction: the version that    *)
(* was read is the current one, or they would have been there.             *)
LEMMA MigrationRunsKeeps ==
  ASSUME Core, NEW i \in Instances, MigrationRuns(i)
  PROVE  Core'
<1>. USE DEF MigrationRuns
<1>. DEFINE v == runtime[i].next
<1>1. runtime[i] \in RuntimeRows /\ v <= runtime[i].release + 1
      /\ schema \in [version : 0 .. LatestSchema, tables : SUBSET (1 .. LatestSchema)]
      /\ runtime[i].pc = "migrating"
  BY DEF Core, RuntimeTypes, SchemaTypes
<1>2. /\ draft # None /\ draft.by = i /\ draft \in Drafts
      /\ draft.version = schema.version /\ draft.tables = schema.tables
      /\ v <= runtime[i].release /\ v <= schema.version + 1
  BY <1>1 DEF Core, Holder, SchemaTypes, Migrating, Reading
<1>3. CASE v \in draft.tables
  <2>1. draft' = None /\ Ends(i, "dead") /\ schema' = schema BY <1>3
  <2>2. Rollback(i) BY <1>2, <2>1 DEF Rollback
  <2>. QED BY <2>1, <2>2, EndsKeeps
<1>4. CASE v \notin draft.tables
  <2>. DEFINE x == [runtime[i] EXCEPT !.pc = "migrated"]
  <2>1. v = schema.version + 1
    BY <1>1, <1>2, <1>4, LatestAssumption DEF Core, SchemaIsWhole, RuntimeRows
  <2>2. x \in RuntimeRows /\ x.pc = "migrated" /\ x.next = v /\ x.release = runtime[i].release
    BY <1>1 DEF RuntimeRows, Alive
  <2>3. runtime' = [runtime EXCEPT ![i] = x] BY <1>4 DEF Goto
  <2>. HIDE DEF x
  <2>4. runtime' \in [Instances -> RuntimeRows] /\ runtime'[i] = x
        /\ \A j \in Instances \ {i} : runtime'[j] = runtime[j]
    BY <2>2, <2>3 DEF Core, RuntimeTypes
  <2>5. draft' = [draft EXCEPT !.version = v, !.tables = @ \cup {v}] BY <1>4
  <2>6. v \in 1 .. LatestSchema
    BY <1>1, <1>2, LatestAssumption DEF RuntimeRows
  <2>7. draft' \in Drafts /\ draft'.by = i /\ draft'.version = v
        /\ draft'.tables = draft.tables \cup {v}
    BY <1>2, <2>5, <2>6, DraftMoves
  <2>8. draft'.tables = 1 .. v
    BY <1>1, <1>2, <2>1, <2>7 DEF Core, SchemaIsWhole
  <2>9. draft' # None BY <2>7, NoneAssumption
  <2>10. RuntimeTypes' BY <1>1, <2>2, <2>4 DEF Core, RuntimeTypes
  <2>11. SchemaTypes' /\ SchemaIsWhole' BY <2>7 DEF Core, SchemaTypes, SchemaIsWhole
  <2>12. Holder' BY <1>2, <2>2, <2>4, <2>7, <2>9 DEF Core, Holder
  <2>13. Reading' BY <2>2, <2>4 DEF Core, Reading
  <2>14. Migrating' BY <1>2, <2>2, <2>4 DEF Core, Migrating, Holder
  <2>15. Migrated'
    <3>1. \A j \in Instances \ {i} : runtime'[j].pc # "migrated"
      BY <1>2, <2>4 DEF Core, Holder
    <3>2. schema' = schema BY <1>4
    <3>. QED BY <1>2, <2>1, <2>2, <2>4, <2>7, <2>8, <3>1, <3>2 DEF Migrated
  <2>16. Serving' BY <2>2, <2>4 DEF Core, Serving, Answering
  <2>. QED
    BY <2>10, <2>11, <2>12, <2>13, <2>14, <2>15, <2>16 DEF Core
<1>. QED BY <1>3, <1>4

(* A commit moves the schema on by one migration.                          *)
LEMMA MigrationCommitsKeeps ==
  ASSUME Core, NEW i \in Instances, MigrationCommits(i)
  PROVE  Core'
<1>. USE DEF MigrationCommits
<1>. DEFINE v == runtime[i].next
            x == [runtime[i] EXCEPT !.pc = "opening", !.next = v + 1]
<1>1. runtime[i] \in RuntimeRows /\ runtime[i].pc = "migrated"
      /\ schema.version \in 0 .. LatestSchema
  BY DEF Core, RuntimeTypes, SchemaTypes
<1>2. /\ draft # None /\ draft.by = i /\ draft \in Drafts
      /\ v <= runtime[i].release /\ v = schema.version + 1
      /\ draft.version = v /\ draft.tables = 1 .. v
  BY <1>1 DEF Core, Holder, SchemaTypes, Migrated
<1>3. v \in 1 .. LatestSchema /\ v + 1 \in 1 .. LatestSchema + 1
      /\ v + 1 <= runtime[i].release + 1
  BY <1>1, <1>2, LatestAssumption DEF RuntimeRows
<1>4. x \in RuntimeRows /\ x.pc = "opening" /\ x.next = v + 1 /\ x.release = runtime[i].release
  BY <1>1, <1>3 DEF RuntimeRows, Alive
<1>5. runtime' = [runtime EXCEPT ![i] = x] OBVIOUS
<1>. HIDE DEF x
<1>6. runtime' \in [Instances -> RuntimeRows] /\ runtime'[i] = x
      /\ \A j \in Instances \ {i} : runtime'[j] = runtime[j]
  BY <1>4, <1>5 DEF Core, RuntimeTypes
<1>7. /\ schema' = [version |-> draft.version, tables |-> draft.tables]
      /\ schema'.version = v /\ schema'.tables = 1 .. v /\ draft' = None
  BY <1>2
<1>8. RuntimeTypes' BY <1>3, <1>4, <1>6 DEF Core, RuntimeTypes
<1>9. SchemaTypes'
  <2>1. draft.version \in 0 .. LatestSchema /\ draft.tables \in SUBSET (1 .. LatestSchema)
    BY <1>2 DEF Drafts
  <2>. QED BY <1>7, <2>1 DEF SchemaTypes
<1>10. SchemaIsWhole' BY <1>7 DEF SchemaIsWhole
<1>11. Holder' BY <1>2, <1>4, <1>6, <1>7 DEF Core, Holder
<1>12. Reading'
  <2>1. ASSUME NEW j \in Instances \ {i}, runtime[j].pc \in {"opening", "migrating"}
        PROVE  runtime[j].next <= v + 1
    <3>1. runtime[j] \in RuntimeRows /\ runtime[j].next <= schema.version + 1
      BY <2>1 DEF Core, RuntimeTypes, Reading
    <3>. QED BY <1>1, <1>2, <3>1 DEF RuntimeRows
  <2>. QED BY <1>3, <1>4, <1>6, <1>7, <2>1 DEF Core, Reading
<1>13. Migrating' BY <1>2, <1>4, <1>6 DEF Core, Migrating, Holder
<1>14. Migrated' BY <1>2, <1>4, <1>6 DEF Core, Migrated, Holder
<1>15. Serving'
  <2>1. ASSUME NEW j \in Instances \ {i}, runtime[j].pc \in Answering
        PROVE  runtime[j].release <= v
    <3>1. runtime[j] \in RuntimeRows /\ runtime[j].release <= schema.version
      BY <2>1 DEF Core, RuntimeTypes, Serving
    <3>. QED BY <1>1, <1>2, <3>1 DEF RuntimeRows
  <2>. QED BY <1>4, <1>6, <1>7, <2>1 DEF Serving, Answering
<1>. QED
  BY <1>8, <1>9, <1>10, <1>11, <1>12, <1>13, <1>14, <1>15 DEF Core

(* Every step of a runtime process.                                        *)
LEMMA RuntimeStepKeeps ==
  ASSUME Core, NEW i \in Instances, RuntimeStep(i)
  PROVE  Core'
<1>1. CASE Publishes(i) BY <1>1, GotoKeeps DEF Publishes, Alive, Answering
<1>2. CASE Announces(i)
  <2>. DEFINE x == [runtime[i] EXCEPT !.pc = "ready", !.said = TRUE]
  <2>1. runtime[i] \in RuntimeRows /\ runtime[i].next <= runtime[i].release + 1
        /\ runtime[i].pc = "published" /\ schema' = schema /\ draft' = draft
    BY <1>2 DEF Announces, Core, RuntimeTypes
  <2>2. x \in RuntimeRows /\ x.pc = "ready" /\ x.next = runtime[i].next
        /\ x.release = runtime[i].release
    BY <2>1 DEF RuntimeRows, Alive
  <2>3. Outside(i, x) BY <2>1, <2>2 DEF Outside, Core, Serving, Answering
  <2>4. runtime' = [runtime EXCEPT ![i] = x] BY <1>2 DEF Announces
  <2>. HIDE DEF x
  <2>. QED BY <2>1, <2>3, <2>4, OutsideKeeps, NotHolding
<1>3. CASE Terminates(i) BY <1>3, SignalledKeeps DEF Terminates
<1>4. CASE ReadsRegistration(i)
  BY <1>4, GotoKeeps, EndsKeeps DEF ReadsRegistration, Alive, Answering
<1>5. CASE RemovesRegistration(i)
  <2>1. runtime[i].pc = "removing" /\ draft' = draft /\ schema' = schema
        /\ Ends(i, "stopped")
    BY <1>5 DEF RemovesRegistration
  <2>. QED BY <2>1, EndsKeeps
<1>6. CASE Crashes(i) BY <1>6, EndsKeeps DEF Crashes, Dies
<1>. QED
  BY <1>1, <1>2, <1>3, <1>4, <1>5, <1>6, OpensKeeps, ListensKeeps, MigrationBeginsKeeps,
     MigrationRunsKeeps, MigrationCommitsKeeps DEF RuntimeStep

(* A step that leaves processes and schema alone.                          *)
LEMMA ElsewhereKeeps ==
  ASSUME Core, UNCHANGED <<runtime, schema, draft>>
  PROVE  Core'
BY DEF Core, RuntimeTypes, SchemaTypes, SchemaIsWhole, Holder, Reading, Migrating,
       Migrated, Serving

----------------------------------------------------------------------------
CliRows == [pc : {"idle", "read", "health", "wait", "connected", "failed"},
            spawned : BOOLEAN, late : BOOLEAN, handshake : Instances \cup {None}]

ClientTypes ==
  /\ registry \in Instances \cup {None}
  /\ cli \in [Clis -> CliRows]
  /\ start \in [pc : {"idle", "handshake", "health", "running", "stopping", "ended", "failed"},
                child : Instances \cup {None}]
  /\ shell \in [pc : {"off", "reading", "stored", "emitted"},
                child : Instances \cup {None}, connection : Instances \cup {None}]
  /\ window \in [pc : {"mounting", "listening", "asked", "done"}, answer : Instances \cup {None},
                 shown : Instances \cup {None}]

IInv == Core /\ ClientTypes

LEMMA InitIInv == Init => IInv
<1>. SUFFICES ASSUME Init PROVE IInv OBVIOUS
<1>. USE DEF Init
<1>1. \A i \in Instances : runtime[i] = Unstarted OBVIOUS
<1>2. Unstarted \in RuntimeRows /\ Unstarted.next = 1 /\ Unstarted.release = 1
      /\ Unstarted.pc = "none"
  BY LatestAssumption DEF Unstarted, RuntimeRows
<1>3. RuntimeTypes BY <1>1, <1>2 DEF RuntimeTypes
<1>4. schema.version = 0 /\ schema.tables = {} /\ draft = None OBVIOUS
<1>5. SchemaTypes /\ SchemaIsWhole
  BY <1>4, LatestAssumption DEF SchemaTypes, SchemaIsWhole
<1>6. Holder /\ Reading /\ Migrating /\ Migrated /\ Serving
  BY <1>1, <1>2, <1>4 DEF Holder, Reading, Migrating, Migrated, Serving, Answering
<1>7. ClientTypes BY DEF ClientTypes, CliRows
<1>. QED BY <1>3, <1>5, <1>6, <1>7 DEF IInv, Core

LEMMA CliKeeps ==
  ASSUME IInv, NEW c \in Clis,
         InCli(Ensures(c)) \/ InCli(CliStep(c)) \/ InCli(DeadlinePasses(c))
  PROVE  IInv'
<1>1. Core'
  <2>1. CASE InCli(SpawnsRuntime(c))
    <3>1. CliReleases \in SUBSET (1 .. LatestSchema) BY ReleasesAssumption
    <3>. QED BY <2>1, <3>1, SpawnsKeeps DEF InCli, SpawnsRuntime, IInv
  <2>2. CASE UNCHANGED <<runtime, schema, draft>> BY <2>2, ElsewhereKeeps DEF IInv
  <2>. QED
    BY <2>1, <2>2 DEF InCli, Ensures, CliStep, DeadlinePasses, ReadsRegistry, Connects,
                      Waits, PollsAgain
<1>2. cli[c] \in CliRows /\ registry \in Instances \cup {None}
  BY DEF IInv, ClientTypes
<1>3. \E x \in CliRows : cli' = [cli EXCEPT ![c] = x]
  <2>1. CASE ReadsRegistry(c)
    <3>1. [cli[c] EXCEPT !.pc = "health", !.handshake = registry] \in CliRows
      BY <1>2 DEF CliRows
    <3>. QED BY <2>1, <3>1 DEF ReadsRegistry
  <2>2. CASE Connects(c)
    <3>1. [cli[c] EXCEPT !.pc = "connected"] \in CliRows BY <1>2 DEF CliRows
    <3>. QED BY <2>2, <3>1 DEF Connects
  <2>3. CASE SpawnsRuntime(c)
    <3>1. [cli[c] EXCEPT !.pc = "read", !.spawned = TRUE] \in CliRows
      BY <1>2 DEF CliRows
    <3>. QED BY <2>3, <3>1 DEF SpawnsRuntime
  <2>4. CASE Waits(c)
    <3>1. [cli[c] EXCEPT !.pc = "wait"] \in CliRows BY <1>2 DEF CliRows
    <3>. QED BY <2>4, <3>1 DEF Waits
  <2>5. CASE PollsAgain(c)
    <3>. DEFINE pc == IF cli[c].late THEN "failed" ELSE "read"
    <3>1. pc \in {"failed", "read"} OBVIOUS
    <3>2. cli' = [cli EXCEPT ![c].pc = pc] BY <2>5 DEF PollsAgain
    <3>. HIDE DEF pc
    <3>3. [cli[c] EXCEPT !.pc = pc] \in CliRows BY <1>2, <3>1 DEF CliRows
    <3>. QED BY <3>2, <3>3
  <2>6. CASE Ensures(c)
    <3>1. [cli[c] EXCEPT !.pc = "read"] \in CliRows BY <1>2 DEF CliRows
    <3>. QED BY <2>6, <3>1 DEF Ensures
  <2>7. CASE DeadlinePasses(c)
    <3>1. [cli[c] EXCEPT !.late = TRUE] \in CliRows BY <1>2 DEF CliRows
    <3>. QED BY <2>7, <3>1 DEF DeadlinePasses
  <2>. QED BY <2>1, <2>2, <2>3, <2>4, <2>5, <2>6, <2>7 DEF InCli, CliStep
<1>4. UNCHANGED <<registry, start, shell, window>> BY DEF InCli
<1>5. ClientTypes' BY <1>3, <1>4 DEF IInv, ClientTypes
<1>. QED BY <1>1, <1>5 DEF IInv

LEMMA StartKeeps ==
  ASSUME IInv, InStart(StartStep)
  PROVE  IInv'
<1>. USE DEF InStart, StartStep
<1>1. start.child \in Instances \cup {None} BY DEF IInv, ClientTypes
<1>2. Core'
  <2>1. CASE StartSpawns
    <3>1. CliReleases \in SUBSET (1 .. LatestSchema) BY ReleasesAssumption
    <3>. QED BY <2>1, <3>1, SpawnsKeeps DEF StartSpawns, IInv
  <2>2. CASE ChildRuns /\ Signalled(start.child)
    BY <1>1, <2>2, SignalledKeeps DEF IInv, ChildRuns
  <2>3. CASE UNCHANGED <<runtime, draft>> BY <2>3, ElsewhereKeeps DEF IInv
  <2>4. CASE ChildRuns /\ Dies(start.child)
    BY <1>1, <2>4, EndsKeeps DEF IInv, ChildRuns, Dies
  <2>. QED
    BY <2>1, <2>2, <2>3, <2>4 DEF StartReadsHandshake, StartGivesUp, StartChecks,
       StartStops, StartKills, StartEnds
<1>3. start' \in [pc : {"idle", "handshake", "health", "running", "stopping", "ended", "failed"},
                  child : Instances \cup {None}]
  BY DEF IInv, ClientTypes, StartSpawns, StartReadsHandshake, StartGivesUp, StartChecks,
         StartStops, StartKills, StartEnds, StartGoes
<1>. QED BY <1>2, <1>3 DEF IInv, ClientTypes

LEMMA DesktopKeeps ==
  ASSUME IInv, InDesktop(ShellSpawns) \/ InDesktop(DesktopStep)
  PROVE  IInv'
<1>. USE DEF InDesktop, DesktopStep
<1>1. Core'
  <2>1. CASE ShellSpawns
    <3>1. DesktopReleases \in SUBSET (1 .. LatestSchema) BY ReleasesAssumption
    <3>. QED BY <2>1, <3>1, SpawnsKeeps DEF ShellSpawns, IInv
  <2>2. CASE UNCHANGED runtime BY <2>2, ElsewhereKeeps DEF IInv
  <2>. QED
    BY <2>1, <2>2 DEF ShellStores, ShellEmits, WindowListens, WindowAsks, WindowShows
<1>2. shell' \in [pc : {"off", "reading", "stored", "emitted"},
                  child : Instances \cup {None}, connection : Instances \cup {None}]
  BY DEF IInv, ClientTypes, ShellSpawns, ShellStores, ShellEmits, WindowListens,
         WindowAsks, WindowShows
<1>3. window' \in [pc : {"mounting", "listening", "asked", "done"},
                   answer : Instances \cup {None}, shown : Instances \cup {None}]
  <2>1. CASE WindowShows
    <3>. DEFINE n == IF window.answer = None THEN window.shown ELSE window.answer
    <3>1. n \in Instances \cup {None} BY DEF IInv, ClientTypes
    <3>2. window' = [window EXCEPT !.pc = "done", !.shown = n] BY <2>1 DEF WindowShows
    <3>. HIDE DEF n
    <3>. QED BY <3>1, <3>2 DEF IInv, ClientTypes
  <2>2. CASE ~WindowShows
    BY <2>2 DEF IInv, ClientTypes, ShellSpawns, ShellStores, ShellEmits, WindowListens,
                WindowAsks
  <2>. QED BY <2>1, <2>2
<1>. QED BY <1>1, <1>2, <1>3 DEF IInv, ClientTypes

LEMMA NextIInv == IInv /\ [Next]_vars => IInv'
<1>. SUFFICES ASSUME IInv, [Next]_vars PROVE IInv' OBVIOUS
<1>1. ASSUME NEW i \in Instances, InRuntime(i) PROVE IInv'
  <2>1. RuntimeStep(i) /\ UNCHANGED <<cli, start, shell, window>>
    BY <1>1 DEF InRuntime
  <2>2. Core' BY <2>1, RuntimeStepKeeps DEF IInv
  <2>3. registry' \in {registry, i, None}
    BY <2>1 DEF RuntimeStep, Opens, MigrationBegins, MigrationRuns, MigrationCommits,
                Listens, Publishes, Announces, Terminates, ReadsRegistration,
                RemovesRegistration, Crashes
  <2>. QED BY <2>1, <2>2, <2>3 DEF IInv, ClientTypes
<1>2. CASE UNCHANGED vars BY <1>2, ElsewhereKeeps DEF vars, IInv, ClientTypes
<1>. QED BY <1>1, <1>2, CliKeeps, StartKeeps, DesktopKeeps DEF Next

(* What the code knows wherever a runtime or a client is, as one invariant *)
(* that every step of any of them preserves.                               *)
THEOREM Inductive == Spec => []IInv
BY InitIInv, NextIInv, PTL DEF Spec

(* Processes, the database, the discovery file and the clients stay well   *)
(* formed.                                                                 *)
THEOREM TypeCorrect == Spec => []TypeOK
<1>1. IInv => TypeOK
  BY DEF IInv, Core, ClientTypes, RuntimeTypes, SchemaTypes, TypeOK, RuntimeRows, CliRows
<1>. QED BY <1>1, Inductive, PTL

(* Migrations take effect as a whole and in order (applyMigrations).       *)
THEOREM WholeSchema == Spec => []SchemaIsWhole
<1>1. IInv => SchemaIsWhole BY DEF IInv, Core
<1>. QED BY <1>1, Inductive, PTL

(* Only a commit changes the database, and Migrated says what it commits.  *)
LEMMA OnlyCommitsMigrate ==
  ASSUME IInv, Next, ~\E i \in Instances : MigrationCommits(i)
  PROVE  schema' = schema
<1>1. ASSUME NEW i \in Instances, InRuntime(i) PROVE schema' = schema
  BY <1>1 DEF InRuntime, RuntimeStep, Opens, MigrationBegins, MigrationRuns, Listens,
              Publishes, Announces, Terminates, ReadsRegistration, RemovesRegistration,
              Crashes
<1>. QED BY <1>1 DEF Next, InCli, InStart, InDesktop

LEMMA CommitsInOrder ==
  ASSUME Core, NEW i \in Instances, MigrationCommits(i)
  PROVE  schema' = [version |-> schema.version + 1,
                    tables |-> schema.tables \cup {schema.version + 1}]
<1>1. /\ draft.version = schema.version + 1 /\ draft.tables = 1 .. schema.version + 1
      /\ schema.tables = 1 .. schema.version /\ schema.version \in Nat
  BY DEF MigrationCommits, Core, Migrated, SchemaIsWhole, SchemaTypes
<1>2. 1 .. schema.version + 1 = (1 .. schema.version) \cup {schema.version + 1} BY <1>1
<1>. QED BY <1>1, <1>2 DEF MigrationCommits

(* A process that read an old version cannot repeat or undo a migration:   *)
(* BEGIN IMMEDIATE and the tables that are there already stop it.          *)
THEOREM OrderedMigrations == Spec => MigrationsAreOrdered
<1>. DEFINE Turn == schema' # schema =>
                      schema' = [version |-> schema.version + 1,
                                 tables |-> schema.tables \cup {schema.version + 1}]
<1>1. IInv /\ [Next]_vars => [Turn]_vars
  <2>. SUFFICES ASSUME IInv, Next PROVE Turn OBVIOUS
  <2>1. CASE \E i \in Instances : MigrationCommits(i) BY <2>1, CommitsInOrder DEF IInv
  <2>2. CASE ~\E i \in Instances : MigrationCommits(i) BY <2>2, OnlyCommitsMigrate
  <2>. QED BY <2>1, <2>2
<1>. QED BY <1>1, Inductive, PTL DEF Spec, MigrationsAreOrdered

(* No runtime answers without the tables of its release (createRuntime-    *)
(* Services opens the database before the API listens).                    *)
THEOREM TablesBeforeService == Spec => []ServesOnItsTables
<1>1. IInv => ServesOnItsTables
  <2>. SUFFICES ASSUME IInv, NEW i \in Instances, runtime[i].pc \in Answering
                PROVE  1 .. runtime[i].release \subseteq schema.tables
    BY DEF ServesOnItsTables
  <2>1. runtime[i].release <= schema.version /\ schema.tables = 1 .. schema.version
    BY DEF IInv, Core, Serving, SchemaIsWhole
  <2>2. runtime[i].release \in 1 .. LatestSchema /\ schema.version \in 0 .. LatestSchema
    BY DEF IInv, Core, RuntimeTypes, RuntimeRows, SchemaTypes
  <2>. QED BY <2>1, <2>2, LatestAssumption
<1>. QED BY <1>1, Inductive, PTL

----------------------------------------------------------------------------
(* What EnsureEnds rests on: past its deadline a CLI comes nearer to its   *)
(* end with each step. No file that appears, no runtime that stops         *)
(* answering and no second spawn takes it back (ensureRuntime).            *)
CliStage(p) == CASE p = "read" -> 3 [] p = "health" -> 2 [] p = "wait" -> 1 [] OTHER -> 0
DeadlineHolds ==
  [][\A c \in Clis : cli[c].late =>
       /\ cli'[c].late
       /\ cli'[c] # cli[c] => CliStage(cli'[c].pc) < CliStage(cli[c].pc)]_vars

(* A deadline is set when a runtime is spawned, so a CLI past it has left  *)
(* the part of ensureRuntime that spawns.                                  *)
Overdue ==
  \A c \in Clis : /\ cli[c].late => cli[c].spawned
                  /\ cli[c].spawned => cli[c].pc # "idle"

(* What a step does to the CLI it is of, and that it is of one at most.    *)
LEMMA CliMoves ==
  ASSUME IInv, Overdue, [Next]_vars, NEW c \in Clis
  PROVE  /\ cli[c].late =>
              /\ cli'[c].late
              /\ cli'[c] # cli[c] => CliStage(cli'[c].pc) < CliStage(cli[c].pc)
         /\ cli'[c].late => cli'[c].spawned
         /\ cli'[c].spawned => cli'[c].pc # "idle"
<1>. DEFINE Moves == /\ cli[c].late =>
                          /\ cli'[c].late
                          /\ cli'[c] # cli[c] => CliStage(cli'[c].pc) < CliStage(cli[c].pc)
                     /\ cli'[c].late => cli'[c].spawned
                     /\ cli'[c].spawned => cli'[c].pc # "idle"
<1>1. ASSUME cli' = cli PROVE Moves BY <1>1 DEF Overdue
<1>2. cli \in [Clis -> CliRows] BY DEF IInv, ClientTypes
<1>3. ASSUME NEW b \in Clis, InCli(Ensures(b)) \/ InCli(CliStep(b)) \/ InCli(DeadlinePasses(b))
      PROVE  Moves
  <2>1. CASE b # c
    <3>1. cli'[c] = cli[c]
      BY <1>2, <1>3, <2>1 DEF InCli, Ensures, CliStep, DeadlinePasses, ReadsRegistry, Connects,
         SpawnsRuntime, Waits, PollsAgain
    <3>. QED BY <3>1 DEF Overdue
  <2>2. CASE b = c
    <3>1. CASE Ensures(c) BY <1>2, <3>1 DEF Ensures, Overdue, CliRows
    <3>2. CASE DeadlinePasses(c) BY <1>2, <3>2 DEF DeadlinePasses, Overdue, CliRows
    <3>3. CASE ReadsRegistry(c)
      BY <1>2, <3>3 DEF ReadsRegistry, Overdue, CliRows, CliStage
    <3>4. CASE Connects(c)
      BY <1>2, <3>4 DEF Connects, Overdue, CliRows, CliStage
    <3>5. CASE SpawnsRuntime(c)
      BY <1>2, <3>5 DEF SpawnsRuntime, Overdue, CliRows
    <3>6. CASE Waits(c)
      BY <1>2, <3>6 DEF Waits, Undiscovered, Overdue, CliRows, CliStage
    <3>7. CASE PollsAgain(c)
      BY <1>2, <3>7 DEF PollsAgain, Overdue, CliRows, CliStage
    <3>. QED BY <1>3, <2>2, <3>1, <3>2, <3>3, <3>4, <3>5, <3>6, <3>7 DEF InCli, CliStep
  <2>. QED BY <2>1, <2>2
<1>. QED
  BY <1>1, <1>3 DEF Next, vars, InRuntime, InStart, InDesktop

(* For any number of CLIs, runtimes and releases: a deadline that has      *)
(* passed is final, and each step after it is one nearer to the end.       *)
THEOREM FinalDeadlines == Spec => DeadlineHolds
<1>. DEFINE Holds == \A c \in Clis : cli[c].late =>
                       /\ cli'[c].late
                       /\ cli'[c] # cli[c] => CliStage(cli'[c].pc) < CliStage(cli[c].pc)
<1>1. Init => Overdue BY DEF Init, Overdue
<1>2. IInv /\ Overdue /\ [Next]_vars => Overdue'
  <2>. SUFFICES ASSUME IInv, Overdue, [Next]_vars, NEW c \in Clis
                PROVE  /\ cli'[c].late => cli'[c].spawned
                       /\ cli'[c].spawned => cli'[c].pc # "idle"
    BY DEF Overdue
  <2>. QED BY CliMoves
<1>3. IInv /\ Overdue /\ [Next]_vars => [Holds]_vars
  <2>. SUFFICES ASSUME IInv, Overdue, Next PROVE Holds OBVIOUS
  <2>. QED BY CliMoves
<1>. QED BY <1>1, <1>2, <1>3, Inductive, PTL DEF Spec, DeadlineHolds

----------------------------------------------------------------------------
(* What a step does to a process: one that has ended stays as it is, and   *)
(* what was announced stays announced.                                     *)
Endures ==
  \A i \in Instances :
    /\ runtime[i].pc \in {"stopped", "dead"} => runtime'[i].pc = runtime[i].pc
    /\ runtime[i].pc # "none" => runtime'[i].pc # "none"
    /\ runtime[i].said => runtime'[i].said

LEMMA GotoEndures ==
  ASSUME Core, NEW i \in Instances, IsAlive(i), NEW pc, pc # "none", Goto(i, pc)
  PROVE  Endures
BY DEF Endures, Core, RuntimeTypes, RuntimeRows, IsAlive, Alive, Goto

LEMMA EndsEndures ==
  ASSUME Core, NEW i \in Instances, IsAlive(i), NEW pc, pc # "none", Ends(i, pc)
  PROVE  Endures
BY DEF Endures, Core, RuntimeTypes, RuntimeRows, IsAlive, Alive, Ends, Unstarted

LEMMA SignalledEndures ==
  ASSUME Core, NEW i \in Instances, Signalled(i)
  PROVE  Endures
<1>1. CASE UNCHANGED runtime BY <1>1 DEF Endures
<1>2. CASE IsAlive(i) /\ Goto(i, "closing") BY <1>2, GotoEndures
<1>3. CASE IsAlive(i) /\ Ends(i, "dead") BY <1>3, EndsEndures
<1>. QED BY <1>1, <1>2, <1>3 DEF Signalled, Dies, IsAlive, Alive

LEMMA SpawnsEndures ==
  ASSUME Core, NEW child \in Instances \cup {None}, NEW releases, Spawns(child, releases)
  PROVE  Endures
<1>1. CASE UNCHANGED runtime BY <1>1 DEF Endures
<1>2. CASE ~UNCHANGED runtime
  <2>1. PICK release \in releases, pid \in Pids :
          /\ child \in Instances
          /\ \A i \in Instances : runtime[i].pc = "none" <=> i >= child
          /\ runtime' = [runtime EXCEPT ![child] =
               [runtime[child] EXCEPT !.pc = "spawned", !.release = release, !.pid = pid]]
    BY <1>2 DEF Spawns
  <2>2. runtime[child].pc = "none" BY <2>1 DEF Instances
  <2>. QED BY <2>1, <2>2 DEF Endures, Core, RuntimeTypes, RuntimeRows
<1>. QED BY <1>1, <1>2

LEMMA RuntimeStepEndures ==
  ASSUME Core, NEW i \in Instances, RuntimeStep(i)
  PROVE  Endures
<1>. USE DEF IsAlive, Alive
<1>1. CASE Opens(i)
  <2>1. CASE Ends(i, "dead") BY <1>1, <2>1, EndsEndures DEF Opens
  <2>2. CASE ~Ends(i, "dead")
    BY <1>1, <2>2 DEF Opens, Endures, Core, RuntimeTypes, RuntimeRows
  <2>. QED BY <2>1, <2>2
<1>2. CASE MigrationBegins(i)
  BY <1>2, GotoEndures, EndsEndures DEF MigrationBegins
<1>3. CASE MigrationRuns(i)
  BY <1>3, GotoEndures, EndsEndures DEF MigrationRuns
<1>4. CASE MigrationCommits(i) \/ Listens(i) \/ Announces(i)
  BY <1>4 DEF MigrationCommits, Listens, Announces, Endures, Core, RuntimeTypes, RuntimeRows
<1>5. CASE Publishes(i) BY <1>5, GotoEndures DEF Publishes
<1>6. CASE Terminates(i) BY <1>6, SignalledEndures DEF Terminates
<1>7. CASE ReadsRegistration(i)
  BY <1>7, GotoEndures, EndsEndures DEF ReadsRegistration
<1>8. CASE RemovesRegistration(i) BY <1>8, EndsEndures DEF RemovesRegistration
<1>9. CASE Crashes(i) BY <1>9, EndsEndures DEF Crashes, Dies
<1>. QED BY <1>1, <1>2, <1>3, <1>4, <1>5, <1>6, <1>7, <1>8, <1>9 DEF RuntimeStep

LEMMA NextEndures == ASSUME IInv, [Next]_vars PROVE Endures
<1>1. ASSUME UNCHANGED runtime PROVE Endures BY <1>1 DEF Endures
<1>2. ASSUME NEW i \in Instances, InRuntime(i) PROVE Endures
  BY <1>2, RuntimeStepEndures DEF InRuntime, IInv
<1>3. ASSUME NEW c \in Clis, InCli(Ensures(c)) \/ InCli(CliStep(c)) \/ InCli(DeadlinePasses(c))
      PROVE  Endures
  <2>1. CASE SpawnsRuntime(c)
    <3>1. PICK child \in Instances \cup {None} : Spawns(child, CliReleases)
      BY <2>1 DEF SpawnsRuntime
    <3>. QED BY <3>1, SpawnsEndures DEF IInv
  <2>2. CASE ~SpawnsRuntime(c)
    BY <1>1, <1>3, <2>2 DEF InCli, Ensures, CliStep, DeadlinePasses, ReadsRegistry, Connects,
       Waits, PollsAgain
  <2>. QED BY <2>1, <2>2
<1>4. ASSUME InStart(StartStep) PROVE Endures
  <2>1. CASE StartSpawns
    <3>1. PICK child \in Instances \cup {None} : Spawns(child, CliReleases)
      BY <2>1 DEF StartSpawns
    <3>. QED BY <3>1, SpawnsEndures DEF IInv
  <2>2. CASE UNCHANGED runtime BY <1>1, <2>2
  <2>3. CASE ChildRuns /\ (Signalled(start.child) \/ Dies(start.child))
    <3>1. start.child \in Instances BY <2>3 DEF ChildRuns, IInv, ClientTypes
    <3>. QED BY <2>3, <3>1, SignalledEndures, EndsEndures DEF ChildRuns, Dies, IInv
  <2>. QED
    BY <1>4, <2>1, <2>2, <2>3 DEF InStart, StartStep, StartReadsHandshake, StartGivesUp,
       StartChecks, StartStops, StartKills, StartEnds
<1>5. ASSUME InDesktop(ShellSpawns) \/ InDesktop(DesktopStep) PROVE Endures
  <2>1. CASE ShellSpawns
    <3>1. PICK child \in Instances : Spawns(child, DesktopReleases)
      BY <2>1 DEF ShellSpawns
    <3>. QED BY <3>1, SpawnsEndures DEF IInv
  <2>2. CASE UNCHANGED runtime BY <1>1, <2>2
  <2>. QED
    BY <1>5, <2>1, <2>2 DEF InDesktop, DesktopStep, ShellStores, ShellEmits, WindowListens,
       WindowAsks, WindowShows
<1>. QED BY <1>1, <1>2, <1>3, <1>4, <1>5 DEF Next, vars

(* What StopEnds rests on: the foreground command waits for the child it   *)
(* spawned and no less, and a child that has ended does not come back,     *)
(* whatever other processes start and with whatever pid (stopChild).       *)
StopWaitsForChild ==
  [][start.pc = "stopping" =>
       /\ start'.child = start.child
       /\ start'.pc # "stopping" => ~ChildRuns'
       /\ ~ChildRuns => ~ChildRuns']_vars

(* Who has a child has spawned it.                                         *)
Parents ==
  /\ start.child # None => runtime[start.child].pc # "none"
  /\ shell.child # None => runtime[shell.child].pc # "none"

LEMMA SpawnedIsThere ==
  ASSUME Core, NEW child \in Instances, NEW releases, Spawns(child, releases)
  PROVE  runtime'[child].pc # "none"
<1>1. child # None BY NoneAssumption
<1>2. PICK release \in releases, pid \in Pids :
        runtime' = [runtime EXCEPT ![child] =
          [runtime[child] EXCEPT !.pc = "spawned", !.release = release, !.pid = pid]]
  BY <1>1 DEF Spawns
<1>. QED BY <1>2 DEF Core, RuntimeTypes, RuntimeRows

LEMMA ParentsKept == ASSUME IInv, Parents, [Next]_vars PROVE Parents'
<1>1. Endures BY NextEndures
<1>2. start'.child # None => runtime'[start'.child].pc # "none"
  <2>1. CASE InStart(StartSpawns)
    <3>1. PICK child \in Instances \cup {None} :
            Spawns(child, CliReleases) /\ start' = [pc |-> "handshake", child |-> child]
      BY <2>1 DEF InStart, StartSpawns
    <3>. QED BY <3>1, SpawnedIsThere DEF IInv
  <2>2. CASE ~InStart(StartSpawns)
    <3>1. start'.child = start.child /\ start.child \in Instances \cup {None}
      BY <2>2 DEF Next, vars, InRuntime, InCli, InDesktop, InStart, StartStep,
         StartReadsHandshake, StartGivesUp, StartChecks, StartStops, StartKills, StartEnds,
         StartGoes, IInv, ClientTypes
    <3>. QED BY <1>1, <3>1 DEF Parents, Endures
  <2>. QED BY <2>1, <2>2
<1>3. shell'.child # None => runtime'[shell'.child].pc # "none"
  <2>1. CASE InDesktop(ShellSpawns)
    <3>1. PICK child \in Instances :
            /\ Spawns(child, DesktopReleases)
            /\ shell' = [shell EXCEPT !.pc = "reading", !.child = child]
      BY <2>1 DEF InDesktop, ShellSpawns
    <3>2. shell'.child = child BY <3>1 DEF IInv, ClientTypes
    <3>. QED BY <3>1, <3>2, SpawnedIsThere DEF IInv
  <2>2. CASE ~InDesktop(ShellSpawns)
    <3>1. shell'.child = shell.child /\ shell.child \in Instances \cup {None}
      BY <2>2 DEF Next, vars, InRuntime, InCli, InDesktop, InStart, DesktopStep, ShellStores,
         ShellEmits, WindowListens, WindowAsks, WindowShows, IInv, ClientTypes
    <3>. QED BY <1>1, <3>1 DEF Parents, Endures
  <2>. QED BY <2>1, <2>2
<1>. QED BY <1>2, <1>3 DEF Parents

(* Who waits for a child is not released before it, nor by another process.*)
THEOREM StopWaits == Spec => StopWaitsForChild
<1>. DEFINE Holds == start.pc = "stopping" =>
                       /\ start'.child = start.child
                       /\ start'.pc # "stopping" => ~ChildRuns'
                       /\ ~ChildRuns => ~ChildRuns'
<1>1. IInv /\ Parents /\ [Next]_vars => [Holds]_vars
  <2>. SUFFICES ASSUME IInv, Parents, Next, start.pc = "stopping"
                PROVE  /\ start'.child = start.child
                       /\ start'.pc # "stopping" => ~ChildRuns'
                       /\ ~ChildRuns => ~ChildRuns'
    OBVIOUS
  <2>1. \/ start' = start
        \/ start' = [start EXCEPT !.pc = "ended"] /\ ~ChildRuns /\ UNCHANGED runtime
    BY DEF Next, InRuntime, InCli, InDesktop, InStart, StartStep, StartSpawns,
       StartReadsHandshake, StartGivesUp, StartChecks, StartStops, StartKills, StartEnds,
       StartGoes
  <2>2. start'.child = start.child /\ start.child \in Instances \cup {None}
    BY <2>1 DEF IInv, ClientTypes
  <2>3. start'.pc # "stopping" => ~ChildRuns'
    BY <2>1, <2>2 DEF ChildRuns, IsAlive
  <2>4. ASSUME ~ChildRuns PROVE ~ChildRuns'
    <3>1. CASE start.child = None BY <2>2, <3>1 DEF ChildRuns
    <3>2. CASE start.child # None
      <4>1. start.child \in Instances BY <2>2, <3>2
      <4>2. runtime[start.child].pc \in {"stopped", "dead"}
        BY <2>4, <3>2, <4>1 DEF ChildRuns, IsAlive, Parents, IInv, Core, RuntimeTypes, RuntimeRows
      <4>3. runtime'[start.child].pc \in {"stopped", "dead"}
        BY <4>1, <4>2, NextEndures DEF Endures
      <4>. QED BY <2>2, <4>3 DEF ChildRuns, IsAlive, Alive
    <3>. QED BY <3>1, <3>2
  <2>. QED BY <2>2, <2>3, <2>4
<1>2. Init => Parents
  BY DEF Init, Parents
<1>. QED BY <1>1, <1>2, ParentsKept, Inductive, PTL DEF Spec, StopWaitsForChild

----------------------------------------------------------------------------
(* Whichever of window and sidecar was first, the window shows only what   *)
(* the sidecar has announced, and when both have done their part it does:  *)
(* the event is never emitted between a question answered with nothing and *)
(* a listener that is not there yet (App listens before it asks).          *)
WindowIsInformed ==
  /\ window.shown # None => window.shown = shell.child /\ runtime[shell.child].said
  /\ (shell.pc = "emitted" /\ shell.child # None /\ window.pc = "done") =>
       window.shown = shell.child

(* What shell and window have of the sidecar.  Once the shell has emitted, *)
(* the window has still to ask, or has the answer, or shows the sidecar.   *)
Informed ==
  /\ shell.pc = "off" => shell.connection = None
  /\ shell.connection # None =>
       shell.connection = shell.child /\ runtime[shell.child].said
  /\ window.answer # None => window.answer = shell.connection
  /\ window.shown # None => window.shown = shell.connection
  /\ (shell.pc \in {"stored", "emitted"} /\ shell.child # None) =>
       shell.connection = shell.child
  /\ (shell.pc = "emitted" /\ shell.child # None) =>
       \/ window.pc \in {"mounting", "listening"}
       \/ window.pc = "asked" /\ window.answer = shell.child
       \/ window.shown = shell.child

LEMMA InformedKept == ASSUME IInv, Informed, [Next]_vars PROVE Informed'
<1>1. Endures BY NextEndures
<1>2. CASE UNCHANGED <<shell, window>>
  <2>1. shell.child \in Instances \cup {None} /\ shell.connection \in Instances \cup {None}
    BY DEF IInv, ClientTypes
  <2>. QED BY <1>1, <1>2, <2>1 DEF Informed, Endures
<1>3. CASE InDesktop(ShellSpawns)
  <2>1. PICK child \in Instances :
          shell' = [shell EXCEPT !.pc = "reading", !.child = child]
    BY <1>3 DEF InDesktop, ShellSpawns
  <2>. QED BY <1>3, <2>1 DEF InDesktop, ShellSpawns, Informed, IInv, ClientTypes
<1>4. CASE InDesktop(DesktopStep)
  <2>. USE DEF Informed, IInv, ClientTypes
  <2>1. UNCHANGED runtime
    BY <1>4 DEF InDesktop, DesktopStep, ShellStores, ShellEmits, WindowListens, WindowAsks,
       WindowShows
  <2>2. CASE ShellStores BY <2>1, <2>2 DEF ShellStores
  <2>3. CASE ShellEmits
    <3>1. shell'.pc = "emitted" /\ shell'.child = shell.child
          /\ shell'.connection = shell.connection
      BY <2>3 DEF ShellEmits
    <3>2. CASE window.pc = "mounting" BY <2>1, <2>3, <3>1, <3>2 DEF ShellEmits
    <3>3. CASE window.pc # "mounting"
      <4>1. window'.shown = shell.connection /\ window'.answer = window.answer
            /\ window'.pc = window.pc
        BY <2>3, <3>3 DEF ShellEmits
      <4>. QED BY <2>1, <2>3, <3>1, <4>1 DEF ShellEmits
    <3>. QED BY <3>2, <3>3
  <2>4. CASE WindowListens BY <2>1, <2>4 DEF WindowListens
  <2>5. CASE WindowAsks BY <2>1, <2>5 DEF WindowAsks
  <2>6. CASE WindowShows
    <3>1. window'.pc = "done" /\ window'.answer = window.answer
          /\ window'.shown = IF window.answer = None THEN window.shown ELSE window.answer
      BY <2>6 DEF WindowShows
    <3>. QED BY <2>1, <2>6, <3>1, NoneAssumption DEF WindowShows
  <2>. QED BY <1>4, <2>2, <2>3, <2>4, <2>5, <2>6 DEF InDesktop, DesktopStep
<1>. QED BY <1>2, <1>3, <1>4 DEF Next, vars, InRuntime, InCli, InStart

(* For any number of processes: the notification of the window is not lost.*)
THEOREM InformedWindow == Spec => []WindowIsInformed
<1>1. Init => Informed BY DEF Init, Informed
<1>2. IInv /\ Informed => WindowIsInformed BY DEF Informed, WindowIsInformed, IInv, ClientTypes
<1>. QED BY <1>1, <1>2, InformedKept, Inductive, PTL DEF Spec
=============================================================================
