-------------------------- MODULE RuntimeDiscovery --------------------------
(***************************************************************************)
(* How a runtime process comes up and how its clients find it: the         *)
(* migrations of the shared database, the local API with its launch token, *)
(* the discovery file runtime.json, the CLI's ensureRuntime, the           *)
(* foreground command `nw runtime start`, and the desktop shell with its   *)
(* sidecar and its window.                                                 *)
(*                                                                         *)
(* A runtime instance stands for its launch token, which is random: the    *)
(* handshake of instance i is i itself, with runtime[i].pid and            *)
(* runtime[i].port.  Process ids and ports are reused, tokens never.       *)
(* Releases differ by their latest migration; two of them may share the    *)
(* database, for the desktop carries a runtime of its own.                 *)
(***************************************************************************)
EXTENDS Naturals

CONSTANTS MaxInstances, \* runtime processes, each started at most once
          Clis,        \* CLI processes, each calling ensureRuntime once
          Scenes,      \* which of "start" and "desktop" there are
          Pids, Ports, \* what the operating system hands out
          CliReleases, DesktopReleases, \* the releases they spawn
          LatestSchema, \* LATEST_SCHEMA_VERSION of the newest release
          None

Instances == 1 .. MaxInstances

ASSUME BoundAssumption == MaxInstances \in Nat
ASSUME LatestAssumption == LatestSchema \in Nat \ {0}
ASSUME ReleasesAssumption == CliReleases \cup DesktopReleases \subseteq 1 .. LatestSchema
(* A transaction: its process, and the database as that process sees it.   *)
Drafts == [by : Instances, version : 0 .. LatestSchema, tables : SUBSET (1 .. LatestSchema)]

ASSUME NoneAssumption == None \notin Instances \cup Pids \cup Ports \cup Drafts

VARIABLES
  runtime,   \* instance -> the process and where main() waits
  schema,    \* the database: its version, and the migrations its tables are of
  draft,     \* the open transaction of a migration, or None
  registry,  \* runtime.json: the handshake it holds, or None
  cli,       \* CLI -> where ensureRuntime waits
  start,     \* where `nw runtime start` waits
  shell,     \* RuntimeState of the desktop shell, and its sidecar
  window     \* the effect of App that connects, and what it shows

vars == <<runtime, schema, draft, registry, cli, start, shell, window>>

Unstarted == [pc |-> "none", release |-> 1, next |-> 1, pid |-> None, port |-> None,
              said |-> FALSE]

Alive == {"spawned", "opening", "migrating", "migrated", "listening", "published", "ready", "closing", "removing", "failed"}
(* main().catch sets the exit code and no more: a process that has begun   *)
(* to listen goes on answering, unregistered ("failed").                   *)
Answering == {"listening", "published", "ready", "failed"}
IsAlive(i) == runtime[i].pc \in Alive

TypeOK ==
  /\ runtime \in [Instances -> [pc : Alive \cup {"none", "stopped", "dead"},
                                release : 1 .. LatestSchema, next : 1 .. LatestSchema + 1,
                                pid : Pids \cup {None}, port : Ports \cup {None},
                                said : BOOLEAN]]
  /\ \A i \in Instances : runtime[i].next <= runtime[i].release + 1
  /\ schema \in [version : 0 .. LatestSchema, tables : SUBSET (1 .. LatestSchema)]
  /\ draft \in {None} \cup Drafts
  /\ registry \in Instances \cup {None}
  /\ cli \in [Clis -> [pc : {"idle", "read", "health", "wait", "connected", "failed"},
                       spawned : BOOLEAN, late : BOOLEAN,
                       handshake : Instances \cup {None}]]
  /\ start \in [pc : {"idle", "handshake", "health", "running", "stopping", "ended", "failed"},
                child : Instances \cup {None}]
  /\ shell \in [pc : {"off", "reading", "stored", "emitted"},
                child : Instances \cup {None}, connection : Instances \cup {None}]
  /\ window \in [pc : {"mounting", "listening", "asked", "done"}, answer : Instances \cup {None},
                 shown : Instances \cup {None}]

(* Every scene begins with no process and an empty data directory.         *)
Init ==
  /\ runtime = [i \in Instances |-> Unstarted]
  /\ schema = [version |-> 0, tables |-> {}]
  /\ draft = None /\ registry = None
  /\ cli = [c \in Clis |-> [pc |-> "idle", spawned |-> FALSE, late |-> FALSE,
                            handshake |-> None]]
  /\ \E scene \in Scenes :
       /\ start = [pc |-> IF "start" \in scene THEN "idle" ELSE "ended", child |-> None]
       /\ shell = [pc |-> IF "desktop" \in scene THEN "off" ELSE "emitted",
                   child |-> None, connection |-> None]
       /\ window = [pc |-> IF "desktop" \in scene THEN "mounting" ELSE "done",
                    answer |-> None, shown |-> None]

---------------------------------------------------------------------------
(* A runtime process: main().                                              *)

Goto(i, pc) == runtime' = [runtime EXCEPT ![i].pc = pc]

(* What others may remember of a process that ended.                       *)
Ends(i, pc) ==
  runtime' = [runtime EXCEPT ![i] = [Unstarted EXCEPT !.pc = pc, !.pid = runtime[i].pid,
                                       !.port = runtime[i].port, !.said = runtime[i].said]]

(* A process of some release starts, as the next instance, with a pid that *)
(* is free.  None is a child that ends before it opens the database.       *)
Spawns(child, releases) ==
  \/ child = None /\ UNCHANGED runtime
  \/ \E release \in releases, pid \in Pids :
       /\ child \in Instances
       /\ \A i \in Instances : runtime[i].pc = "none" <=> i >= child
       /\ pid = CHOOSE p \in Pids : \A i \in Instances : IsAlive(i) => runtime[i].pid # p
       /\ runtime' = [runtime EXCEPT ![child] =
                        [@ EXCEPT !.pc = "spawned", !.release = release, !.pid = pid]]

(* getSchemaVersion reads outside a transaction; a newer schema is refused. *)
Opens(i) ==
  /\ runtime[i].pc = "spawned"
  /\ IF schema.version > runtime[i].release
     THEN Ends(i, "dead")
     ELSE runtime' = [runtime EXCEPT ![i].pc = "opening", ![i].next = schema.version + 1]
  /\ UNCHANGED <<schema, draft, registry>>

(* Mutated form of Pending: the last migration is left out.                *)
PendingShort(i) == runtime[i].next < runtime[i].release

Pending(i) == runtime[i].next <= runtime[i].release

(* Each migration above the version read is one transaction; BEGIN         *)
(* IMMEDIATE waits for the writer, five seconds at most.                   *)
MigrationBegins(i) ==
  /\ runtime[i].pc = "opening" /\ Pending(i)
  /\ IF draft = None
     THEN /\ draft' = [by |-> i, version |-> schema.version, tables |-> schema.tables]
          /\ Goto(i, "migrating")
     ELSE UNCHANGED draft /\ Ends(i, "dead")
  /\ UNCHANGED <<schema, registry>>

(* Mutated form of MigrationRuns: tables outside the transaction.          *)
MigrationRunsUnprotected(i) ==
  LET v == runtime[i].next IN
  /\ runtime[i].pc = "migrating"
  /\ IF v \in schema.tables
     THEN draft' = None /\ Ends(i, "dead") /\ UNCHANGED schema
     ELSE /\ draft' = [draft EXCEPT !.version = v, !.tables = @ \cup {v}]
          /\ schema' = [schema EXCEPT !.tables = @ \cup {v}]
          /\ Goto(i, "migrated")
  /\ UNCHANGED registry

(* Mutated form of MigrationRuns: tables are created if they do not exist. *)
MigrationRunsIfMissing(i) ==
  LET v == runtime[i].next IN
  /\ runtime[i].pc = "migrating"
  /\ draft' = [draft EXCEPT !.version = v, !.tables = @ \cup {v}]
  /\ Goto(i, "migrated")
  /\ UNCHANGED <<schema, registry>>

(* The migration creates its tables, which fails when they are there, and  *)
(* then writes its version.                                                *)
MigrationRuns(i) ==
  LET v == runtime[i].next IN
  /\ runtime[i].pc = "migrating"
  /\ IF v \in draft.tables
     THEN draft' = None /\ Ends(i, "dead")
     ELSE /\ draft' = [draft EXCEPT !.version = v, !.tables = @ \cup {v}]
          /\ Goto(i, "migrated")
  /\ UNCHANGED <<schema, registry>>

MigrationCommits(i) ==
  /\ runtime[i].pc = "migrated"
  /\ schema' = [version |-> draft.version, tables |-> draft.tables]
  /\ draft' = None
  /\ runtime' = [runtime EXCEPT ![i].pc = "opening", ![i].next = @ + 1]
  /\ UNCHANGED registry

(* app.listen on port 0: the system picks a port that nobody holds, here   *)
(* always the same one if it can, so that a port comes back.               *)
Listens(i) ==
  /\ runtime[i].pc = "opening" /\ ~Pending(i)
  /\ LET free(q) == \A j \in Instances : runtime[j].pc \in Answering => runtime[j].port # q
     IN \E port \in Ports :
          /\ port = CHOOSE q \in Ports : free(q)
          /\ runtime' = [runtime EXCEPT ![i].pc = "listening", ![i].port = port]
  /\ UNCHANGED <<schema, draft, registry>>

(* publishRuntimeRegistry: the rename that ends it replaces what was there. *)
Publishes(i) ==
  /\ runtime[i].pc = "listening"
  /\ \/ registry' = i /\ Goto(i, "published")
     \/ UNCHANGED registry /\ Goto(i, "failed")
  /\ UNCHANGED <<schema, draft>>

(* The handshake goes to stdout, and from here signals are handled.        *)
Announces(i) ==
  /\ runtime[i].pc = "published"
  /\ runtime' = [runtime EXCEPT ![i].pc = "ready", ![i].said = TRUE]
  /\ UNCHANGED <<schema, draft, registry>>

(* A process that ends drops its transaction and nothing else.             *)
Rollback(i) == draft' = IF draft # None /\ draft.by = i THEN None ELSE draft

Dies(i) == Ends(i, "dead") /\ Rollback(i)

Crashes(i) ==
  /\ IsAlive(i) /\ Dies(i)
  /\ UNCHANGED <<schema, registry>>

(* SIGTERM: the default action until the handlers are there.               *)
Signalled(i) ==
  CASE ~IsAlive(i) \/ runtime[i].pc \in {"closing", "removing"} -> UNCHANGED <<runtime, draft>>
    [] runtime[i].pc = "ready" -> Goto(i, "closing") /\ UNCHANGED draft
    [] OTHER -> Dies(i)

Terminates(i) ==
  /\ runtime[i].pc = "ready" /\ Signalled(i)
  /\ UNCHANGED <<schema, registry>>

(* removeRuntimeRegistry, after app.close: the file is read, and removed if *)
(* it has this process's pid.                                               *)
Registered(i) == registry # None /\ runtime[registry].pid = runtime[i].pid

ReadsRegistration(i) ==
  /\ runtime[i].pc = "closing"
  /\ IF Registered(i) THEN Goto(i, "removing") ELSE Ends(i, "stopped")
  /\ UNCHANGED <<schema, draft, registry>>

RemovesRegistration(i) ==
  /\ runtime[i].pc = "removing"
  /\ registry' = None /\ Ends(i, "stopped")
  /\ UNCHANGED <<schema, draft>>

---------------------------------------------------------------------------
(* The local API.                                                          *)

(* installLocalAuth: a request is answered when its token is the launch    *)
(* token of the process that holds the port.                               *)
Authorized(j, handshake) == j = handshake

Answerer(handshake) ==
  {j \in Instances : /\ runtime[j].pc \in Answering
                     /\ runtime[j].port = runtime[handshake].port
                     /\ Authorized(j, handshake)}

---------------------------------------------------------------------------
(* ensureRuntime of a CLI.                                                 *)

(* discoverRuntime: no file, or no answer, is no runtime.                  *)
ReadsRegistry(c) ==
  /\ cli[c].pc = "read" /\ registry # None
  /\ cli' = [cli EXCEPT ![c].pc = "health", ![c].handshake = registry]
  /\ UNCHANGED runtime

Connects(c) ==
  /\ cli[c].pc = "health"
  /\ Answerer(cli[c].handshake) # {}
  /\ cli' = [cli EXCEPT ![c].pc = "connected"]
  /\ UNCHANGED runtime

Undiscovered(c) ==
  \/ cli[c].pc = "read" /\ registry = None
  \/ cli[c].pc = "health" /\ Answerer(cli[c].handshake) = {}

(* The first time, a runtime is spawned, detached, and nothing of it is    *)
(* kept; then the file is polled until the deadline.                       *)
SpawnsRuntime(c) ==
  /\ Undiscovered(c) /\ ~cli[c].spawned
  /\ \E child \in Instances \cup {None} : Spawns(child, CliReleases)
  /\ cli' = [cli EXCEPT ![c].pc = "read", ![c].spawned = TRUE]

Waits(c) ==
  /\ Undiscovered(c) /\ cli[c].spawned
  /\ cli' = [cli EXCEPT ![c].pc = "wait"]
  /\ UNCHANGED runtime

(* Mutated form of PollsAgain: no deadline.                                *)
PollsForever(c) ==
  /\ cli[c].pc = "wait" /\ cli' = [cli EXCEPT ![c].pc = "read"]
  /\ UNCHANGED runtime

PollsAgain(c) ==
  /\ cli[c].pc = "wait"
  /\ cli' = [cli EXCEPT ![c].pc = IF cli[c].late THEN "failed" ELSE "read"]
  /\ UNCHANGED runtime

Ensures(c) ==
  /\ cli[c].pc = "idle" /\ cli' = [cli EXCEPT ![c].pc = "read"]
  /\ UNCHANGED runtime

CliStep(c) ==
  ReadsRegistry(c) \/ Connects(c) \/ SpawnsRuntime(c) \/ Waits(c) \/ PollsAgain(c)

DeadlinePasses(c) ==
  /\ cli[c].spawned /\ ~cli[c].late /\ cli[c].pc \notin {"connected", "failed"}
  /\ cli' = [cli EXCEPT ![c].late = TRUE]
  /\ UNCHANGED runtime

---------------------------------------------------------------------------
(* `nw runtime start`: startRuntime, a health request, and stopChild.      *)

ChildRuns == start.child # None /\ IsAlive(start.child)
StartGoes(pc) == start' = [start EXCEPT !.pc = pc]

StartSpawns ==
  /\ start.pc = "idle"
  /\ \E child \in Instances \cup {None} :
       Spawns(child, CliReleases) /\ start' = [pc |-> "handshake", child |-> child]
  /\ UNCHANGED draft

StartReadsHandshake ==
  /\ start.pc = "handshake" /\ start.child # None /\ runtime[start.child].said
  /\ StartGoes("health")
  /\ UNCHANGED <<runtime, draft>>

(* The exit of the child, or fifteen seconds without a line.               *)
StartGivesUp ==
  /\ start.pc = "handshake" /\ StartGoes("failed")
  /\ IF ChildRuns THEN Signalled(start.child) ELSE UNCHANGED <<runtime, draft>>

StartChecks ==
  /\ start.pc = "health"
  /\ StartGoes(IF Answerer(start.child) # {} THEN "running" ELSE "failed")
  /\ UNCHANGED <<runtime, draft>>

StartStops ==
  /\ start.pc = "running" /\ ChildRuns
  /\ StartGoes("stopping") /\ Signalled(start.child)

(* Mutated form of StartKills: SIGTERM once more.                          *)
StartTerminatesAgain ==
  /\ start.pc = "stopping" /\ ChildRuns
  /\ Signalled(start.child)
  /\ UNCHANGED start

(* A child still there after five seconds is killed.                       *)
StartKills ==
  /\ start.pc = "stopping" /\ ChildRuns
  /\ Dies(start.child)
  /\ UNCHANGED start

StartEnds ==
  /\ start.pc \in {"running", "stopping"} /\ ~ChildRuns
  /\ StartGoes("ended")
  /\ UNCHANGED <<runtime, draft>>

StartStep == \/ StartSpawns \/ StartReadsHandshake \/ StartGivesUp \/ StartChecks
             \/ StartStops \/ StartKills \/ StartEnds

---------------------------------------------------------------------------
(* The desktop: start_runtime of the shell, and the effect of App.         *)

ShellSpawns ==
  /\ shell.pc = "off"
  /\ \E child \in Instances :
       /\ Spawns(child, DesktopReleases)
       /\ shell' = [shell EXCEPT !.pc = "reading", !.child = child]
  /\ UNCHANGED window

ShellStores ==
  /\ shell.pc = "reading" /\ runtime[shell.child].said
  /\ shell' = [shell EXCEPT !.pc = "stored", !.connection = shell.child]
  /\ UNCHANGED <<runtime, window>>

(* runtime-ready reaches the listeners that are registered by now.         *)
ShellEmits ==
  /\ shell.pc = "stored"
  /\ shell' = [shell EXCEPT !.pc = "emitted"]
  /\ window' = IF window.pc = "mounting" THEN window
               ELSE [window EXCEPT !.shown = shell.connection]
  /\ UNCHANGED runtime

WindowListens ==
  /\ window.pc = "mounting" /\ window' = [window EXCEPT !.pc = "listening"]
  /\ UNCHANGED <<runtime, shell>>

(* Mutated form of WindowAsks: it asks without having listened.            *)
WindowAsksOnly ==
  /\ window.pc = "mounting"
  /\ window' = [window EXCEPT !.pc = "asked", !.answer = shell.connection]
  /\ UNCHANGED <<runtime, shell>>

WindowAsks ==
  /\ window.pc = "listening"
  /\ window' = [window EXCEPT !.pc = "asked", !.answer = shell.connection]
  /\ UNCHANGED <<runtime, shell>>

WindowShows ==
  /\ window.pc = "asked"
  /\ window' = [window EXCEPT !.pc = "done",
                              !.shown = IF window.answer = None THEN @ ELSE window.answer]
  /\ UNCHANGED <<runtime, shell>>

DesktopStep == ShellStores \/ ShellEmits \/ WindowListens \/ WindowAsks \/ WindowShows

---------------------------------------------------------------------------
RuntimeStep(i) ==
  \/ Opens(i) \/ MigrationBegins(i) \/ MigrationRuns(i) \/ MigrationCommits(i)
  \/ Listens(i) \/ Publishes(i) \/ Announces(i)
  \/ Terminates(i) \/ ReadsRegistration(i) \/ RemovesRegistration(i) \/ Crashes(i)

InRuntime(i) == RuntimeStep(i) /\ UNCHANGED <<cli, start, shell, window>>
InCli(A) == A /\ UNCHANGED <<schema, draft, registry, start, shell, window>>
InStart(A) == A /\ UNCHANGED <<schema, registry, cli, shell, window>>
InDesktop(A) == A /\ UNCHANGED <<schema, draft, registry, cli, start>>

Next ==
  \/ \E i \in Instances : InRuntime(i)
  \/ \E c \in Clis : InCli(Ensures(c)) \/ InCli(CliStep(c)) \/ InCli(DeadlinePasses(c))
  \/ InStart(StartStep)
  \/ InDesktop(ShellSpawns) \/ InDesktop(DesktopStep)

Spec == Init /\ [][Next]_vars

(* Promises settle, timers fire and events are delivered.  A runtime is    *)
(* promised nothing: it may hang anywhere, in app.close too.               *)
Fairness ==
  /\ \A c \in Clis : WF_vars(InCli(CliStep(c))) /\ WF_vars(InCli(DeadlinePasses(c)))
  /\ WF_vars(InStart(StartKills))
  /\ WF_vars(InDesktop(DesktopStep))

FairSpec == Spec /\ Fairness

---------------------------------------------------------------------------
(* The database holds the tables of exactly the migrations its version     *)
(* counts, whichever process of whichever release died in the middle of    *)
(* one, and however two of them migrated at once (applyMigrations).        *)
SchemaIsWhole == schema.tables = 1 .. schema.version

(* A migration is applied once and in its turn: no process skips one,      *)
(* repeats one, or writes back the version of an earlier one, though it    *)
(* read the version before it had the database to itself.                  *)
MigrationsAreOrdered ==
  [][schema' # schema =>
       schema' = [version |-> schema.version + 1,
                  tables |-> schema.tables \cup {schema.version + 1}]]_vars

(* A process that answers requests has the tables its release uses, also   *)
(* when another one did the migrating.                                     *)
ServesOnItsTables ==
  \A i \in Instances :
    runtime[i].pc \in Answering => 1 .. runtime[i].release \subseteq schema.tables

(* ensureRuntime ends, with a connection or with an error, whatever becomes *)
(* of the runtime it spawned.                                              *)
EnsureEnds ==
  \A c \in Clis : cli[c].pc # "idle" ~> cli[c].pc \in {"connected", "failed"}

(* A stopped foreground runtime is gone in the end, though its shutdown may *)
(* hang (stopChild).                                                       *)
StopEnds == start.pc = "stopping" ~> ~ChildRuns

(* Once the sidecar has announced itself, the window shows its connection, *)
(* whichever of the two was ready first (start_runtime, App).              *)
DesktopBecomesReady ==
  (shell.child # None /\ runtime[shell.child].said) ~> window.shown = shell.child
=============================================================================
