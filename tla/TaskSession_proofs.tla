------------------------- MODULE TaskSession_proofs --------------------------
(***************************************************************************)
(* Proofs about TaskSession, for any number of runs, containers, profiles, *)
(* models and releases.                                                    *)
(*                                                                         *)
(* Nearly everything that has to be known is local to a run: Fine relates  *)
(* its row, its coroutine, its handle and its sandbox.  A step of a run    *)
(* replaces some of the four by others that are Fine (RunStep); a step of  *)
(* the probe or of a request touches none (ElsewhereKeeps).  Containers    *)
(* are what runs share, and Shelved says whose each of them is.            *)
(***************************************************************************)
EXTENDS TaskSession, TLAPS

(* Where the coroutine has a handle, good for the run's binding.           *)
Holding == {"opening", "unwinding", "packing", "seeding", "discarding", "joining",
            "leaving", "asking"}
Planned == {"PLANNING", "EXECUTING"}

Typed(t, co, h, sb) ==
  /\ t \in Rows \cup {None} /\ co \in Coroutines
  /\ h \in Handles \cup {None} /\ sb \in Boxes \cup {None}

(* Nobody has a handle while nothing drives the run; a driver that is      *)
(* preparing or asking has one for the binding, whose release is the       *)
(* installed one; the driver left in #active has one that cannot be        *)
(* disposed of.                                                            *)
Held(t, co, h) ==
  /\ co.pc \in {"idle", "scheduled", "sweeping", "swept"} => h = None
  /\ co.pc \in Holding =>
       /\ h # None /\ t # None /\ t.binding # None
       /\ ~h.stuck /\ (co.pc # "opening" => h.key)
       /\ h.selection = t.binding.selection /\ t.binding.sdk = release
  /\ co.pc = "zombie" => h # None /\ h.stuck

(* Only a run that has ended is cleaned up; one without a binding was      *)
(* paused by recovery, without a status to resume, and never begins.       *)
Rowed(t, co, sb) ==
  /\ t = None => co.pc = "idle" /\ sb = None
  /\ co.pc \in {"cleanup", "removed", "sweeping", "swept"} => t.status \in TerminalStatuses
  /\ (sb # None /\ sb.status = "DESTROYED") => t.status \in TerminalStatuses
  /\ (t # None /\ t.binding = None) =>
       /\ t.resume = None /\ co.pc \in {"idle", "sweeping", "swept"}
       /\ t.status \in Working => process \in {"down", "failed"}

(* A run that was ever planned has its sandbox, and one that is getting    *)
(* a sandbox has none; the row read before the preflight tells which.      *)
Placed(t, co, sb) ==
  /\ (t # None /\ t.binding # None /\ (t.status \in Planned \/ t.resume \in Planned))
       => sb # None
  /\ co.pc = "opening" => co.seen \in Working /\ (co.seen \in Planned => sb # None)
  /\ co.pc \in {"packing", "seeding", "discarding"} => sb = None
  /\ co.pc \in {"joining", "asking", "removed", "swept"} => sb # None
  /\ (co.pc \in Holding /\ sb # None) => sb.status = "READY"
  /\ co.box # None <=> co.pc \in {"seeding", "discarding"}

Fine(t, co, h, sb) ==
  Typed(t, co, h, sb) /\ Held(t, co, h) /\ Rowed(t, co, sb) /\ Placed(t, co, sb)

RunsFine == \A r \in Runs : Fine(task[r], live[r], handle[r], sandbox[r])

(* A container is in the hands of one coroutine, or of one row.            *)
Shelved ==
  /\ \A r \in Runs : live[r].box # None => container[live[r].box] = "starting"
  /\ \A r \in Runs : sandbox[r] # None =>
       container[sandbox[r].id] \in {"ready", "stopped", "gone"}
  /\ \A r, s \in Runs : r # s =>
       /\ live[r].box # None => live[r].box # live[s].box
       /\ (sandbox[r] # None /\ sandbox[s] # None) => sandbox[r].id # sandbox[s].id
  /\ \A c \in Containers :
       /\ container[c] = "starting" => \E r \in Runs : live[r].box = c
       /\ container[c] \in {"ready", "stopped"} =>
            \E r \in Runs : sandbox[r] # None /\ sandbox[r].id = c

(* The probe drops its handle whenever it ends.                            *)
Probed == probe = "idle" <=> handle[Probe] = None

(* Nothing runs in a process that is not there.                            *)
Resting == process \in {"down", "failed"} => \A r \in Runs : live[r].pc = "idle"

IInv == TypeOK /\ RunsFine /\ Shelved /\ Probed /\ Resting

----------------------------------------------------------------------------
(* What one run's step must leave behind for the others' sake.             *)
LEMMA Same ==
  ASSUME TypeOK, NEW r \in Runs
  PROVE  /\ task = [task EXCEPT ![r] = task[r]] /\ live = [live EXCEPT ![r] = live[r]]
         /\ handle = [handle EXCEPT ![r] = handle[r]]
         /\ sandbox = [sandbox EXCEPT ![r] = sandbox[r]]
BY OwnersAssumption DEF TypeOK, ServiceTypeOK

LEMMA GeneralStep ==
  ASSUME IInv, NEW r \in Runs, NEW t, NEW co, NEW h, NEW sb, Fine(t, co, h, sb),
         process \in {"down", "failed"} => co.pc = "idle",
         task' = [task EXCEPT ![r] = t], live' = [live EXCEPT ![r] = co],
         handle' = [handle EXCEPT ![r] = h], sandbox' = [sandbox EXCEPT ![r] = sb],
         container' \in [Containers -> ContainerStates],
         UNCHANGED <<release, preference, keyring, process, probe>>, Shelved'
  PROVE  IInv'
<1>. USE DEF IInv
<1>1. r \in Owners /\ r # Probe /\ Runs \subseteq Owners BY OwnersAssumption
<1>2. TypeOK' BY <1>1 DEF TypeOK, ServiceTypeOK, Fine, Typed
<1>3. Fine(t, co, h, sb)' BY DEF Fine, Typed, Held, Rowed, Placed
<1>4. ASSUME NEW s \in Runs PROVE Fine(task[s], live[s], handle[s], sandbox[s])'
  <2>1. CASE s = r
    <3>1. task'[s] = t /\ live'[s] = co /\ handle'[s] = h /\ sandbox'[s] = sb
      BY <1>1, <2>1 DEF TypeOK, ServiceTypeOK
    <3>. QED BY <1>3, <3>1 DEF Fine, Typed, Held, Rowed, Placed
  <2>2. CASE s # r
    <3>1. /\ task'[s] = task[s] /\ live'[s] = live[s]
          /\ handle'[s] = handle[s] /\ sandbox'[s] = sandbox[s]
      BY <1>1, <2>2 DEF TypeOK, ServiceTypeOK
    <3>2. Fine(task[s], live[s], handle[s], sandbox[s]) BY DEF RunsFine
    <3>. QED BY <3>1, <3>2 DEF Fine, Typed, Held, Rowed, Placed
  <2>. QED BY <2>1, <2>2
<1>5. Probed' BY <1>1 DEF Probed, TypeOK, ServiceTypeOK
<1>6. Resting' BY DEF Resting, TypeOK
<1>. QED BY <1>2, <1>4, <1>5, <1>6 DEF RunsFine

(* Most steps of a run touch no container.                                 *)
LEMMA ShelvesKept ==
  ASSUME Shelved, \A s \in Runs : live'[s].box = live[s].box,
         UNCHANGED <<sandbox, container>>
  PROVE  Shelved'
BY DEF Shelved

LEMMA RunStep ==
  ASSUME IInv, NEW r \in Runs, NEW t, NEW co, NEW h, Fine(t, co, h, sandbox[r]),
         co.box = live[r].box, process \in {"down", "failed"} => co.pc = "idle",
         task' = [task EXCEPT ![r] = t], live' = [live EXCEPT ![r] = co],
         handle' = [handle EXCEPT ![r] = h],
         UNCHANGED <<release, preference, keyring, process, sandbox, container, probe>>
  PROVE  IInv'
<1>1. Shelved' BY ShelvesKept DEF IInv, TypeOK
<1>2. sandbox' = [sandbox EXCEPT ![r] = sandbox[r]] BY Same DEF IInv
<1>. QED BY <1>1, <1>2, GeneralStep DEF IInv, TypeOK

----------------------------------------------------------------------------
LEMMA Here ==
  ASSUME IInv, NEW r \in Runs
  PROVE  /\ Fine(task[r], live[r], handle[r], sandbox[r])
         /\ process \in {"down", "failed"} => live[r].pc = "idle"
         /\ handle[r] \in Handles \cup {None}
         /\ live[r] \in Coroutines /\ task[r] \in Rows \cup {None}
BY DEF IInv, RunsFine, Resting, Fine, Typed

LEMMA Moved ==
  ASSUME IInv, NEW r \in Runs, NEW pc \in Pcs
  PROVE  LET co == [live[r] EXCEPT !.pc = pc]
         IN /\ co \in Coroutines /\ co.pc = pc /\ co.box = live[r].box /\ co.seen = live[r].seen
            /\ Goto(r, pc) => live' = [live EXCEPT ![r] = co]
BY Here DEF Coroutines, Goto, IInv, TypeOK

LEMMA Thrown ==
  ASSUME NEW r \in Runs, NEW f \in Reasons \cup {"error", "rejected"}
  PROVE  LET co == [Idle EXCEPT !.pc = "catch", !.fault = f]
         IN /\ co \in Coroutines /\ co.pc = "catch" /\ co.box = None
            /\ Throw(r, f) => live' = [live EXCEPT ![r] = co]
<1>. DEFINE co == [Idle EXCEPT !.pc = "catch", !.fault = f]
<1>1. f \in Reasons \cup {"error", "rejected", None} OBVIOUS
<1>2. co \in Coroutines /\ co.pc = "catch" /\ co.box = None
  BY <1>1 DEF Idle, Coroutines, Pcs
<1>3. Throw(r, f) => live' = [live EXCEPT ![r] = co] BY DEF Throw
<1>. QED BY <1>2, <1>3

(* The coroutine lets go: nothing is asked of what it holds while the      *)
(* error is on its way to the catch clause, and while the driver is        *)
(* disposed of.                                                            *)
LEMMA LetsGo ==
  ASSUME IInv, NEW r \in Runs, live[r].pc \in Holding,
         NEW co \in Coroutines, co.pc = "catch", co.box = None, NEW h \in Handles \cup {None}
  PROVE  Fine(task[r], co, h, sandbox[r])
<1>1. Fine(task[r], live[r], handle[r], sandbox[r]) BY Here
<1>2. task[r] # None /\ task[r].binding # None BY <1>1 DEF Fine, Held
<1>3. Typed(task[r], co, h, sandbox[r]) BY <1>1 DEF Fine, Typed
<1>4. Held(task[r], co, h) BY DEF Held, Holding
<1>5. Rowed(task[r], co, sandbox[r]) BY <1>1, <1>2 DEF Fine, Rowed
<1>6. Placed(task[r], co, sandbox[r]) BY <1>1, <1>2 DEF Fine, Placed, Holding
<1>. QED BY <1>3, <1>4, <1>5, <1>6 DEF Fine

LEMMA SomeReasons ==
  /\ \A e \in Failures, o \in BOOLEAN : Classify(e, o) \in Reasons
  /\ {"MODEL_UNAVAILABLE", "MODEL_TEMPORARILY_UNAVAILABLE"} \subseteq Reasons
  /\ {"MODEL_BINDING_MISSING", "MODEL_CREDENTIAL_MISSING"} \subseteq Reasons
<1>1. \A e \in Failures, o \in BOOLEAN : Classify(e, o) \in Reasons BY DEF Reasons
<1>2. Classify("404", FALSE) = "MODEL_UNAVAILABLE" BY DEF Classify, ByStatus
<1>3. Classify("5xx", FALSE) = "MODEL_TEMPORARILY_UNAVAILABLE" BY DEF Classify, ByStatus
<1>4. "404" \in Failures /\ "5xx" \in Failures BY DEF Failures
<1>5. {"MODEL_BINDING_MISSING", "MODEL_CREDENTIAL_MISSING"} \subseteq Reasons BY DEF Reasons
<1>. QED BY <1>1, <1>2, <1>3, <1>4, <1>5

LEMMA ThrowWith ==
  ASSUME IInv, NEW r \in Runs, live[r].pc \in Holding, live[r].box = None,
         NEW f \in Reasons \cup {"error", "rejected"}, Throw(r, f),
         NEW h \in Handles \cup {None}, handle' = [handle EXCEPT ![r] = h],
         UNCHANGED <<release, preference, keyring, process, task, sandbox, container, probe>>
  PROVE  IInv'
<1>. DEFINE co == [Idle EXCEPT !.pc = "catch", !.fault = f]
<1>1. co \in Coroutines /\ co.pc = "catch" /\ co.box = None
      /\ live' = [live EXCEPT ![r] = co]
  BY Thrown
<1>2. process \notin {"down", "failed"} BY Here DEF Holding
<1>3. task' = [task EXCEPT ![r] = task[r]] BY Same DEF IInv
<1>. HIDE DEF co
<1>4. Fine(task[r], co, h, sandbox[r]) BY <1>1, LetsGo
<1>. QED BY <1>1, <1>2, <1>3, <1>4, RunStep

LEMMA ThrowKeeps ==
  ASSUME IInv, NEW r \in Runs, live[r].pc \in Holding, live[r].box = None,
         NEW f \in Reasons \cup {"error", "rejected"}, Throw(r, f),
         handle' = handle \/ handle' = [handle EXCEPT ![r] = None],
         UNCHANGED <<release, preference, keyring, process, task, sandbox, container, probe>>
  PROVE  IInv'
<1>1. handle = [handle EXCEPT ![r] = handle[r]] /\ handle[r] \in Handles \cup {None}
  BY Same, Here DEF IInv
<1>2. \E h \in Handles \cup {None} : handle' = [handle EXCEPT ![r] = h] BY <1>1
<1>. QED BY <1>2, ThrowWith

(* The coroutine goes on, with what it holds.                              *)
LEMMA GotoKeeps ==
  ASSUME IInv, NEW r \in Runs, NEW pc \in Pcs, Goto(r, pc), live[r].pc # "idle",
         NEW t, NEW h, Fine(t, [live[r] EXCEPT !.pc = pc], h, sandbox[r]),
         task' = [task EXCEPT ![r] = t], handle' = [handle EXCEPT ![r] = h],
         UNCHANGED <<release, preference, keyring, process, sandbox, container, probe>>
  PROVE  IInv'
<1>. DEFINE co == [live[r] EXCEPT !.pc = pc]
<1>1. co \in Coroutines /\ co.pc = pc /\ co.box = live[r].box
      /\ live' = [live EXCEPT ![r] = co]
  BY Moved
<1>2. process \notin {"down", "failed"} BY Here
<1>. HIDE DEF co
<1>3. Fine(t, co, h, sandbox[r]) BY DEF co
<1>. QED BY <1>1, <1>2, <1>3, RunStep

LEMMA GoOn ==
  ASSUME IInv, NEW r \in Runs, NEW pc \in Pcs, Goto(r, pc), live[r].pc # "idle",
         Fine(task[r], [live[r] EXCEPT !.pc = pc], handle[r], sandbox[r]),
         UNCHANGED <<serviceVars, process, task, sandbox, container, probe>>
  PROVE  IInv'
<1>1. task' = [task EXCEPT ![r] = task[r]] /\ handle' = [handle EXCEPT ![r] = handle[r]]
  BY Same DEF IInv, serviceVars
<1>. QED BY <1>1, GotoKeeps DEF serviceVars

LEMMA HoldingHasRow ==
  ASSUME IInv, NEW r \in Runs, live[r].pc \in Holding
  PROVE  /\ task[r] # None /\ task[r] \in Rows /\ task[r].binding # None
         /\ handle[r] # None /\ handle[r] \in Handles /\ ~handle[r].stuck
         /\ handle[r].selection = task[r].binding.selection /\ task[r].binding.sdk = release
         /\ live[r].pc # "opening" => handle[r].key
         /\ live[r].pc # "idle"
BY Here DEF Fine, Held, Holding

LEMMA InstalledFacts ==
  ASSUME IInv, NEW r \in Runs, live[r].pc = "opening", handle' = Installed(r)
  PROVE  \E h \in Handles :
           /\ handle' = [handle EXCEPT ![r] = h] /\ h.key /\ ~h.stuck /\ h # None
           /\ h.selection = task[r].binding.selection
<1>. DEFINE h == [handle[r] EXCEPT !.key = TRUE]
<1>1. handle[r] \in Handles /\ ~handle[r].stuck
      /\ handle[r].selection = task[r].binding.selection
  BY HoldingHasRow DEF Holding
<1>2. h \in Handles /\ h.key /\ ~h.stuck /\ h.selection = handle[r].selection
  BY <1>1 DEF Handles
<1>3. h # None BY <1>2, NoneAssumption
<1>4. handle' = [handle EXCEPT ![r] = h] BY DEF Installed
<1>. QED BY <1>1, <1>2, <1>3, <1>4

(* prepareRun's checkpoint loses no sandbox.                               *)
LEMMA PreparedFacts ==
  ASSUME IInv, NEW r \in Runs, live[r].pc \in Holding
  PROVE  \E t \in Rows : /\ Prepared(r) = [task EXCEPT ![r] = t] /\ t # None
                         /\ t.binding = task[r].binding /\ t.resume = None
                         /\ t.status = IF task[r].status = "PREPARING" THEN "PLANNING"
                                       ELSE task[r].status
<1>1. task[r] \in Rows BY HoldingHasRow
<1>. DEFINE t == [task[r] EXCEPT !.resume = None,
                                 !.status = IF task[r].status = "PREPARING" THEN "PLANNING"
                                            ELSE task[r].status]
<1>2. t \in Rows /\ t.binding = task[r].binding /\ t.resume = None
      /\ t.status = IF task[r].status = "PREPARING" THEN "PLANNING" ELSE task[r].status
  BY <1>1 DEF Rows, Statuses, Working
<1>3. t # None BY <1>2, NoneAssumption
<1>4. Prepared(r) = [task EXCEPT ![r] = t] BY DEF Prepared
<1>. QED BY <1>2, <1>3, <1>4

(* Finally leaves no more than a row that has ended, if it says so.        *)
LEMMA FinallyFacts ==
  ASSUME NEW r \in Runs, NEW status, Finally(r, status)
  PROVE  \E co \in Coroutines :
           /\ live' = [live EXCEPT ![r] = co] /\ co.box = None
           /\ co.pc = IF status \in TerminalStatuses THEN "cleanup" ELSE "disposing"
<1>. DEFINE co == [Idle EXCEPT !.pc = IF status \in TerminalStatuses THEN "cleanup"
                                     ELSE "disposing"]
<1>1. co \in Coroutines /\ co.box = None
      /\ co.pc = IF status \in TerminalStatuses THEN "cleanup" ELSE "disposing"
  BY DEF Idle, Coroutines, Pcs
<1>2. live' = [live EXCEPT ![r] = co] BY DEF Finally
<1>. QED BY <1>1, <1>2

(* A driver that has what it needs opens its session.                      *)
LEMMA Joins ==
  ASSUME NEW m \in {"plan", "step"}
  PROVE  LET co == [Idle EXCEPT !.pc = "joining", !.mode = m]
         IN co \in Coroutines /\ co.pc = "joining" /\ co.box = None
BY DEF Idle, Coroutines, Pcs

LEMMA OpenedKeeps == ASSUME IInv, NEW r \in Runs, Opened(r) PROVE IInv'
<1>1. live[r].pc = "opening" /\ live[r].pc \in Holding BY DEF Opened, At, Holding
<1>2. PICK h \in Handles :
         /\ handle' = [handle EXCEPT ![r] = h] /\ h.key /\ ~h.stuck /\ h # None
         /\ h.selection = task[r].binding.selection
  BY <1>1, InstalledFacts DEF Opened
<1>3. Fine(task[r], live[r], handle[r], sandbox[r]) BY Here
<1>4. /\ live[r].box = None /\ live[r].seen \in Working
      /\ live[r].seen # "PREPARING" => sandbox[r] # None
      /\ sandbox[r] # None => sandbox[r].status = "READY"
  BY <1>1, <1>3 DEF Fine, Placed, Working, Planned
<1>5. UNCHANGED <<release, preference, keyring, process, sandbox, container, probe>>
  BY DEF Opened
<1>6. task[r] # None /\ task[r] \in Rows /\ task[r].binding # None
      /\ task[r].binding.sdk = release
  BY <1>1, HoldingHasRow
<1>7. task = [task EXCEPT ![r] = task[r]] BY Same DEF IInv
<1>8. process \notin {"down", "failed"} BY <1>1, Here
<1>9. CASE live[r].seen = "PREPARING" /\ sandbox[r] = None
  <2>1. Goto(r, "packing") /\ task' = task BY <1>9 DEF Opened
  <2>2. "packing" \in Pcs BY DEF Pcs
  <2>3. Fine(task[r], [live[r] EXCEPT !.pc = "packing"], h, sandbox[r])
    BY <1>2, <1>3, <1>4, <1>6, <1>9, <2>2, Moved DEF Fine, Typed, Held, Rowed, Placed, Holding
  <2>. QED BY <1>1, <1>2, <1>5, <1>7, <2>1, <2>2, <2>3, GotoKeeps
<1>10. CASE live[r].seen = "PREPARING" /\ sandbox[r] # None
  <2>1. PICK t \in Rows : /\ Prepared(r) = [task EXCEPT ![r] = t] /\ t # None
                          /\ t.binding = task[r].binding /\ t.resume = None
                          /\ t.status = IF task[r].status = "PREPARING" THEN "PLANNING"
                                        ELSE task[r].status
    BY <1>1, PreparedFacts
  <2>2. task' = [task EXCEPT ![r] = t] BY <1>4, <1>10, <2>1 DEF Opened
  <2>3. CASE task[r].status \in Working
    <3>. DEFINE co == [Idle EXCEPT !.pc = "joining"]
    <3>1. live' = [live EXCEPT ![r] = co] BY <1>4, <1>10, <2>3 DEF Opened
    <3>2. co \in Coroutines /\ co.pc = "joining" /\ co.box = None
      BY DEF Idle, Coroutines, Pcs
    <3>. HIDE DEF co
    <3>3. Fine(t, co, h, sandbox[r])
      BY <1>2, <1>3, <1>4, <1>6, <1>10, <2>1, <2>3, <3>2
      DEF Fine, Typed, Held, Rowed, Placed, Holding, Working, TerminalStatuses
    <3>. QED BY <1>2, <1>4, <1>5, <1>8, <2>2, <3>1, <3>2, <3>3, RunStep
  <2>4. CASE task[r].status \notin Working
    <3>1. Finally(r, task[r].status) BY <1>4, <1>10, <2>4 DEF Opened
    <3>2. PICK co \in Coroutines :
            /\ live' = [live EXCEPT ![r] = co] /\ co.box = None
            /\ co.pc = IF task[r].status \in TerminalStatuses THEN "cleanup" ELSE "disposing"
      BY <3>1, FinallyFacts
    <3>3. Fine(t, co, h, sandbox[r])
      BY <1>2, <1>3, <1>4, <1>6, <1>10, <2>1, <2>4, <3>2
      DEF Fine, Typed, Held, Rowed, Placed, Holding, Working, TerminalStatuses
    <3>. QED BY <1>2, <1>4, <1>5, <1>8, <2>2, <3>2, <3>3, RunStep
  <2>. QED BY <2>3, <2>4
<1>11. CASE live[r].seen # "PREPARING"
  <2>. DEFINE mode == IF live[r].seen = "EXECUTING" THEN "step" ELSE "plan"
              co == [Idle EXCEPT !.pc = "joining", !.mode = mode]
  <2>1. live' = [live EXCEPT ![r] = co] /\ task' = task BY <1>11 DEF Opened
  <2>2. co \in Coroutines /\ co.pc = "joining" /\ co.box = live[r].box BY <1>4, Joins
  <2>. HIDE DEF co
  <2>3. Fine(task[r], co, h, sandbox[r])
    BY <1>2, <1>3, <1>4, <1>6, <1>11, <2>2 DEF Fine, Typed, Held, Rowed, Placed, Holding
  <2>. QED BY <1>2, <1>5, <1>7, <1>8, <2>1, <2>2, <2>3, RunStep
<1>. QED BY <1>9, <1>10, <1>11

LEMMA OpeningKeeps == ASSUME IInv, NEW r \in Runs, Opening(r) PROVE IInv'
<1>. USE DEF At
<1>1. ASSUME OpenFails(r) PROVE IInv'
  <2>1. live[r].pc \in Holding /\ live[r].box = None
    BY <1>1, Here DEF OpenFails, Holding, Fine, Placed
  <2>. QED BY <1>1, <2>1, SomeReasons, ThrowKeeps DEF OpenFails
<1>2. ASSUME KeyRejected(r) PROVE IInv'
  <2>1. live[r].pc = "opening" BY <1>2 DEF KeyRejected
  <2>2. PICK h \in Handles :
           /\ handle' = [handle EXCEPT ![r] = h] /\ h.key /\ ~h.stuck /\ h # None
           /\ h.selection = task[r].binding.selection
    BY <1>2, <2>1, InstalledFacts DEF KeyRejected
  <2>3. "unwinding" \in Pcs BY DEF Pcs
  <2>4. Fine(task[r], [live[r] EXCEPT !.pc = "unwinding"], h, sandbox[r])
    BY <2>1, <2>2, <2>3, Here, Moved, HoldingHasRow
    DEF Fine, Typed, Held, Rowed, Placed, Holding
  <2>5. task' = [task EXCEPT ![r] = task[r]] BY <1>2, Same DEF IInv, KeyRejected
  <2>. QED BY <1>2, <2>1, <2>2, <2>3, <2>4, <2>5, GotoKeeps DEF KeyRejected
<1>3. ASSUME Unwound(r) PROVE IInv'
  <2>1. live[r].pc \in Holding /\ live[r].box = None
    BY <1>3, Here DEF Unwound, Holding, Fine, Placed
  <2>. QED BY <1>3, <2>1, SomeReasons, ThrowKeeps DEF Unwound, Forgotten
<1>4. ASSUME Opened(r) PROVE IInv' BY <1>4, OpenedKeeps
<1>. QED BY <1>1, <1>2, <1>3, <1>4 DEF Opening

----------------------------------------------------------------------------
LEMMA ContainerStep ==
  ASSUME IInv, NEW r \in Runs, NEW co, Fine(task[r], co, handle[r], sandbox[r]),
         process \notin {"down", "failed"}, live' = [live EXCEPT ![r] = co],
         container' \in [Containers -> ContainerStates],
         UNCHANGED <<serviceVars, process, task, sandbox, probe>>, Shelved'
  PROVE  IInv'
<1>1. task' = [task EXCEPT ![r] = task[r]] /\ handle' = [handle EXCEPT ![r] = handle[r]]
      /\ sandbox' = [sandbox EXCEPT ![r] = sandbox[r]]
  BY Same DEF IInv, serviceVars
<1>2. UNCHANGED <<release, preference, keyring, process, probe>> BY DEF serviceVars
<1>3. process \in {"down", "failed"} => co.pc = "idle" OBVIOUS
<1>4. \A t, h, sb :
        (/\ Fine(t, co, h, sb)
         /\ task' = [task EXCEPT ![r] = t] /\ handle' = [handle EXCEPT ![r] = h]
         /\ sandbox' = [sandbox EXCEPT ![r] = sb]) => IInv'
  BY <1>2, <1>3, GeneralStep
<1>. QED BY <1>1, <1>4

LEMMA ContainerCreatedKeeps == ASSUME IInv, NEW r \in Runs, ContainerCreated(r) PROVE IInv'
<1>1. live[r].pc = "packing" /\ live[r].pc \in Holding
  BY DEF ContainerCreated, At, Holding
<1>2. PICK c \in Containers :
        /\ container[c] = "unused" /\ container' = [container EXCEPT ![c] = "starting"]
        /\ live' = [live EXCEPT ![r] = [live[r] EXCEPT !.pc = "seeding", !.box = c]]
  BY DEF ContainerCreated
<1>. DEFINE co == [live[r] EXCEPT !.pc = "seeding", !.box = c]
<1>3. co \in Coroutines /\ co.pc = "seeding" /\ co.box = c BY Here DEF Coroutines, Pcs
<1>4. live' = [live EXCEPT ![r] = co] BY <1>2
<1>. HIDE DEF co
<1>5. Fine(task[r], live[r], handle[r], sandbox[r]) /\ process \notin {"down", "failed"}
  BY <1>1, Here DEF Holding
<1>6. task[r] # None /\ task[r].binding # None BY <1>1, HoldingHasRow
<1>7. Fine(task[r], co, handle[r], sandbox[r])
  BY <1>1, <1>3, <1>5, <1>6, NoneAssumption DEF Fine, Typed, Held, Rowed, Placed, Holding
<1>8. UNCHANGED <<serviceVars, process, task, sandbox, probe>> BY DEF ContainerCreated
<1>9. /\ live'[r].box = c /\ \A s \in Runs \ {r} : live'[s].box = live[s].box
      /\ container'[c] = "starting" /\ \A d \in Containers \ {c} : container'[d] = container[d]
      /\ container' \in [Containers -> ContainerStates]
  BY <1>2, <1>3, <1>4 DEF IInv, TypeOK, ContainerStates
<1>10. live[r].box = None BY <1>1, <1>5 DEF Fine, Placed
<1>11. \A s \in Runs : /\ live[s].box \in Containers \cup {None}
                       /\ sandbox[s] # None => sandbox[s].id \in Containers
  BY DEF IInv, TypeOK, Coroutines, Boxes
<1>12. Shelved'
  <2>. USE DEF Shelved
  <2>1. Shelved BY DEF IInv
  <2>2. \A s \in Runs : live'[s].box # None => container'[live'[s].box] = "starting"
    BY <1>2, <1>9, <1>11, <2>1
  <2>3. \A s \in Runs : sandbox[s] # None => sandbox[s].id # c BY <1>2, <2>1
  <2>4. \A s \in Runs : live[s].box # c BY <1>2, <2>1, NoneAssumption
  <2>5. \A s \in Runs : sandbox'[s] # None =>
          container'[sandbox'[s].id] \in {"ready", "stopped", "gone"}
    BY <1>8, <1>9, <1>11, <2>1, <2>3
  <2>6. \A p, s \in Runs : p # s =>
          /\ live'[p].box # None => live'[p].box # live'[s].box
          /\ (sandbox'[p] # None /\ sandbox'[s] # None) => sandbox'[p].id # sandbox'[s].id
    BY <1>8, <1>9, <2>1, <2>4
  <2>7. \A d \in Containers :
          /\ container'[d] = "starting" => \E s \in Runs : live'[s].box = d
          /\ container'[d] \in {"ready", "stopped"} =>
               \E s \in Runs : sandbox'[s] # None /\ sandbox'[s].id = d
    BY <1>8, <1>9, <1>10, <2>1, NoneAssumption
  <2>. QED BY <2>2, <2>5, <2>6, <2>7
<1>. QED BY <1>4, <1>5, <1>7, <1>8, <1>9, <1>12, ContainerStep

(* A container that was being prepared is given up.                        *)
LEMMA DiscardedKeeps == ASSUME IInv, NEW r \in Runs, Discarded(r) PROVE IInv'
<1>1. live[r].pc = "discarding" /\ live[r].pc \in Holding
  BY DEF Discarded, At, Holding
<1>. DEFINE c == live[r].box
            co == [Idle EXCEPT !.pc = "catch", !.fault = "error"]
<1>2. PICK st \in {"gone", "lost"} : container' = [container EXCEPT ![c] = st]
  BY DEF Discarded, Discard
<1>3. co \in Coroutines /\ co.pc = "catch" /\ co.box = None BY Thrown
<1>4. live' = [live EXCEPT ![r] = co] BY Thrown DEF Discarded
<1>5. Fine(task[r], live[r], handle[r], sandbox[r]) /\ process \notin {"down", "failed"}
      /\ handle[r] \in Handles \cup {None}
  BY <1>1, Here DEF Holding
<1>6. live[r].box # None /\ live[r].box \in Containers
  BY <1>1, <1>5, Here DEF Fine, Placed, Coroutines
<1>. HIDE DEF co, c
<1>7. Fine(task[r], co, handle[r], sandbox[r]) BY <1>1, <1>3, <1>5, LetsGo
<1>8. UNCHANGED <<serviceVars, process, task, sandbox, probe>> BY DEF Discarded
<1>9. /\ live'[r].box = None /\ \A s \in Runs \ {r} : live'[s].box = live[s].box
      /\ container'[c] = st /\ \A d \in Containers \ {c} : container'[d] = container[d]
      /\ container' \in [Containers -> ContainerStates]
  BY <1>2, <1>3, <1>4, <1>6 DEF IInv, TypeOK, ContainerStates, c
<1>10. \A s \in Runs : /\ live[s].box \in Containers \cup {None}
                       /\ sandbox[s] # None => sandbox[s].id \in Containers
  BY DEF IInv, TypeOK, Coroutines, Boxes
<1>11. Shelved'
  <2>. USE DEF Shelved
  <2>1. Shelved BY DEF IInv
  <2>2. container[c] = "starting" /\ \A s \in Runs \ {r} : live[s].box # c
    BY <1>6, <2>1 DEF c
  <2>3. \A s \in Runs : sandbox[s] # None => sandbox[s].id # c BY <2>1, <2>2
  <2>4. \A s \in Runs : live'[s].box # None => container'[live'[s].box] = "starting"
    BY <1>9, <1>10, <2>1, <2>2
  <2>5. \A s \in Runs : sandbox'[s] # None =>
          container'[sandbox'[s].id] \in {"ready", "stopped", "gone"}
    BY <1>8, <1>9, <1>10, <2>1, <2>3
  <2>6. \A p, s \in Runs : p # s =>
          /\ live'[p].box # None => live'[p].box # live'[s].box
          /\ (sandbox'[p] # None /\ sandbox'[s] # None) => sandbox'[p].id # sandbox'[s].id
    BY <1>8, <1>9, <2>1
  <2>7. \A d \in Containers :
          /\ container'[d] = "starting" => \E s \in Runs : live'[s].box = d
          /\ container'[d] \in {"ready", "stopped"} =>
               \E s \in Runs : sandbox'[s] # None /\ sandbox'[s].id = d
    BY <1>8, <1>9, <2>1 DEF c
  <2>. QED BY <2>4, <2>5, <2>6, <2>7
<1>. QED BY <1>4, <1>5, <1>7, <1>8, <1>9, <1>11, ContainerStep

(* A workspace is recorded: the box of the coroutine goes to the row.      *)
LEMMA SeededKeeps == ASSUME IInv, NEW r \in Runs, Seeded(r) PROVE IInv'
<1>1. live[r].pc = "seeding" /\ live[r].pc \in Holding BY DEF Seeded, At, Holding
<1>. DEFINE c == live[r].box
            pc == IF task[r].status \in Working THEN "joining"
                  ELSE IF task[r].status \in TerminalStatuses THEN "cleanup" ELSE "disposing"
            co == [Idle EXCEPT !.pc = pc]
            sb == [id |-> c, status |-> "READY"]
<1>2. Fine(task[r], live[r], handle[r], sandbox[r]) /\ process \notin {"down", "failed"}
      /\ handle[r] \in Handles \cup {None}
  BY <1>1, Here DEF Holding
<1>3. c # None /\ c \in Containers /\ sandbox[r] = None
  BY <1>1, <1>2, Here DEF Fine, Placed, Coroutines
<1>4. co \in Coroutines /\ co.pc = pc /\ co.box = None
  BY DEF Idle, Coroutines, Pcs
<1>5. live' = [live EXCEPT ![r] = co] BY DEF Seeded, Finally
<1>6. sb \in Boxes /\ sb # None /\ sb.id = c /\ sb.status = "READY"
      /\ sandbox' = [sandbox EXCEPT ![r] = sb]
  BY <1>3, NoneAssumption DEF Boxes, Seeded
<1>7. PICK t \in Rows : /\ Prepared(r) = [task EXCEPT ![r] = t] /\ t # None
                        /\ t.binding = task[r].binding /\ t.resume = None
                        /\ t.status = IF task[r].status = "PREPARING" THEN "PLANNING"
                                      ELSE task[r].status
  BY <1>1, PreparedFacts
<1>8. task[r] # None /\ task[r].binding # None BY <1>1, HoldingHasRow
<1>. HIDE DEF co, c, sb
<1>9. Fine(t, co, handle[r], sb)
  <2>1. Typed(t, co, handle[r], sb) BY <1>2, <1>4, <1>6, <1>7 DEF Typed
  <2>2. Held(t, co, handle[r])
    BY <1>1, <1>2, <1>4, <1>7, <1>8 DEF Fine, Held, Holding
  <2>3. Rowed(t, co, sb)
    BY <1>2, <1>4, <1>6, <1>7, <1>8 DEF Rowed, Ended, Working, TerminalStatuses
  <2>4. Placed(t, co, sb) BY <1>4, <1>6, <1>7 DEF Placed
  <2>. QED BY <2>1, <2>2, <2>3, <2>4 DEF Fine
<1>10. /\ live'[r].box = None /\ \A s \in Runs \ {r} : live'[s].box = live[s].box
       /\ sandbox'[r] = sb /\ \A s \in Runs \ {r} : sandbox'[s] = sandbox[s]
       /\ container'[c] = "ready" /\ \A d \in Containers \ {c} : container'[d] = container[d]
       /\ container' \in [Containers -> ContainerStates]
  BY <1>3, <1>4, <1>5, <1>6 DEF IInv, TypeOK, ContainerStates, Seeded, c
<1>11. \A s \in Runs : /\ live[s].box \in Containers \cup {None}
                       /\ sandbox[s] # None => sandbox[s].id \in Containers
  BY DEF IInv, TypeOK, Coroutines, Boxes
<1>12. Shelved'
  <2>. USE DEF Shelved
  <2>1. Shelved BY DEF IInv
  <2>2. container[c] = "starting" /\ \A s \in Runs \ {r} : live[s].box # c
    BY <1>3, <2>1 DEF c
  <2>3. \A s \in Runs : sandbox[s] # None => sandbox[s].id # c BY <2>1, <2>2
  <2>4. \A s \in Runs : live'[s].box # None => container'[live'[s].box] = "starting"
    BY <1>10, <1>11, <2>1, <2>2
  <2>5. \A s \in Runs : sandbox'[s] # None =>
          container'[sandbox'[s].id] \in {"ready", "stopped", "gone"}
    BY <1>6, <1>10, <1>11, <2>1, <2>3
  <2>6. \A p, s \in Runs : p # s =>
          /\ live'[p].box # None => live'[p].box # live'[s].box
          /\ (sandbox'[p] # None /\ sandbox'[s] # None) => sandbox'[p].id # sandbox'[s].id
    BY <1>6, <1>10, <2>1, <2>3
  <2>7. \A d \in Containers :
          /\ container'[d] = "starting" => \E s \in Runs : live'[s].box = d
          /\ container'[d] \in {"ready", "stopped"} =>
               \E s \in Runs : sandbox'[s] # None /\ sandbox'[s].id = d
    <3>1. container'[c] = "ready" /\ sandbox'[r] # None /\ sandbox'[r].id = c
      BY <1>6, <1>10
    <3>2. ASSUME NEW d \in Containers \ {c}, container'[d] = "starting"
          PROVE  \E s \in Runs : live'[s].box = d
      <4>1. PICK s \in Runs : live[s].box = d BY <1>10, <2>1, <3>2
      <4>. QED BY <1>10, <4>1 DEF c
    <3>3. ASSUME NEW d \in Containers \ {c}, container'[d] \in {"ready", "stopped"}
          PROVE  \E s \in Runs : sandbox'[s] # None /\ sandbox'[s].id = d
      <4>1. PICK s \in Runs : sandbox[s] # None /\ sandbox[s].id = d
        BY <1>10, <2>1, <3>3
      <4>2. s # r BY <1>3, <4>1
      <4>. QED BY <1>10, <4>1, <4>2
    <3>. QED BY <3>1, <3>2, <3>3
  <2>. QED BY <2>4, <2>5, <2>6, <2>7
<1>13. handle' = [handle EXCEPT ![r] = handle[r]] BY Same DEF IInv, Seeded, serviceVars
<1>14. task' = [task EXCEPT ![r] = t] BY <1>7 DEF Seeded
<1>15. UNCHANGED <<release, preference, keyring, process, probe>> BY DEF Seeded, serviceVars
<1>. QED BY <1>2, <1>5, <1>6, <1>9, <1>10, <1>12, <1>13, <1>14, <1>15, GeneralStep

LEMMA PreparingKeeps == ASSUME IInv, NEW r \in Runs, Preparing(r) PROVE IInv'
<1>1. ASSUME PackFails(r) PROVE IInv'
  <2>1. live[r].pc \in Holding /\ live[r].box = None
    BY <1>1, Here DEF PackFails, At, Holding, Fine, Placed
  <2>. QED BY <1>1, <2>1, ThrowKeeps DEF PackFails, serviceVars
<1>2. ASSUME SeedFails(r) PROVE IInv'
  <2>1. live[r].pc = "seeding" /\ live[r].pc \in Holding BY <1>2 DEF SeedFails, At, Holding
  <2>2. "discarding" \in Pcs BY DEF Pcs
  <2>3. Fine(task[r], [live[r] EXCEPT !.pc = "discarding"], handle[r], sandbox[r])
    BY <2>1, <2>2, Here, Moved, HoldingHasRow DEF Fine, Typed, Held, Rowed, Placed, Holding
  <2>. QED BY <1>2, <2>1, <2>2, <2>3, GoOn DEF SeedFails
<1>. QED BY <1>1, <1>2, ContainerCreatedKeeps, DiscardedKeeps, SeededKeeps DEF Preparing

----------------------------------------------------------------------------
LEMMA DisposalFacts ==
  ASSUME IInv, NEW r \in Runs, handle' \in Disposals(r)
  PROVE  \E h \in Handles \cup {None} :
           /\ handle' = [handle EXCEPT ![r] = h] /\ handle'[r] = h
           /\ h # None => h.stuck
<1>1. handle[r] \in Handles \cup {None} /\ handle = [handle EXCEPT ![r] = handle[r]]
      /\ handle \in [Owners -> Handles \cup {None}] /\ r \in Owners
  BY Here, Same, OwnersAssumption DEF IInv, TypeOK, ServiceTypeOK
<1>2. CASE handle[r] = None
  BY <1>1, <1>2 DEF Disposals
<1>3. CASE handle[r] # None /\ handle[r].stuck
  BY <1>1, <1>3 DEF Disposals
<1>4. CASE handle[r] # None /\ ~handle[r].stuck
  <2>1. CASE handle' = [handle EXCEPT ![r] = None] BY <1>1, <2>1
  <2>2. CASE handle' = [handle EXCEPT ![r].stuck = TRUE]
    <3>. DEFINE h == [handle[r] EXCEPT !.stuck = TRUE]
    <3>1. h \in Handles /\ h.stuck BY <1>1, <1>4 DEF Handles
    <3>2. handle' = [handle EXCEPT ![r] = h] BY <2>2
    <3>. HIDE DEF h
    <3>. QED BY <1>1, <3>1, <3>2
  <2>. QED BY <1>4, <2>1, <2>2 DEF Disposals
<1>. QED BY <1>2, <1>3, <1>4

(* The row of a run whose prompt has returned.                             *)
LEMMA BecomesFacts ==
  ASSUME IInv, NEW r \in Runs, live[r].pc = "asking", NEW st \in Statuses
  PROVE  LET t == [task[r] EXCEPT !.resume = None, !.status = st]
         IN t \in Rows /\ t # None /\ t.binding = task[r].binding
            /\ t.resume = None /\ t.status = st
<1>1. task[r] \in Rows BY HoldingHasRow DEF Holding
<1>2. [task[r] EXCEPT !.resume = None, !.status = st] \in Rows BY <1>1 DEF Rows
<1>3. [task[r] EXCEPT !.resume = None, !.status = st] # None BY <1>2, NoneAssumption
<1>. QED BY <1>1, <1>2, <1>3 DEF Rows

(* Whatever the loop does then, the run keeps what it needs for it.        *)
LEMMA ReturnFine ==
  ASSUME IInv, NEW r \in Runs, live[r].pc = "asking",
         NEW t \in Rows, t # None, t.binding = task[r].binding, t.resume = None,
         task[r].status \in TerminalStatuses => t.status \in TerminalStatuses,
         NEW co \in Coroutines, co.box = None,
         co.pc \in {"asking", "catch", "disposing"}
           \/ (co.pc = "cleanup" /\ t.status \in TerminalStatuses)
  PROVE  Fine(t, co, handle[r], sandbox[r])
<1>1. Fine(task[r], live[r], handle[r], sandbox[r]) BY Here
<1>2. task[r] # None /\ task[r].binding # None BY HoldingHasRow DEF Holding
<1>3. Typed(t, co, handle[r], sandbox[r]) BY <1>1 DEF Fine, Typed
<1>4. Held(t, co, handle[r]) BY <1>1, <1>2 DEF Fine, Held, Holding
<1>5. Rowed(t, co, sandbox[r]) BY <1>1, <1>2 DEF Fine, Rowed
<1>6. Placed(t, co, sandbox[r]) BY <1>1, <1>2, NoneAssumption DEF Fine, Placed, Holding
<1>. QED BY <1>3, <1>4, <1>5, <1>6 DEF Fine

LEMMA PromptReturnsKeeps == ASSUME IInv, NEW r \in Runs, PromptReturns(r) PROVE IInv'
<1>1. live[r].pc = "asking" /\ live[r].pc \in Holding BY DEF PromptReturns, At, Holding
<1>2. task[r] \in Rows /\ task[r].status \in Statuses /\ process \notin {"down", "failed"}
  BY <1>1, HoldingHasRow, Here DEF Rows
<1>3. handle' = [handle EXCEPT ![r] = handle[r]]
      /\ UNCHANGED <<release, preference, keyring, process, sandbox, container, probe>>
  BY Same DEF IInv, PromptReturns, serviceVars
<1>4. live[r].box = None BY <1>1, Here DEF Fine, Placed
<1>. DEFINE becomes(to) ==
              task' = [task EXCEPT ![r] = [task[r] EXCEPT !.resume = None, !.status = to]]
            asks == live' = [live EXCEPT ![r] = [Idle EXCEPT !.pc = "asking", !.mode = "step"]]
<1>5. ASSUME NEW to \in Statuses, becomes(to),
             task[r].status \in TerminalStatuses => to \in TerminalStatuses,
             NEW co \in Coroutines, live' = [live EXCEPT ![r] = co], co.box = None,
             co.pc \in {"asking", "catch", "disposing"}
               \/ (co.pc = "cleanup" /\ to \in TerminalStatuses)
      PROVE  IInv'
  <2>. DEFINE t == [task[r] EXCEPT !.resume = None, !.status = to]
  <2>1. t \in Rows /\ t # None /\ t.binding = task[r].binding
        /\ t.resume = None /\ t.status = to
    BY <1>1, BecomesFacts
  <2>2. task' = [task EXCEPT ![r] = t] BY <1>5
  <2>. HIDE DEF t, becomes
  <2>3. Fine(t, co, handle[r], sandbox[r]) BY <1>1, <1>5, <2>1, ReturnFine
  <2>. QED BY <1>2, <1>3, <1>4, <1>5, <2>2, <2>3, RunStep
<1>. HIDE DEF becomes
<1>6. ASSUME NEW to \in Statuses, becomes(to), Finally(r, to),
             task[r].status \in TerminalStatuses => to \in TerminalStatuses
      PROVE  IInv'
  <2>1. PICK co \in Coroutines :
          /\ live' = [live EXCEPT ![r] = co] /\ co.box = None
          /\ co.pc = IF to \in TerminalStatuses THEN "cleanup" ELSE "disposing"
    BY <1>6, FinallyFacts
  <2>. QED BY <1>5, <1>6, <2>1
<1>7. ASSUME becomes(task[r].status), Throw(r, "error") PROVE IInv'
  <2>. DEFINE co == [Idle EXCEPT !.pc = "catch", !.fault = "error"]
  <2>1. co \in Coroutines /\ co.pc = "catch" /\ co.box = None
        /\ live' = [live EXCEPT ![r] = co]
    BY <1>7, Thrown
  <2>. HIDE DEF co
  <2>. QED BY <1>2, <1>5, <1>7, <2>1
<1>8. ASSUME becomes("EXECUTING"), asks, task[r].status \notin TerminalStatuses PROVE IInv'
  <2>. DEFINE co == [Idle EXCEPT !.pc = "asking", !.mode = "step"]
  <2>1. co \in Coroutines /\ co.pc = "asking" /\ co.box = None
    BY DEF Idle, Coroutines, Pcs
  <2>2. live' = [live EXCEPT ![r] = co] BY <1>8
  <2>3. "EXECUTING" \in Statuses BY DEF Statuses, Working
  <2>. HIDE DEF co
  <2>. QED BY <1>5, <1>8, <2>1, <2>2, <2>3
<1>9. \A st \in TerminalStatuses : st # "EXECUTING" /\ ~CanTransitionTask(st, "EXECUTING")
  BY DEF TerminalStatuses, CanTransitionTask, TaskTransitions
<1>10. "SUCCEEDED" \in Statuses /\ "SUCCEEDED" \in TerminalStatuses
  BY DEF Statuses, TerminalStatuses
<1>11. \/ CanTransitionTask(task[r].status, "EXECUTING") /\ becomes("EXECUTING") /\ asks
       \/ becomes(task[r].status) /\ Throw(r, "error")
       \/ task[r].status = "EXECUTING" /\ becomes("EXECUTING") /\ asks
       \/ becomes("SUCCEEDED") /\ Finally(r, "SUCCEEDED")
       \/ becomes(task[r].status) /\ Finally(r, task[r].status)
  BY DEF PromptReturns, becomes
<1>. HIDE DEF asks
<1>. QED BY <1>2, <1>6, <1>7, <1>8, <1>9, <1>10, <1>11

(* A message grows or ends; the request stays the one it was.              *)
LEMMA StillAsking ==
  ASSUME IInv, NEW r \in Runs, live[r].pc = "asking",
         NEW co \in Coroutines, co.pc = "asking", co.box = live[r].box,
         live' = [live EXCEPT ![r] = co],
         UNCHANGED <<serviceVars, process, task, sandbox, container, probe>>
  PROVE  IInv'
<1>1. Fine(task[r], live[r], handle[r], sandbox[r]) /\ process \notin {"down", "failed"} BY Here
<1>2. Fine(task[r], co, handle[r], sandbox[r])
  BY <1>1 DEF Fine, Typed, Held, Rowed, Placed, Holding
<1>3. task' = [task EXCEPT ![r] = task[r]] /\ handle' = [handle EXCEPT ![r] = handle[r]]
      /\ UNCHANGED <<release, preference, keyring, process, sandbox, container, probe>>
  BY Same DEF IInv, serviceVars
<1>. QED BY <1>1, <1>2, <1>3, RunStep

(* What becomes of the container a row names: it stops, or it is removed;  *)
(* whose it is does not change.                                            *)
LEMMA BoxChanges ==
  ASSUME IInv, NEW r \in Runs, sandbox[r] # None, NEW st \in {"stopped", "gone"},
         container' = [container EXCEPT ![sandbox[r].id] = st],
         NEW co \in Coroutines, co.box = live[r].box, live' = [live EXCEPT ![r] = co],
         Fine(task[r], co, handle[r], sandbox[r]), process \notin {"down", "failed"},
         UNCHANGED <<serviceVars, process, task, sandbox, probe>>
  PROVE  IInv'
<1>. DEFINE c == sandbox[r].id
<1>1. \A s \in Runs : /\ live[s].box \in Containers \cup {None}
                      /\ sandbox[s] # None => sandbox[s].id \in Containers
  BY DEF IInv, TypeOK, Coroutines, Boxes
<1>2. /\ c \in Containers /\ \A s \in Runs : live'[s].box = live[s].box
      /\ container'[c] = st /\ \A d \in Containers \ {c} : container'[d] = container[d]
      /\ container' \in [Containers -> ContainerStates]
  BY <1>1 DEF IInv, TypeOK, ContainerStates
<1>3. Shelved BY DEF IInv
<1>4. \A s \in Runs : live[s].box # None => live[s].box # c BY <1>3 DEF Shelved
<1>. HIDE DEF c
<1>5. \A s \in Runs : live'[s].box # None => container'[live'[s].box] = "starting"
  BY <1>1, <1>2, <1>3, <1>4 DEF Shelved
<1>6. \A s \in Runs : sandbox'[s] # None =>
        container'[sandbox'[s].id] \in {"ready", "stopped", "gone"}
  BY <1>1, <1>2, <1>3 DEF Shelved
<1>7. \A d \in Containers :
        /\ container'[d] = "starting" => \E s \in Runs : live'[s].box = d
        /\ container'[d] \in {"ready", "stopped"} =>
             \E s \in Runs : sandbox'[s] # None /\ sandbox'[s].id = d
  BY <1>2, <1>3 DEF Shelved, c
<1>8. Shelved' BY <1>2, <1>3, <1>5, <1>6, <1>7 DEF Shelved
<1>. QED BY <1>2, <1>8, ContainerStep

LEMMA CommandTimesOutKeeps == ASSUME IInv, NEW r \in Runs, CommandTimesOut(r) PROVE IInv'
<1>1. /\ live[r].pc = "asking" /\ sandbox[r] # None
      /\ container' = [container EXCEPT ![sandbox[r].id] = "stopped"]
      /\ UNCHANGED <<serviceVars, process, task, live, sandbox, probe>>
  BY DEF CommandTimesOut, At, HasContainer
<1>2. live' = [live EXCEPT ![r] = live[r]] /\ live[r] \in Coroutines
      /\ Fine(task[r], live[r], handle[r], sandbox[r]) /\ process \notin {"down", "failed"}
  BY <1>1, Same, Here DEF IInv
<1>. QED BY <1>1, <1>2, BoxChanges

LEMMA PromptingKeeps == ASSUME IInv, NEW r \in Runs, Prompting(r) PROVE IInv'
<1>. USE DEF At
<1>1. ASSUME live[r].pc \in {"joining", "asking", "leaving"}
      PROVE  live[r].pc \in Holding /\ live[r].box = None
  BY <1>1, Here DEF Holding, Fine, Placed
<1>2. ASSUME JoinFails(r) PROVE IInv'
  <2>1. CASE Throw(r, "error")
    BY <1>1, <1>2, <2>1, ThrowKeeps DEF JoinFails, serviceVars
  <2>2. CASE Goto(r, "leaving")
    <3>1. live[r].pc = "joining" /\ live[r].pc \in Holding BY <1>2 DEF JoinFails, Holding
    <3>2. "leaving" \in Pcs BY DEF Pcs
    <3>3. Fine(task[r], [live[r] EXCEPT !.pc = "leaving"], handle[r], sandbox[r])
      BY <3>1, <3>2, Here, Moved, HoldingHasRow DEF Fine, Typed, Held, Rowed, Placed, Holding
    <3>. QED BY <1>2, <2>2, <3>1, <3>2, <3>3, GoOn DEF JoinFails
  <2>. QED BY <1>2, <2>1, <2>2 DEF JoinFails
<1>3. ASSUME SessionClosed(r) PROVE IInv'
  <2>1. PICK h \in Handles \cup {None} : handle' = [handle EXCEPT ![r] = h]
    BY <1>3, DisposalFacts DEF SessionClosed
  <2>. QED BY <1>1, <1>3, <2>1, ThrowWith DEF SessionClosed
<1>4. ASSUME Joined(r) PROVE IInv'
  <2>1. live[r].pc = "joining" /\ live[r].pc \in Holding BY <1>4 DEF Joined, Holding
  <2>2. "asking" \in Pcs BY DEF Pcs
  <2>3. Fine(task[r], [live[r] EXCEPT !.pc = "asking"], handle[r], sandbox[r])
    BY <2>1, <2>2, Here, Moved, HoldingHasRow DEF Fine, Typed, Held, Rowed, Placed, Holding
  <2>. QED BY <1>4, <2>1, <2>2, <2>3, GoOn DEF Joined
<1>5. ASSUME OutputArrives(r) PROVE IInv'
  <2>. DEFINE co == [live[r] EXCEPT !.output = TRUE]
  <2>1. live[r].pc = "asking" /\ live' = [live EXCEPT ![r] = co] BY <1>5 DEF OutputArrives
  <2>2. co \in Coroutines /\ co.pc = "asking" /\ co.box = live[r].box
    BY <2>1, Here DEF Coroutines
  <2>. QED BY <1>5, <2>1, <2>2, StillAsking DEF OutputArrives
<1>6. ASSUME ToolsCalled(r) PROVE IInv'
  <2>. DEFINE co == [live[r] EXCEPT !.output = FALSE, !.earlier = TRUE]
  <2>1. live[r].pc = "asking" /\ live' = [live EXCEPT ![r] = co] BY <1>6 DEF ToolsCalled
  <2>2. co \in Coroutines /\ co.pc = "asking" /\ co.box = live[r].box
    BY <2>1, Here DEF Coroutines
  <2>. QED BY <1>6, <2>1, <2>2, StillAsking DEF ToolsCalled
<1>7. ASSUME WorkFails(r) PROVE IInv'
  BY <1>1, <1>7, ThrowKeeps DEF WorkFails, serviceVars
<1>8. ASSUME PromptFails(r) PROVE IInv'
  <2>1. PICK e \in Failures, before \in BOOLEAN :
          Throw(r, Classify(e, live[r].output \/ (before /\ live[r].earlier)))
    BY <1>8 DEF PromptFails
  <2>2. (live[r].output \/ (before /\ live[r].earlier)) \in BOOLEAN OBVIOUS
  <2>3. PICK f \in Reasons : Throw(r, f)
    BY <2>1, <2>2, SomeReasons
  <2>. QED BY <1>1, <1>8, <2>3, ThrowKeeps DEF PromptFails, serviceVars
<1>. QED
  BY <1>2, <1>3, <1>4, <1>5, <1>6, <1>7, <1>8, PromptReturnsKeeps, CommandTimesOutKeeps
  DEF Prompting

----------------------------------------------------------------------------
(* A coroutine that has let go may change its row and go on to the end.    *)
LEMMA EndFine ==
  ASSUME IInv, NEW r \in Runs, live[r].pc = "catch",
         NEW t \in Rows, t # None, t.binding = task[r].binding,
         t.resume \in {task[r].resume, task[r].status},
         t.status \in {task[r].status, "PAUSED"} \cup TerminalStatuses,
         task[r].status \in TerminalStatuses => t.status \in TerminalStatuses,
         NEW co \in Coroutines, co.box = live[r].box,
         co.pc = "disposing" \/ (co.pc = "cleanup" /\ t.status \in TerminalStatuses)
  PROVE  Fine(t, co, handle[r], sandbox[r])
<1>1. Fine(task[r], live[r], handle[r], sandbox[r]) BY Here
<1>2. task[r] # None /\ task[r].binding # None BY <1>1 DEF Fine, Rowed
<1>3. Typed(t, co, handle[r], sandbox[r]) BY <1>1 DEF Fine, Typed
<1>4. Held(t, co, handle[r]) BY <1>1, <1>2 DEF Fine, Held, Holding
<1>5. Rowed(t, co, sandbox[r]) BY <1>1, <1>2 DEF Fine, Rowed
<1>6. Placed(t, co, sandbox[r])
  BY <1>1, <1>2 DEF Fine, Placed, Holding, Planned, TerminalStatuses
<1>. QED BY <1>3, <1>4, <1>5, <1>6 DEF Fine

LEMMA CatchKeeps == ASSUME IInv, NEW r \in Runs, Catch(r) PROVE IInv'
<1>1. live[r].pc = "catch" BY DEF Catch, At
<1>2. Fine(task[r], live[r], handle[r], sandbox[r]) /\ process \notin {"down", "failed"}
  BY <1>1, Here
<1>3. task[r] \in Rows /\ task[r] # None BY <1>1, <1>2 DEF Fine, Typed, Rowed
<1>4. handle' = [handle EXCEPT ![r] = handle[r]] /\ task = [task EXCEPT ![r] = task[r]]
      /\ UNCHANGED <<release, preference, keyring, process, sandbox, container, probe>>
  BY Same DEF IInv, Catch, serviceVars
<1>5. ASSUME NEW t \in Rows, t.binding = task[r].binding,
             t.resume \in {task[r].resume, task[r].status},
             t.status \in {task[r].status, "PAUSED"} \cup TerminalStatuses,
             task[r].status \in TerminalStatuses => t.status \in TerminalStatuses,
             task' = [task EXCEPT ![r] = t],
             NEW status, Finally(r, status), t.status = status
      PROVE  IInv'
  <2>1. PICK co \in Coroutines :
          /\ live' = [live EXCEPT ![r] = co] /\ co.box = None
          /\ co.pc = IF status \in TerminalStatuses THEN "cleanup" ELSE "disposing"
    BY <1>5, FinallyFacts
  <2>2. t # None /\ live[r].box = None BY <1>1, <1>2, NoneAssumption DEF Fine, Placed
  <2>3. Fine(t, co, handle[r], sandbox[r]) BY <1>1, <1>5, <2>1, <2>2, EndFine
  <2>. QED BY <1>2, <1>4, <1>5, <2>1, <2>2, <2>3, RunStep
<1>6. ASSUME task' = [task EXCEPT ![r].status = "FAILED"], Finally(r, "FAILED") PROVE IInv'
  <2>. DEFINE t == [task[r] EXCEPT !.status = "FAILED"]
  <2>1. t \in Rows /\ t.binding = task[r].binding /\ t.resume = task[r].resume
        /\ t.status = "FAILED" /\ "FAILED" \in TerminalStatuses
    BY <1>3 DEF Rows, Statuses, TerminalStatuses
  <2>2. task' = [task EXCEPT ![r] = t] BY <1>6
  <2>. HIDE DEF t
  <2>. QED BY <1>5, <1>6, <2>1, <2>2
<1>7. ASSUME live[r].fault \in Reasons, ~Ended(r), Blocked(r), Recoverable(live[r].fault)
      PROVE  IInv'
  <2>. DEFINE t == [task[r] EXCEPT !.resume = task[r].status, !.status = "PAUSED"]
  <2>1. task[r].status \in Working \cup {"PAUSED"}
    BY <1>3, <1>7 DEF Rows, Statuses, Ended
  <2>2. t \in Rows /\ t.binding = task[r].binding /\ t.resume = task[r].status
        /\ t.status = "PAUSED" /\ "PAUSED" \notin TerminalStatuses
    BY <1>3, <2>1 DEF Rows, Statuses, TerminalStatuses
  <2>3. t # None BY <2>2, NoneAssumption
  <2>4. task' = [task EXCEPT ![r] = t] BY <1>7 DEF Blocked, PausedFrom
  <2>. HIDE DEF t
  <2>5. CASE task[r].status = "PAUSED"
    <3>. DEFINE co == [Idle EXCEPT !.pc = "disposing", !.fault = "rejected"]
    <3>1. co \in Coroutines /\ co.pc = "disposing" /\ co.box = None
      BY DEF Idle, Coroutines, Pcs
    <3>2. live[r].box = None BY <1>1, <1>2 DEF Fine, Placed
    <3>3. live' = [live EXCEPT ![r] = co] BY <1>7, <2>5 DEF Blocked
    <3>. HIDE DEF co
    <3>4. Fine(t, co, handle[r], sandbox[r])
      BY <1>1, <1>7, <2>2, <2>3, <3>1, <3>2, EndFine DEF Ended
    <3>. QED BY <1>2, <1>4, <2>4, <3>1, <3>2, <3>3, <3>4, RunStep
  <2>6. CASE task[r].status # "PAUSED"
    <3>1. Finally(r, "PAUSED") BY <1>7, <2>6 DEF Blocked
    <3>. QED BY <1>5, <1>7, <2>2, <2>4, <3>1 DEF Ended
  <2>. QED BY <2>5, <2>6
<1>8. ASSUME task' = task, Finally(r, task[r].status) PROVE IInv'
  BY <1>3, <1>4, <1>5, <1>8
<1>. QED BY <1>6, <1>7, <1>8 DEF Catch, Blocked

(* What a cleanup may leave behind at each of its steps.                   *)
LEMMA CleanupFine ==
  ASSUME IInv, NEW r \in Runs, live[r].pc \in {"cleanup", "removed", "sweeping", "swept"},
         NEW co \in Coroutines, co.box = live[r].box,
         IF live[r].pc \in {"cleanup", "removed"} THEN co.pc \in {"removed", "disposing"}
                                                 ELSE co.pc \in {"swept", "idle"},
         NEW sb \in Boxes \cup {None}, sb # None <=> sandbox[r] # None,
         sandbox[r] # None \/ co.pc \in {"disposing", "idle"}
  PROVE  Fine(task[r], co, handle[r], sb)
<1>1. Fine(task[r], live[r], handle[r], sandbox[r]) BY Here
<1>2. /\ task[r] # None /\ task[r] \in Rows /\ task[r].status \in TerminalStatuses
      /\ live[r].box = None
  BY <1>1 DEF Fine, Typed, Rowed, Placed
<1>3. Typed(task[r], co, handle[r], sb) BY <1>1 DEF Fine, Typed
<1>4. Held(task[r], co, handle[r]) BY <1>1 DEF Fine, Held, Holding
<1>5. Rowed(task[r], co, sb) BY <1>1, <1>2 DEF Fine, Rowed, Working, TerminalStatuses
<1>6. Placed(task[r], co, sb) BY <1>1, <1>2 DEF Fine, Placed, Holding
<1>. QED BY <1>3, <1>4, <1>5, <1>6 DEF Fine

LEMMA ContainerRemovedKeeps == ASSUME IInv, NEW r \in Runs, ContainerRemoved(r) PROVE IInv'
<1>1. /\ live[r].pc \in {"cleanup", "sweeping"} /\ sandbox[r] # None
      /\ container' = [container EXCEPT ![sandbox[r].id] = "gone"]
      /\ Goto(r, IF live[r].pc = "cleanup" THEN "removed" ELSE "swept")
      /\ UNCHANGED <<serviceVars, process, task, sandbox, probe>>
  BY DEF ContainerRemoved, At, HasContainer
<1>. DEFINE pc == IF live[r].pc = "cleanup" THEN "removed" ELSE "swept"
            co == [live[r] EXCEPT !.pc = pc]
<1>2. pc \in Pcs BY DEF Pcs
<1>3. co \in Coroutines /\ co.pc = pc /\ co.box = live[r].box /\ live' = [live EXCEPT ![r] = co]
  BY <1>1, <1>2, Moved
<1>. HIDE DEF co
<1>4. process \notin {"down", "failed"} /\ sandbox[r] \in Boxes \cup {None}
  BY <1>1, Here DEF Fine, Typed
<1>5. Fine(task[r], co, handle[r], sandbox[r]) BY <1>1, <1>3, <1>4, CleanupFine
<1>. QED BY <1>1, <1>3, <1>4, <1>5, BoxChanges

(* The row may come to say what Docker has done.                           *)
LEMMA RecordedKeeps ==
  ASSUME IInv, NEW r \in Runs, NEW pc \in Pcs,
         \/ live[r].pc \in {"cleanup", "removed"} /\ pc = "disposing"
         \/ live[r].pc \in {"sweeping", "swept"} /\ pc = "idle",
         Goto(r, pc), Recorded(r),
         UNCHANGED <<serviceVars, process, task, container, probe>>
  PROVE  IInv'
<1>. DEFINE co == [live[r] EXCEPT !.pc = pc]
<1>1. co \in Coroutines /\ co.pc = pc /\ co.box = live[r].box /\ live' = [live EXCEPT ![r] = co]
  BY Moved
<1>. HIDE DEF co
<1>2. /\ process \notin {"down", "failed"} /\ sandbox[r] \in Boxes \cup {None}
      /\ live[r].pc \in {"removed", "swept"} => sandbox[r] # None
  BY Here DEF Fine, Typed, Placed
<1>3. PICK sb \in Boxes \cup {None} :
        /\ sandbox' = [sandbox EXCEPT ![r] = sb]
        /\ sb # None <=> sandbox[r] # None
        /\ sandbox[r] # None => sb.id = sandbox[r].id
  <2>1. CASE UNCHANGED sandbox
    <3>1. sandbox' = [sandbox EXCEPT ![r] = sandbox[r]] BY <2>1, Same DEF IInv
    <3>. QED BY <1>2, <3>1
  <2>2. CASE sandbox[r] # None /\ sandbox' = [sandbox EXCEPT ![r].status = "DESTROYED"]
    <3>. DEFINE sb == [sandbox[r] EXCEPT !.status = "DESTROYED"]
    <3>1. sb \in Boxes /\ sb.id = sandbox[r].id BY <1>2, <2>2 DEF Boxes
    <3>2. sb # None BY <3>1, NoneAssumption
    <3>3. sandbox' = [sandbox EXCEPT ![r] = sb] BY <2>2
    <3>. HIDE DEF sb
    <3>. QED BY <2>2, <3>1, <3>2, <3>3
  <2>. QED BY <1>2, <2>1, <2>2 DEF Recorded, At
<1>4. Fine(task[r], co, handle[r], sb) BY <1>1, <1>3, CleanupFine
<1>5. /\ \A s \in Runs : live'[s].box = live[s].box
      /\ \A s \in Runs : sandbox'[s] # None <=> sandbox[s] # None
      /\ \A s \in Runs : sandbox[s] # None => sandbox'[s].id = sandbox[s].id
  BY <1>1, <1>3 DEF IInv, TypeOK
<1>6. Shelved' BY <1>5 DEF Shelved, IInv
<1>7. task' = [task EXCEPT ![r] = task[r]] /\ handle' = [handle EXCEPT ![r] = handle[r]]
      /\ UNCHANGED <<release, preference, keyring, process, probe>>
  BY Same DEF IInv, serviceVars
<1>8. container' \in [Containers -> ContainerStates] BY DEF IInv, TypeOK
<1>. QED BY <1>1, <1>2, <1>3, <1>4, <1>6, <1>7, <1>8, GeneralStep

LEMMA DisposedKeeps == ASSUME IInv, NEW r \in Runs, Disposed(r) PROVE IInv'
<1>1. live[r].pc = "disposing" BY DEF Disposed, At
<1>2. Fine(task[r], live[r], handle[r], sandbox[r]) /\ process \notin {"down", "failed"}
  BY <1>1, Here
<1>3. task[r] \in Rows /\ task[r] # None /\ live[r].box = None /\ task[r].binding # None
  BY <1>1, <1>2 DEF Fine, Typed, Rowed, Placed
<1>4. PICK h \in Handles \cup {None} :
        /\ handle' = [handle EXCEPT ![r] = h] /\ handle'[r] = h
        /\ h # None => h.stuck
  BY DisposalFacts DEF Disposed
<1>. DEFINE st == IF (live[r].fault = "rejected" \/ h # None) /\ ~Ended(r) THEN "FAILED"
                  ELSE task[r].status
            t == [task[r] EXCEPT !.status = st]
            co == [Idle EXCEPT !.pc = IF h = None THEN "idle" ELSE "zombie"]
<1>5. task' = [task EXCEPT ![r] = t] /\ live' = [live EXCEPT ![r] = co] BY <1>4 DEF Disposed
<1>6. co \in Coroutines /\ co.pc = (IF h = None THEN "idle" ELSE "zombie") /\ co.box = None
  BY DEF Idle, Coroutines, Pcs
<1>7. /\ st \in Statuses /\ st \in {task[r].status, "FAILED"}
      /\ task[r].status \in TerminalStatuses => st \in TerminalStatuses
  BY <1>3 DEF Rows, Statuses, TerminalStatuses
<1>. HIDE DEF st, co
<1>8. t \in Rows /\ t.status = st /\ t.resume = task[r].resume /\ t.binding = task[r].binding
  BY <1>3, <1>7 DEF Rows
<1>9. t # None BY <1>8, NoneAssumption
<1>. HIDE DEF t
<1>10. Fine(t, co, h, sandbox[r])
  <2>1. Typed(t, co, h, sandbox[r]) BY <1>2, <1>6, <1>8 DEF Fine, Typed
  <2>2. Held(t, co, h) BY <1>4, <1>6 DEF Held, Holding
  <2>3. Rowed(t, co, sandbox[r]) BY <1>2, <1>3, <1>6, <1>7, <1>8, <1>9 DEF Fine, Rowed
  <2>4. Placed(t, co, sandbox[r])
    BY <1>2, <1>3, <1>6, <1>7, <1>8, <1>9 DEF Fine, Placed, Holding, Planned
  <2>. QED BY <2>1, <2>2, <2>3, <2>4 DEF Fine
<1>11. UNCHANGED <<release, preference, keyring, process, sandbox, container, probe>>
  BY DEF Disposed
<1>. QED BY <1>2, <1>3, <1>4, <1>5, <1>6, <1>10, <1>11, RunStep

LEMMA EndingKeeps == ASSUME IInv, NEW r \in Runs, Ending(r) PROVE IInv'
<1>. "disposing" \in Pcs /\ "idle" \in Pcs BY DEF Pcs
<1>1. ASSUME Cleaned(r) PROVE IInv' BY <1>1, RecordedKeeps DEF Cleaned, At
<1>2. ASSUME Swept(r) PROVE IInv' BY <1>2, RecordedKeeps DEF Swept, At
<1>. QED BY <1>1, <1>2, CatchKeeps, ContainerRemovedKeeps, DisposedKeeps DEF Ending

----------------------------------------------------------------------------
LEMMA RefusalsAreFaults ==
  ASSUME NEW b PROVE Refusals(b) \subseteq Reasons \cup {"error"}
BY SomeReasons DEF Refusals

LEMMA NewHandleFacts ==
  ASSUME IInv, NEW b \in Bindings, Openable(b)
  PROVE  LET h == NewHandle(Identity(b))
         IN /\ h \in Handles /\ h # None /\ ~h.stuck
            /\ h.selection = b.selection /\ b.sdk = release
<1>1. b \in [selection : Selections, sdk : Releases] BY DEF Openable, Bindings
<1>2. keyring[b.selection.profile] \in Secrets
  BY <1>1 DEF Openable, Selections, IInv, TypeOK, ServiceTypeOK
<1>3. release \in Releases BY DEF IInv, TypeOK, ServiceTypeOK
<1>4. NewHandle(Identity(b)) \in Handles
  BY <1>1, <1>2, <1>3 DEF NewHandle, Identity, Handles
<1>5. NewHandle(Identity(b)) # None BY <1>4, NoneAssumption
<1>. QED BY <1>4, <1>5 DEF NewHandle, Identity, Openable

(* A coroutine begins with a row whose binding is known and which has its  *)
(* sandbox if it got that far before.                                      *)
LEMMA BeginKeeps ==
  ASSUME IInv, NEW r \in Runs,
         live[r].pc \in {"idle", "scheduled", "sweeping", "swept"},
         process \notin {"down", "failed"},
         NEW row \in Rows, row.status \in Working, row.binding # None,
         sandbox[r] # None => sandbox[r].status = "READY",
         (row.status \in Planned \/ row.resume \in Planned) => sandbox[r] # None,
         Begin(r, row),
         UNCHANGED <<release, preference, keyring, process, sandbox, container, probe>>
  PROVE  IInv'
<1>1. Fine(task[r], live[r], handle[r], sandbox[r]) BY Here
<1>2. row # None /\ row.binding \in Bindings /\ row.status \notin TerminalStatuses
  BY NoneAssumption DEF Rows, Working, TerminalStatuses
<1>3. live[r].box = None BY <1>1 DEF Fine, Placed
<1>4. task' = [task EXCEPT ![r] = row] BY DEF Begin
<1>5. CASE /\ Openable(row.binding)
           /\ handle' = [handle EXCEPT ![r] = NewHandle(Identity(row.binding))]
           /\ live' = [live EXCEPT ![r] = [Idle EXCEPT !.pc = "opening", !.seen = row.status]]
  <2>. DEFINE co == [Idle EXCEPT !.pc = "opening", !.seen = row.status]
              h == NewHandle(Identity(row.binding))
  <2>1. co \in Coroutines /\ co.pc = "opening" /\ co.seen = row.status /\ co.box = None
    BY DEF Idle, Coroutines, Pcs
  <2>2. /\ h \in Handles /\ h # None /\ ~h.stuck
        /\ h.selection = row.binding.selection /\ row.binding.sdk = release
    BY <1>2, <1>5, NewHandleFacts
  <2>3. live' = [live EXCEPT ![r] = co] /\ handle' = [handle EXCEPT ![r] = h] BY <1>5
  <2>. HIDE DEF co, h
  <2>4. Fine(row, co, h, sandbox[r])
    BY <1>1, <1>2, <2>1, <2>2 DEF Fine, Typed, Held, Rowed, Placed, Holding
  <2>. QED BY <1>3, <1>4, <2>1, <2>3, <2>4, RunStep
<1>6. CASE /\ \E f \in Refusals(row.binding) : Throw(r, f)
           /\ UNCHANGED handle
  <2>1. PICK f \in Reasons \cup {"error"} : Throw(r, f)
    BY <1>6, RefusalsAreFaults
  <2>. DEFINE co == [Idle EXCEPT !.pc = "catch", !.fault = f]
  <2>2. co \in Coroutines /\ co.pc = "catch" /\ co.box = None
        /\ live' = [live EXCEPT ![r] = co]
    BY <2>1, Thrown
  <2>3. live' = [live EXCEPT ![r] = co] /\ handle' = [handle EXCEPT ![r] = handle[r]]
    BY <1>6, <2>2, Same DEF IInv
  <2>. HIDE DEF co
  <2>4. Fine(row, co, handle[r], sandbox[r])
    BY <1>1, <1>2, <2>2 DEF Fine, Typed, Held, Rowed, Placed, Holding
  <2>. QED BY <1>3, <1>4, <2>2, <2>3, <2>4, RunStep
<1>. QED BY <1>5, <1>6 DEF Begin

LEMMA CreateKeeps == ASSUME IInv, NEW r \in Runs, Create(r) PROVE IInv'
<1>1. PICK o \in Selections \cup {None} :
        /\ Available(Chosen(o))
        /\ Begin(r, [status |-> "PREPARING", resume |-> None, binding |-> BindingFor(Chosen(o))])
  BY DEF Create
<1>. DEFINE row == [status |-> "PREPARING", resume |-> None, binding |-> BindingFor(Chosen(o))]
<1>2. Fine(task[r], live[r], handle[r], sandbox[r]) BY Here
<1>3. live[r].pc = "idle" /\ sandbox[r] = None BY <1>2 DEF Fine, Rowed, Create
<1>4. DefaultSelection \in Selections
  BY CatalogAssumption
  DEF DefaultSelection, Fallback, Selections, IInv, TypeOK, ServiceTypeOK
<1>5. Chosen(o) \in Selections /\ release \in Releases
  BY <1>4 DEF Chosen, IInv, TypeOK, ServiceTypeOK
<1>6. BindingFor(Chosen(o)) \in [selection : Selections, sdk : Releases]
  BY <1>5 DEF BindingFor
<1>7. BindingFor(Chosen(o)) # None BY <1>6, NoneAssumption
<1>8. row \in Rows BY <1>6 DEF Rows, Statuses, Working, Bindings
<1>9. row.status \in Working /\ row.binding # None
      /\ row.status \notin Planned /\ row.resume \notin Planned
  BY <1>7, NoneAssumption DEF Working, Planned
<1>10. process \notin {"down", "failed"} /\ Begin(r, row) BY <1>1 DEF Create
<1>. HIDE DEF row
<1>. QED BY <1>3, <1>8, <1>9, <1>10, BeginKeeps DEF Create

LEMMA AbortedFacts ==
  ASSUME IInv, NEW r \in Runs
  PROVE  \E co \in Coroutines :
           /\ Aborted(r) = [live EXCEPT ![r] = co]
           /\ co.pc = live[r].pc /\ co.box = live[r].box /\ co.seen = live[r].seen
<1>1. live[r] \in Coroutines BY Here
<1>. DEFINE b == At(r, "asking") \/ live[r].abort
            co == [live[r] EXCEPT !.abort = b]
<1>2. b \in BOOLEAN BY <1>1 DEF Coroutines, At
<1>. HIDE DEF b
<1>3. co \in Coroutines /\ co.pc = live[r].pc /\ co.box = live[r].box /\ co.seen = live[r].seen
  BY <1>1, <1>2 DEF Coroutines
<1>4. Aborted(r) = [live EXCEPT ![r] = co] BY DEF Aborted, b
<1>. HIDE DEF co
<1>. QED BY <1>3, <1>4

(* A control changes the row of a run under the hands of its coroutine.    *)
LEMMA ControlFine ==
  ASSUME IInv, NEW r \in Runs, task[r] # None, process \notin {"down", "failed"},
         NEW t \in Rows, t.binding = task[r].binding,
         t.resume = task[r].resume \/ (task[r].status \in Working /\ t.resume = task[r].status),
         \/ t.status \in {"PAUSED", task[r].status} \cup TerminalStatuses
         \/ t.status = task[r].resume,
         task[r].status \in TerminalStatuses => t.status = task[r].status,
         NEW co \in Coroutines, co.pc = live[r].pc, co.box = live[r].box, co.seen = live[r].seen
  PROVE  Fine(t, co, handle[r], sandbox[r])
<1>1. Fine(task[r], live[r], handle[r], sandbox[r]) BY Here
<1>2. t # None BY NoneAssumption
<1>3. Typed(t, co, handle[r], sandbox[r]) BY <1>1 DEF Fine, Typed
<1>4. Held(t, co, handle[r]) BY <1>1, <1>2 DEF Fine, Held
<1>5. task[r].binding = None => task[r].status \notin Working /\ task[r].resume = None
  BY <1>1 DEF Fine, Rowed
<1>6. "PAUSED" \notin Working /\ \A st \in TerminalStatuses : st \notin Working
  BY DEF Working, TerminalStatuses
<1>7. None \notin Working BY NoneAssumption
<1>8. Rowed(t, co, sandbox[r]) BY <1>1, <1>2, <1>5, <1>6, <1>7 DEF Fine, Rowed
<1>9. Placed(t, co, sandbox[r])
  BY <1>1, <1>2 DEF Fine, Placed, Planned, TerminalStatuses
<1>. QED BY <1>3, <1>4, <1>8, <1>9 DEF Fine

LEMMA PauseKeeps == ASSUME IInv, NEW r \in Runs, Pause(r) PROVE IInv'
<1>1. task[r] # None /\ task[r].status \in Working /\ process \notin {"down", "failed"}
  BY DEF Pause
<1>2. task[r] \in Rows BY <1>1, Here
<1>. DEFINE t == [task[r] EXCEPT !.resume = task[r].status, !.status = "PAUSED"]
<1>3. t \in Rows /\ t.binding = task[r].binding /\ t.resume = task[r].status
      /\ t.status = "PAUSED"
  BY <1>1, <1>2 DEF Rows, Statuses
<1>4. task' = [task EXCEPT ![r] = t] BY DEF Pause, PausedFrom
<1>. HIDE DEF t
<1>5. PICK co \in Coroutines :
        /\ live' = [live EXCEPT ![r] = co]
        /\ co.pc = live[r].pc /\ co.box = live[r].box /\ co.seen = live[r].seen
  BY AbortedFacts DEF Pause
<1>6. task[r].status \notin TerminalStatuses BY <1>1 DEF Working, TerminalStatuses
<1>7. Fine(t, co, handle[r], sandbox[r]) BY <1>1, <1>3, <1>5, <1>6, ControlFine
<1>8. handle' = [handle EXCEPT ![r] = handle[r]]
      /\ UNCHANGED <<release, preference, keyring, process, sandbox, container, probe>>
  BY Same DEF IInv, Pause, serviceVars
<1>. QED BY <1>1, <1>4, <1>5, <1>7, <1>8, RunStep

LEMMA CancelKeeps == ASSUME IInv, NEW r \in Runs, Cancel(r) PROVE IInv'
<1>1. task[r] # None /\ process \notin {"down", "failed"} BY DEF Cancel
<1>2. task[r] \in Rows BY <1>1, Here
<1>. DEFINE st == IF Ended(r) THEN task[r].status ELSE "CANCELLED"
            t == [task[r] EXCEPT !.status = st]
<1>3. st \in Statuses /\ st \in TerminalStatuses
      /\ (task[r].status \in TerminalStatuses => st = task[r].status)
  BY <1>2 DEF Rows, Statuses, TerminalStatuses, Ended
<1>4. task' = [task EXCEPT ![r] = t] BY DEF Cancel
<1>. HIDE DEF st
<1>5. t \in Rows /\ t.binding = task[r].binding /\ t.resume = task[r].resume /\ t.status = st
  BY <1>2, <1>3 DEF Rows
<1>. HIDE DEF t
<1>6. handle' = [handle EXCEPT ![r] = handle[r]]
      /\ UNCHANGED <<release, preference, keyring, process, sandbox, container, probe>>
  BY Same DEF IInv, Cancel, serviceVars
<1>7. CASE ~Inactive(r)
  <2>1. PICK co \in Coroutines :
          /\ live' = [live EXCEPT ![r] = co]
          /\ co.pc = live[r].pc /\ co.box = live[r].box /\ co.seen = live[r].seen
    BY <1>7, AbortedFacts DEF Cancel
  <2>2. Fine(t, co, handle[r], sandbox[r]) BY <1>1, <1>3, <1>5, <2>1, ControlFine
  <2>. QED BY <1>1, <1>4, <1>6, <2>1, <2>2, RunStep
<1>8. CASE Inactive(r)
  <2>. DEFINE pc == IF At(r, "swept") THEN "swept" ELSE "sweeping"
              co == [live[r] EXCEPT !.pc = pc]
  <2>1. /\ Goto(r, pc) /\ pc \in Pcs /\ pc \in {"sweeping", "swept"}
        /\ pc = "swept" => live[r].pc = "swept"
    BY <1>8 DEF Cancel, Pcs, At
  <2>. HIDE DEF pc
  <2>2. co \in Coroutines /\ co.pc = pc /\ co.box = live[r].box
        /\ live' = [live EXCEPT ![r] = co]
    BY <2>1, Moved
  <2>. HIDE DEF co
  <2>3. Fine(t, live[r], handle[r], sandbox[r])
    BY <1>1, <1>3, <1>5, Here, ControlFine
  <2>4. t # None BY <1>5, NoneAssumption
  <2>5. Fine(t, co, handle[r], sandbox[r])
    <3>1. Typed(t, co, handle[r], sandbox[r]) BY <2>2, <2>3 DEF Fine, Typed
    <3>2. Held(t, co, handle[r]) BY <1>8, <2>1, <2>2, <2>3 DEF Fine, Held, Holding, Inactive
    <3>3. Rowed(t, co, sandbox[r]) BY <1>3, <1>5, <2>1, <2>2, <2>3, <2>4 DEF Fine, Rowed
    <3>4. Placed(t, co, sandbox[r])
      BY <1>8, <2>1, <2>2, <2>3 DEF Fine, Placed, Holding, Inactive
    <3>. QED BY <3>1, <3>2, <3>3, <3>4 DEF Fine
  <2>. QED BY <1>1, <1>4, <1>6, <2>2, <2>5, RunStep
<1>. QED BY <1>7, <1>8

LEMMA ResumeKeeps == ASSUME IInv, NEW r \in Runs, Resume(r) PROVE IInv'
<1>1. task[r] # None /\ process \notin {"down", "failed"} /\ task[r].status = "PAUSED"
      /\ task[r].resume \in Working
  BY DEF Resume
<1>2. task[r] \in Rows /\ Fine(task[r], live[r], handle[r], sandbox[r]) BY <1>1, Here
<1>3. task[r].binding # None BY <1>1, <1>2, NoneAssumption DEF Fine, Rowed
<1>. DEFINE row == [task[r] EXCEPT !.status = task[r].resume]
            failed == [row EXCEPT !.status = "FAILED"]
<1>4. row \in Rows /\ row.binding = task[r].binding /\ row.resume = task[r].resume
      /\ row.status = task[r].resume
  BY <1>1, <1>2 DEF Rows, Statuses
<1>5. failed \in Rows /\ failed.binding = task[r].binding /\ failed.resume = task[r].resume
      /\ failed.status = "FAILED"
  BY <1>4 DEF Rows, Statuses, TerminalStatuses
<1>6. UNCHANGED <<release, preference, keyring, process, sandbox, container, probe>>
      /\ task[r].status \notin TerminalStatuses /\ "FAILED" \in TerminalStatuses
  BY <1>1 DEF Resume, TerminalStatuses
<1>. HIDE DEF row, failed
<1>7. CASE Inactive(r) /\ Begin(r, row)
  <2>1. sandbox[r] # None => sandbox[r].status = "READY"
    BY <1>2, <1>6 DEF Fine, Rowed, Typed, Boxes
  <2>2. (row.status \in Planned \/ row.resume \in Planned) => sandbox[r] # None
    BY <1>1, <1>2, <1>3, <1>4 DEF Fine, Placed
  <2>3. live[r].pc \in {"idle", "scheduled", "sweeping", "swept"} BY <1>7 DEF Inactive
  <2>. QED BY <1>1, <1>3, <1>4, <1>6, <1>7, <2>1, <2>2, <2>3, BeginKeeps
<1>8. CASE /\ ~Inactive(r) /\ UNCHANGED <<handle, live>>
           /\ task' = [task EXCEPT ![r] = IF At(r, "zombie") THEN failed ELSE row]
  <2>. DEFINE t == IF At(r, "zombie") THEN failed ELSE row
  <2>1. t \in Rows /\ t.binding = task[r].binding /\ t.resume = task[r].resume
        /\ t.status \in {task[r].resume, "FAILED"}
    BY <1>4, <1>5
  <2>2. task' = [task EXCEPT ![r] = t] BY <1>8
  <2>. HIDE DEF t
  <2>3. Fine(t, live[r], handle[r], sandbox[r]) BY <1>1, <1>6, <2>1, Here, ControlFine
  <2>4. live' = [live EXCEPT ![r] = live[r]] /\ handle' = [handle EXCEPT ![r] = handle[r]]
    BY <1>8, Same DEF IInv
  <2>. QED BY <1>1, <1>6, <2>2, <2>3, <2>4, RunStep
<1>. QED BY <1>7, <1>8 DEF Resume, row, failed

LEMMA StartRecoveredKeeps == ASSUME IInv, NEW r \in Runs, StartRecovered(r) PROVE IInv'
<1>1. live[r].pc = "scheduled" /\ process \notin {"down", "failed"}
      /\ UNCHANGED <<release, preference, keyring, process, sandbox, container, probe>>
  BY DEF StartRecovered, At
<1>2. Fine(task[r], live[r], handle[r], sandbox[r]) BY Here
<1>3. task[r] \in Rows /\ task[r] # None /\ task[r].binding # None
  BY <1>1, <1>2 DEF Fine, Typed, Rowed
<1>4. CASE task[r].status \in Working /\ Begin(r, task[r])
  <2>1. task[r].status \notin TerminalStatuses BY <1>4 DEF Working, TerminalStatuses
  <2>2. sandbox[r] # None => sandbox[r].status = "READY"
    BY <1>2, <2>1 DEF Fine, Rowed, Typed, Boxes
  <2>3. (task[r].status \in Planned \/ task[r].resume \in Planned) => sandbox[r] # None
    BY <1>2, <1>3 DEF Fine, Placed
  <2>. QED BY <1>1, <1>3, <1>4, <2>2, <2>3, BeginKeeps
<1>5. CASE Goto(r, "idle") /\ UNCHANGED <<task, handle>>
  <2>1. "idle" \in Pcs BY DEF Pcs
  <2>2. Fine(task[r], [live[r] EXCEPT !.pc = "idle"], handle[r], sandbox[r])
    BY <1>1, <1>2, <1>3, <2>1, Moved DEF Fine, Typed, Held, Rowed, Placed, Holding
  <2>3. UNCHANGED <<serviceVars, process, task, sandbox, container, probe>>
    BY <1>1, <1>5 DEF serviceVars
  <2>. QED BY <1>1, <1>5, <2>1, <2>2, <2>3, GoOn
<1>. QED BY <1>4, <1>5 DEF StartRecovered

----------------------------------------------------------------------------
(* What a probe or a request about models does touches no run.             *)
LEMMA ElsewhereKeeps ==
  ASSUME IInv, UNCHANGED <<release, process, task, live, sandbox, container>>,
         preference' \in Selections \cup {None}, keyring' \in [Profiles -> Secrets \cup {None}],
         handle' \in [Owners -> Handles \cup {None}],
         \A r \in Runs : handle'[r] = handle[r],
         probe' \in {"idle", "opening", "unwinding", "text", "tool", "closing"}, Probed'
  PROVE  IInv'
<1>. USE DEF IInv
<1>1. TypeOK' BY DEF TypeOK, ServiceTypeOK
<1>2. ASSUME NEW r \in Runs PROVE Fine(task[r], live[r], handle[r], sandbox[r])'
  <2>1. Fine(task[r], live[r], handle[r], sandbox[r]) BY DEF RunsFine
  <2>. QED BY <2>1 DEF Fine, Typed, Held, Rowed, Placed
<1>3. Shelved' BY DEF Shelved
<1>4. Resting' BY DEF Resting
<1>. QED BY <1>1, <1>2, <1>3, <1>4 DEF RunsFine

LEMMA ProbeSelectionFacts ==
  ASSUME IInv, NEW p \in Profiles
  PROVE  ProbeSelection(p) \in Selections /\ ProbeSelection(p).profile = p
BY CatalogAssumption
DEF ProbeSelection, DefaultSelection, Fallback, Selections, IInv, TypeOK, ServiceTypeOK

LEMMA ProbingKeeps == ASSUME IInv, Probing PROVE IInv'
<1>1. Probe \in Owners /\ \A r \in Runs : r # Probe /\ r \in Owners BY OwnersAssumption
<1>2. handle \in [Owners -> Handles \cup {None}] /\ Probed
      /\ preference \in Selections \cup {None} /\ keyring \in [Profiles -> Secrets \cup {None}]
      /\ release \in Releases
  BY DEF IInv, TypeOK, ServiceTypeOK
<1>3. ASSUME NEW h \in Handles \cup {None}, handle' = [handle EXCEPT ![Probe] = h],
             NEW pc \in {"idle", "opening", "unwinding", "text", "tool", "closing"},
             probe' = pc, pc = "idle" <=> h = None,
             UNCHANGED <<release, preference, keyring, process, task, live, sandbox, container>>
      PROVE  IInv'
  BY <1>1, <1>2, <1>3, ElsewhereKeeps DEF Probed
<1>4. ASSUME ProbeBegins PROVE IInv'
  <2>1. PICK p \in Profiles :
          /\ keyring[p] # None
          /\ handle' = [handle EXCEPT ![Probe] = NewHandle(ProbeSelection(p))]
    BY <1>4 DEF ProbeBegins
  <2>2. NewHandle(ProbeSelection(p)) \in Handles
    BY <1>2, <2>1, ProbeSelectionFacts DEF NewHandle, Handles
  <2>3. NewHandle(ProbeSelection(p)) # None BY <2>2, NoneAssumption
  <2>. QED BY <1>3, <1>4, <2>1, <2>2, <2>3 DEF ProbeBegins
<1>5. ASSUME handle' = Forgotten(Probe) /\ probe' = "idle",
             UNCHANGED <<release, preference, keyring, process, task, live, sandbox, container>>
      PROVE  IInv'
  BY <1>3, <1>5 DEF Forgotten
<1>6. ASSUME ProbeOpens PROVE IInv'
  <2>1. CASE handle' = Installed(Probe) /\ probe' \in {"text", "unwinding"}
    <3>. DEFINE h == [handle[Probe] EXCEPT !.key = TRUE]
    <3>1. handle[Probe] \in Handles BY <1>1, <1>2, <1>6 DEF ProbeOpens, Probed
    <3>2. h \in Handles BY <3>1 DEF Handles
    <3>3. h # None BY <3>2, NoneAssumption
    <3>4. handle' = [handle EXCEPT ![Probe] = h] BY <2>1 DEF Installed
    <3>. HIDE DEF h
    <3>. QED BY <1>3, <1>6, <2>1, <3>2, <3>3, <3>4 DEF ProbeOpens
  <2>2. CASE handle' = Forgotten(Probe) /\ probe' = "idle"
    BY <1>5, <1>6, <2>2 DEF ProbeOpens
  <2>. QED BY <1>6, <2>1, <2>2 DEF ProbeOpens
<1>7. ASSUME ProbeUnwinds \/ ProbeEnds PROVE IInv'
  BY <1>5, <1>7 DEF ProbeUnwinds, ProbeEnds
<1>8. ASSUME ProbeAnswered \/ ProbeTimesOut PROVE IInv'
  <2>1. probe \in {"text", "tool"} /\ probe' \in {"tool", "closing"}
        /\ UNCHANGED <<serviceVars, process, task, live, sandbox, container>>
    BY <1>8 DEF ProbeAnswered, ProbeTimesOut, TimerFires
  <2>2. Probed' BY <1>2, <2>1 DEF Probed, serviceVars
  <2>. QED BY <1>2, <2>1, <2>2, ElsewhereKeeps DEF serviceVars
<1>. QED BY <1>4, <1>6, <1>7, <1>8 DEF Probing

LEMMA RequestKeeps == ASSUME IInv, Request PROVE IInv'
<1>1. UNCHANGED <<release, handle, process, task, live, sandbox, container, probe>>
  BY DEF Request, ServiceRequest, SetDefault, SetCredential, DeleteCredential, hostVars
<1>2. preference' \in Selections \cup {None} /\ keyring' \in [Profiles -> Secrets \cup {None}]
  BY DEF Request, ServiceRequest, SetDefault, SetCredential, DeleteCredential,
         IInv, TypeOK, ServiceTypeOK
<1>3. Probed' BY <1>1 DEF IInv, Probed
<1>. QED BY <1>1, <1>2, <1>3, ElsewhereKeeps DEF IInv, TypeOK, ServiceTypeOK

----------------------------------------------------------------------------
LEMMA IdleFacts ==
  Idle \in Coroutines /\ Idle.pc = "idle" /\ Idle.box = None
BY DEF Idle, Coroutines, Pcs

(* What is left of a run when its coroutine is gone.                       *)
LEMMA IdleFine ==
  ASSUME IInv, NEW r \in Runs
  PROVE  Fine(task[r], Idle, None, sandbox[r])
BY IdleFacts, Here DEF Fine, Typed, Held, Rowed, Placed, Holding

LEMMA ShutdownKeeps == ASSUME IInv, Shutdown PROVE IInv'
<1>. USE DEF IInv
<1>1. process = "up" /\ process' = "stopping"
      /\ UNCHANGED <<release, preference, keyring, handle, task, sandbox, container, probe>>
  BY DEF Shutdown, serviceVars
<1>2. ASSUME NEW r \in Runs
      PROVE  /\ live'[r] \in Coroutines /\ live'[r].box = live[r].box
             /\ Fine(task[r], live'[r], handle[r], sandbox[r])
  <2>1. Fine(task[r], live[r], handle[r], sandbox[r]) /\ live[r] \in Coroutines BY Here
  <2>2. CASE At(r, "asking")
    <3>. DEFINE co == [live[r] EXCEPT !.abort = TRUE]
    <3>1. live'[r] = co BY <2>2 DEF Shutdown
    <3>2. co \in Coroutines /\ co.pc = "asking" /\ co.box = live[r].box
      BY <2>1, <2>2 DEF Coroutines, At
    <3>. HIDE DEF co
    <3>3. Fine(task[r], co, handle[r], sandbox[r])
      BY <2>1, <2>2, <3>2 DEF Fine, Typed, Held, Rowed, Placed, At
    <3>. QED BY <3>1, <3>2, <3>3
  <2>3. CASE At(r, "scheduled")
    <3>1. live'[r] = Idle BY <2>3 DEF Shutdown, At
    <3>2. Fine(task[r], Idle, handle[r], sandbox[r]) /\ live[r].box = None
      BY <2>1, <2>3, IdleFacts DEF Fine, Typed, Held, Rowed, Placed, Holding, At
    <3>. QED BY <3>1, <3>2, IdleFacts
  <2>4. CASE ~At(r, "asking") /\ ~At(r, "scheduled")
    BY <2>1, <2>4 DEF Shutdown
  <2>. QED BY <2>2, <2>3, <2>4
<1>3. live' \in [Runs -> Coroutines] BY <1>2 DEF Shutdown
<1>4. TypeOK' BY <1>1, <1>3 DEF TypeOK, ServiceTypeOK
<1>5. ASSUME NEW r \in Runs PROVE Fine(task[r], live[r], handle[r], sandbox[r])'
  <2>1. Fine(task[r], live'[r], handle[r], sandbox[r]) BY <1>2
  <2>. QED BY <1>1, <2>1 DEF Fine, Typed, Held, Rowed, Placed
<1>6. Shelved' BY <1>1, <1>2, ShelvesKept
<1>7. Probed' BY <1>1 DEF Probed
<1>8. Resting' BY <1>1 DEF Resting
<1>. QED BY <1>4, <1>5, <1>6, <1>7, <1>8 DEF RunsFine

(* The process ends: coroutines, handles and the probe go with it, rows    *)
(* and containers stay.                                                    *)
LEMMA GoneKeeps ==
  ASSUME IInv, Gone, Shelved',
         container' \in [Containers -> ContainerStates]
  PROVE  IInv'
<1>. USE DEF IInv
<1>1. process' = "down" /\ probe' = "idle"
      /\ UNCHANGED <<release, preference, keyring, task, sandbox>>
  BY DEF Gone
<1>2. live' \in [Runs -> Coroutines] /\ \A r \in Runs : live'[r] = Idle
  BY IdleFacts DEF Gone
<1>3. handle' \in [Owners -> Handles \cup {None}] /\ \A o \in Owners : handle'[o] = None
  BY DEF Gone
<1>4. TypeOK' BY <1>1, <1>2, <1>3 DEF TypeOK, ServiceTypeOK
<1>5. ASSUME NEW r \in Runs PROVE Fine(task[r], live[r], handle[r], sandbox[r])'
  <2>1. Fine(task[r], Idle, None, sandbox[r]) BY IdleFine
  <2>2. live'[r] = Idle /\ handle'[r] = None /\ task'[r] = task[r] /\ sandbox'[r] = sandbox[r]
    BY <1>1, <1>2, <1>3, OwnersAssumption
  <2>. QED BY <1>1, <2>1, <2>2 DEF Fine, Typed, Held, Rowed, Placed
<1>6. Probed' BY <1>1, <1>3, OwnersAssumption DEF Probed
<1>7. Resting' BY <1>2, IdleFacts DEF Resting
<1>. QED BY <1>4, <1>5, <1>6, <1>7 DEF RunsFine

LEMMA ExitKeeps == ASSUME IInv, Exit PROVE IInv'
<1>1. \A r \in Runs : live[r].box = None
  BY Here DEF Exit, Fine, Placed
<1>2. \A r \in Runs : live'[r].box = None BY IdleFacts DEF Exit, Gone
<1>3. UNCHANGED <<sandbox, container>> BY DEF Exit, Gone
<1>4. Shelved' BY <1>1, <1>2, <1>3, ShelvesKept DEF IInv
<1>. QED BY <1>3, <1>4, GoneKeeps DEF Exit, IInv, TypeOK

LEMMA CrashKeeps == ASSUME IInv, Crash PROVE IInv'
<1>1. \A r \in Runs : live'[r].box = None BY IdleFacts DEF Crash, Gone
<1>2. container' \in [Containers -> ContainerStates]
      /\ \A c \in Containers :
           container'[c] = IF container[c] = "starting" THEN "lost" ELSE container[c]
  BY DEF Crash, IInv, TypeOK, ContainerStates
<1>3. sandbox' = sandbox /\ \A r \in Runs : sandbox[r] # None => sandbox[r].id \in Containers
  BY DEF Crash, Gone, IInv, TypeOK, Boxes
<1>4. Shelved' BY <1>1, <1>2, <1>3 DEF Shelved, IInv
<1>. QED BY <1>2, <1>4, GoneKeeps DEF Crash

(* The runs rest: the release and rows without a binding may change.       *)
LEMMA InstallKeeps == ASSUME IInv, Install PROVE IInv'
<1>. USE DEF IInv
<1>1. process \in {"down", "failed"} /\ process' = "down" /\ release' \in Releases
      /\ UNCHANGED <<preference, keyring, handle, task, live, sandbox, container, probe>>
  BY DEF Install
<1>2. TypeOK' BY <1>1 DEF TypeOK, ServiceTypeOK
<1>3. ASSUME NEW r \in Runs PROVE Fine(task[r], live[r], handle[r], sandbox[r])'
  <2>1. Fine(task[r], live[r], handle[r], sandbox[r]) /\ live[r].pc = "idle" BY <1>1, Here
  <2>. QED BY <1>1, <2>1 DEF Fine, Typed, Held, Rowed, Placed, Holding
<1>4. Shelved' /\ Probed' /\ Resting' BY <1>1 DEF Shelved, Probed, Resting
<1>. QED BY <1>2, <1>3, <1>4 DEF RunsFine

LEMMA PausedUnboundFacts ==
  ASSUME IInv, NEW S \in SUBSET Unbound, NEW r \in Runs, task' = PausedUnbound(S)
  PROVE  /\ task'[r] = None <=> task[r] = None
         /\ task'[r] \in Rows \cup {None}
         /\ task[r] # None => task'[r].binding = task[r].binding
         /\ r \in S => /\ task'[r].status = "PAUSED" /\ task'[r].resume = None
                       /\ task[r] # None /\ task[r].binding = None
                       /\ task[r].status \notin TerminalStatuses
         /\ r \notin S => task'[r] = task[r]
<1>1. task[r] \in Rows \cup {None} BY Here
<1>2. CASE r \in S
  <2>1. task[r] # None /\ task[r].binding = None /\ task[r].status \notin TerminalStatuses
    BY <1>2 DEF Unbound, Recoverables, Ended
  <2>. DEFINE t == [task[r] EXCEPT !.status = "PAUSED", !.resume = None]
  <2>2. t \in Rows /\ t.binding = task[r].binding /\ t.status = "PAUSED" /\ t.resume = None
    BY <1>1, <2>1 DEF Rows, Statuses
  <2>3. task'[r] = t BY <1>2 DEF PausedUnbound
  <2>. HIDE DEF t
  <2>4. t # None BY <2>2, NoneAssumption
  <2>. QED BY <1>2, <2>1, <2>2, <2>3, <2>4
<1>3. CASE r \notin S
  BY <1>1, <1>3 DEF PausedUnbound
<1>. QED BY <1>2, <1>3

(* A row without a binding is of a run that never began.                   *)
LEMMA PausedFine ==
  ASSUME IInv, NEW S \in SUBSET Unbound, task' = PausedUnbound(S), NEW r \in Runs,
         NEW co \in Coroutines, co.box = None,
         co.pc = "idle" \/ (co.pc = "scheduled" /\ task[r] # None /\ task[r].binding # None)
  PROVE  Fine(task'[r], co, None, sandbox[r])
<1>1. Fine(task[r], co, None, sandbox[r])
  BY Here DEF Fine, Typed, Held, Rowed, Placed, Holding
<1>2. CASE r \notin S BY <1>1, <1>2, PausedUnboundFacts
<1>3. CASE r \in S
  <2>1. /\ task'[r] \in Rows /\ task'[r] # None /\ task'[r].binding = None
        /\ task[r].binding = None /\ task'[r].status = "PAUSED" /\ task'[r].resume = None
        /\ task[r].status \notin TerminalStatuses /\ "PAUSED" \notin Working
    BY <1>3, PausedUnboundFacts DEF Working
  <2>. QED BY <1>1, <2>1 DEF Fine, Typed, Held, Rowed, Placed, Holding
<1>. QED BY <1>2, <1>3

LEMMA BootFailsKeeps == ASSUME IInv, BootFails PROVE IInv'
<1>. USE DEF IInv
<1>1. process = "down" /\ process' = "failed"
      /\ UNCHANGED <<release, preference, keyring, handle, live, sandbox, container, probe>>
  BY DEF BootFails, serviceVars
<1>2. PICK S \in SUBSET Unbound : task' = PausedUnbound(S) BY DEF BootFails
<1>3. task' \in [Runs -> Rows \cup {None}] BY <1>2, PausedUnboundFacts DEF PausedUnbound
<1>4. TypeOK' BY <1>1, <1>3 DEF TypeOK, ServiceTypeOK
<1>5. ASSUME NEW r \in Runs PROVE Fine(task[r], live[r], handle[r], sandbox[r])'
  <2>1. live[r].pc = "idle" /\ live[r].box = None /\ handle[r] = None /\ live[r] \in Coroutines
    BY <1>1, Here DEF Fine, Held, Placed
  <2>2. Fine(task'[r], live[r], None, sandbox[r]) BY <1>2, <2>1, PausedFine
  <2>. QED BY <1>1, <2>1, <2>2 DEF Fine, Typed, Held, Rowed, Placed
<1>6. Shelved' /\ Probed' /\ Resting' BY <1>1 DEF Shelved, Probed, Resting
<1>. QED BY <1>4, <1>5, <1>6 DEF RunsFine

LEMMA BootKeeps == ASSUME IInv, Boot PROVE IInv'
<1>. USE DEF IInv
<1>1. process = "down" /\ process' = "up" /\ task' = PausedUnbound(Unbound)
      /\ UNCHANGED <<release, preference, keyring, handle, sandbox, container, probe>>
  BY DEF Boot, serviceVars
<1>2. ASSUME NEW r \in Runs
      PROVE  /\ live'[r] \in Coroutines /\ live'[r].box = None /\ live[r].box = None
             /\ handle[r] = None
             /\ \/ live'[r].pc = "idle"
                \/ live'[r].pc = "scheduled" /\ task[r] # None /\ task[r].binding # None
  <2>1. live[r].pc = "idle" /\ live[r].box = None /\ handle[r] = None
    BY <1>1, Here DEF Fine, Held, Placed
  <2>2. CASE r \in Recoverables \ Unbound
    <3>. DEFINE co == [Idle EXCEPT !.pc = "scheduled"]
    <3>1. live'[r] = co BY <2>2 DEF Boot
    <3>2. co \in Coroutines /\ co.pc = "scheduled" /\ co.box = None
      BY DEF Idle, Coroutines, Pcs
    <3>3. task[r] # None /\ task[r].binding # None BY <2>2 DEF Recoverables, Unbound
    <3>. QED BY <2>1, <3>1, <3>2, <3>3
  <2>3. CASE r \notin Recoverables \ Unbound
    <3>1. live'[r] = Idle BY <2>3 DEF Boot
    <3>. QED BY <2>1, <3>1, IdleFacts
  <2>. QED BY <2>2, <2>3
<1>3. live' \in [Runs -> Coroutines] BY <1>2 DEF Boot
<1>4. task' \in [Runs -> Rows \cup {None}] BY <1>1, PausedUnboundFacts DEF PausedUnbound
<1>5. TypeOK' BY <1>1, <1>3, <1>4 DEF TypeOK, ServiceTypeOK
<1>6. ASSUME NEW r \in Runs PROVE Fine(task[r], live[r], handle[r], sandbox[r])'
  <2>1. Fine(task'[r], live'[r], None, sandbox[r]) BY <1>1, <1>2, PausedFine
  <2>2. (task'[r] # None /\ task'[r].binding = None) => task'[r].status \notin Working
    <3>1. CASE r \in Unbound BY <1>1, <3>1, PausedUnboundFacts DEF Working
    <3>2. CASE r \notin Unbound
      BY <1>1, <3>2, PausedUnboundFacts
      DEF Unbound, Recoverables, Ended, Working, TerminalStatuses
    <3>. QED BY <3>1, <3>2
  <2>. QED BY <1>1, <1>2, <2>1, <2>2 DEF Fine, Typed, Held, Rowed, Placed
<1>7. Shelved' BY <1>1, <1>2, ShelvesKept
<1>8. Probed' /\ Resting' BY <1>1 DEF Probed, Resting
<1>. QED BY <1>5, <1>6, <1>7, <1>8 DEF RunsFine

----------------------------------------------------------------------------
LEMMA InitIInv == ASSUME Init PROVE IInv
<1>. USE DEF Init, ServiceInit
<1>1. Fallback \in Selections BY CatalogAssumption DEF Fallback, Selections
<1>2. Legacy \in Rows /\ Legacy.status = "EXECUTING" /\ Legacy.resume = None
      /\ Legacy.binding = None
  BY DEF Legacy, Rows, Statuses, Working, Bindings
<1>3. TypeOK BY <1>2, IdleFacts DEF TypeOK, ServiceTypeOK, ContainerStates
<1>4. Legacy # None BY <1>2, NoneAssumption
<1>5. ASSUME NEW r \in Runs PROVE Fine(task[r], live[r], handle[r], sandbox[r])
  <2>1. live[r] = Idle /\ handle[r] = None /\ sandbox[r] = None /\ task[r] \in {None, Legacy}
    BY OwnersAssumption
  <2>. QED BY <1>2, <1>4, <2>1, IdleFacts, NoneAssumption
    DEF Fine, Typed, Held, Rowed, Placed, Holding, Working, TerminalStatuses, Planned
<1>6. Shelved BY IdleFacts DEF Shelved
<1>7. Probed /\ Resting BY IdleFacts, OwnersAssumption DEF Probed, Resting
<1>. QED BY <1>3, <1>5, <1>6, <1>7 DEF IInv, RunsFine

LEMMA NextIInv == ASSUME IInv, [Next]_vars PROVE IInv'
<1>1. ASSUME NEW r \in Runs, Control(r) PROVE IInv'
  BY <1>1, CreateKeeps, PauseKeeps, CancelKeeps, ResumeKeeps DEF Control
<1>2. ASSUME NEW r \in Runs,
             Opening(r) \/ Preparing(r) \/ Prompting(r) \/ Ending(r) \/ StartRecovered(r)
      PROVE  IInv'
  BY <1>2, OpeningKeeps, PreparingKeeps, PromptingKeeps, EndingKeeps, StartRecoveredKeeps
<1>3. ASSUME Shutdown \/ Exit \/ Crash \/ Install \/ BootFails \/ Boot PROVE IInv'
  BY <1>3, ShutdownKeeps, ExitKeeps, CrashKeeps, InstallKeeps, BootFailsKeeps, BootKeeps
<1>4. CASE UNCHANGED vars
  BY <1>4 DEF vars, serviceVars, hostVars, IInv, TypeOK, ServiceTypeOK, RunsFine, Fine, Typed,
              Held, Rowed, Placed, Shelved, Probed, Resting
<1>. QED BY <1>1, <1>2, <1>3, <1>4, ProbingKeeps, RequestKeeps DEF Next

(* What holds of a run wherever its coroutine waits, as one invariant that *)
(* every step of any run, request, probe or process preserves.             *)
THEOREM Inductive == Spec => []IInv
BY InitIInv, NextIInv, PTL DEF Spec

(* Rows, coroutines, handles, sandboxes and containers stay well formed.   *)
THEOREM TypeCorrect == Spec => []TypeOK
<1>1. IInv => TypeOK BY DEF IInv
<1>. QED BY <1>1, Inductive, PTL

(* No API key stays in memory without a driver or a probe that owns it,    *)
(* however drivers, controls, crashes and failing removals interleave.     *)
THEOREM OwnedKeys == Spec => []KeysHaveHolders
<1>1. ASSUME IInv PROVE KeysHaveHolders
  BY <1>1, Here DEF KeysHaveHolders, HasKey, Inactive, At, Fine, Held, IInv, Probed
<1>. QED BY <1>1, Inductive, PTL

(* Every request of a run goes to the model it was created with.           *)
THEOREM BoundRequests == Spec => []RequestsFollowBinding
<1>1. ASSUME IInv PROVE RequestsFollowBinding
  BY <1>1, HoldingHasRow DEF RequestsFollowBinding, HasKey, At, Holding
<1>. QED BY <1>1, Inductive, PTL

----------------------------------------------------------------------------
(* The row of one run before and after a step.                             *)
Walks(t, u) ==
  IF t = None THEN u # None => u.status = "PREPARING"
  ELSE u # None /\ u.binding = t.binding /\ Follows(t.status, u.status)

LEMMA TableFacts ==
  /\ \A st \in Statuses : Follows(st, st)
  /\ \A st \in Working, to \in {"PAUSED", "FAILED", "CANCELLED"} : Follows(st, to)
  /\ \A to \in Working \cup {"FAILED", "CANCELLED"} : Follows("PAUSED", to)
  /\ Follows("PREPARING", "PLANNING") /\ Follows("EXECUTING", "SUCCEEDED")
<1>1. \A st \in Working, to \in {"PAUSED", "FAILED", "CANCELLED"} : CanTransitionTask(st, to)
  BY DEF Working, CanTransitionTask, TaskTransitions, Exits
<1>2. \A to \in Working \cup {"FAILED", "CANCELLED"} : CanTransitionTask("PAUSED", to)
  BY DEF Working, CanTransitionTask, TaskTransitions, ResumableStatuses
<1>3. CanTransitionTask("PREPARING", "PLANNING")
  BY DEF CanTransitionTask, TaskTransitions
<1>. QED BY <1>1, <1>2, <1>3 DEF Follows

(* A row that is rewritten keeps its binding; the status is what counts.   *)
LEMMA RowWalks ==
  ASSUME IInv, NEW r \in Runs, task[r] # None, NEW u \in Rows, u.binding = task[r].binding,
         Follows(task[r].status, u.status), task' = [task EXCEPT ![r] = u],
         NEW s \in Runs
  PROVE  Walks(task[s], task'[s])
<1>1. task \in [Runs -> Rows \cup {None}] /\ u # None
  BY NoneAssumption DEF IInv, TypeOK
<1>2. task'[s] = IF s = r THEN u ELSE task[s] BY <1>1
<1>3. task[s] # None => task[s].status \in Statuses BY <1>1 DEF Rows
<1>. QED BY <1>1, <1>2, <1>3, TableFacts DEF Walks

LEMMA Stays ==
  ASSUME IInv, UNCHANGED task, NEW s \in Runs
  PROVE  Walks(task[s], task'[s])
<1>1. task[s] # None => task[s].status \in Statuses BY DEF IInv, TypeOK, Rows
<1>. QED BY <1>1, TableFacts DEF Walks

(* What an update of the status leaves in the row.                         *)
LEMMA Rewritten ==
  ASSUME NEW t \in Rows, NEW st \in Statuses
  PROVE  LET u == [t EXCEPT !.status = st]
         IN u \in Rows /\ u.status = st /\ u.binding = t.binding
BY DEF Rows

LEMMA PreparedWalks ==
  ASSUME IInv, NEW r \in Runs, live[r].pc \in Holding, task' = Prepared(r), NEW s \in Runs
  PROVE  Walks(task[s], task'[s])
<1>1. task[r] \in Rows /\ task[r] # None BY HoldingHasRow
<1>2. PICK t \in Rows : /\ Prepared(r) = [task EXCEPT ![r] = t]
                        /\ t.binding = task[r].binding
                        /\ t.status = IF task[r].status = "PREPARING" THEN "PLANNING"
                                      ELSE task[r].status
  BY PreparedFacts
<1>3. Follows(task[r].status, t.status) BY <1>1, <1>2, TableFacts DEF Rows
<1>. QED BY <1>1, <1>2, <1>3, RowWalks

LEMMA PromptReturnsWalks ==
  ASSUME IInv, NEW r \in Runs, PromptReturns(r), NEW s \in Runs
  PROVE  Walks(task[s], task'[s])
<1>1. task[r] \in Rows /\ task[r] # None
  BY HoldingHasRow DEF PromptReturns, At, Holding
<1>. DEFINE Goes(st) == task' = [task EXCEPT ![r] = [task[r] EXCEPT !.resume = None, !.status = st]]
<1>2. \/ CanTransitionTask(task[r].status, "EXECUTING") /\ Goes("EXECUTING")
      \/ task' = [task EXCEPT ![r].resume = None]
      \/ task[r].status = "EXECUTING" /\ Goes("EXECUTING")
      \/ task[r].status = "EXECUTING" /\ Goes("SUCCEEDED")
      \/ Goes(task[r].status)
  BY DEF PromptReturns
<1>3. ASSUME NEW st \in Statuses, Goes(st), Follows(task[r].status, st)
      PROVE  Walks(task[s], task'[s])
  <2>. DEFINE u == [task[r] EXCEPT !.resume = None, !.status = st]
  <2>1. u \in Rows /\ u.binding = task[r].binding /\ u.status = st
    BY <1>1, <1>3 DEF Rows
  <2>2. task' = [task EXCEPT ![r] = u] BY <1>3
  <2>. HIDE DEF u
  <2>. QED BY <1>1, <1>3, <2>1, <2>2, RowWalks
<1>4. CASE task' = [task EXCEPT ![r].resume = None]
  <2>. DEFINE u == [task[r] EXCEPT !.resume = None]
  <2>1. u \in Rows /\ u.binding = task[r].binding /\ u.status = task[r].status
    BY <1>1 DEF Rows
  <2>2. task' = [task EXCEPT ![r] = u] BY <1>4
  <2>. HIDE DEF u
  <2>. QED BY <1>1, <2>1, <2>2, TableFacts, RowWalks DEF Rows
<1>5. task[r].status \in Statuses /\ "EXECUTING" \in Statuses /\ "SUCCEEDED" \in Statuses
  BY <1>1 DEF Rows, Statuses, Working, TerminalStatuses
<1>. HIDE DEF Goes
<1>. QED BY <1>2, <1>3, <1>4, <1>5, TableFacts DEF Follows

(* The catch clause, a rejected promise and a control write one status.    *)
LEMMA FailedWalks ==
  ASSUME IInv, NEW r \in Runs, task[r] # None, ~Ended(r),
         NEW st \in {"FAILED", "CANCELLED"}, task' = [task EXCEPT ![r].status = st],
         NEW s \in Runs
  PROVE  Walks(task[s], task'[s])
<1>1. task[r] \in Rows BY Here
<1>2. task[r].status \in Working \cup {"PAUSED"} BY <1>1 DEF Rows, Statuses, Ended
<1>3. st \in Statuses BY DEF Statuses, TerminalStatuses
<1>. DEFINE u == [task[r] EXCEPT !.status = st]
<1>4. task' = [task EXCEPT ![r] = u] OBVIOUS
<1>5. Follows(task[r].status, st) BY <1>2, TableFacts
<1>6. u \in Rows /\ u.binding = task[r].binding /\ u.status = st
  BY <1>1, <1>3, Rewritten
<1>. HIDE DEF u
<1>. QED BY <1>4, <1>5, <1>6, RowWalks

LEMMA PausedWalks ==
  ASSUME IInv, NEW r \in Runs, task[r] # None, ~Ended(r), task' = PausedFrom(r),
         NEW s \in Runs
  PROVE  Walks(task[s], task'[s])
<1>1. task[r] \in Rows BY Here
<1>2. task[r].status \in Working \cup {"PAUSED"} BY <1>1 DEF Rows, Statuses, Ended
<1>. DEFINE u == [task[r] EXCEPT !.resume = task[r].status, !.status = "PAUSED"]
<1>3. task' = [task EXCEPT ![r] = u] BY DEF PausedFrom
<1>4. "PAUSED" \in Statuses /\ Follows(task[r].status, "PAUSED")
  BY <1>2, TableFacts DEF Statuses
<1>5. u \in Rows /\ u.binding = task[r].binding /\ u.status = "PAUSED"
  BY <1>1, <1>2, <1>4 DEF Rows
<1>. HIDE DEF u
<1>. QED BY <1>3, <1>4, <1>5, RowWalks

LEMMA CatchWalks ==
  ASSUME IInv, NEW r \in Runs, Catch(r), NEW s \in Runs
  PROVE  Walks(task[s], task'[s])
<1>1. task[r] # None BY Here DEF Catch, At, Fine, Rowed
<1>2. CASE ~Ended(r) /\ Blocked(r)
  <2>1. \/ task' = [task EXCEPT ![r].status = "FAILED"]
        \/ task' = PausedFrom(r)
    BY <1>2 DEF Blocked
  <2>. QED BY <1>1, <1>2, <2>1, FailedWalks, PausedWalks
<1>3. CASE ~Ended(r) /\ task' = [task EXCEPT ![r].status = "FAILED"]
  BY <1>1, <1>3, FailedWalks
<1>4. CASE UNCHANGED task BY <1>4, Stays
<1>. QED BY <1>2, <1>3, <1>4 DEF Catch

LEMMA DisposedWalks ==
  ASSUME IInv, NEW r \in Runs, Disposed(r), NEW s \in Runs
  PROVE  Walks(task[s], task'[s])
<1>1. task[r] # None BY Here DEF Disposed, At, Fine, Rowed
<1>. DEFINE fails == (live[r].fault = "rejected" \/ handle'[r] # None) /\ ~Ended(r)
<1>2. task' = [task EXCEPT ![r].status = IF fails THEN "FAILED" ELSE @] BY DEF Disposed
<1>. HIDE DEF fails
<1>3. CASE fails
  <2>1. ~Ended(r) BY <1>3 DEF fails
  <2>. QED BY <1>1, <1>2, <1>3, <2>1, FailedWalks
<1>4. CASE ~fails
  <2>1. task' = [task EXCEPT ![r] = [task[r] EXCEPT !.status = task[r].status]]
    BY <1>2, <1>4
  <2>2. task[r] \in Rows /\ task[r].status \in Statuses BY <1>1, Here DEF Rows
  <2>. QED BY <1>1, <2>1, <2>2, Rewritten, TableFacts, RowWalks
<1>. QED BY <1>3, <1>4

LEMMA ControlWalks ==
  ASSUME IInv, NEW r \in Runs, Control(r), NEW s \in Runs
  PROVE  Walks(task[s], task'[s])
<1>1. CASE Create(r)
  <2>1. PICK u : u.status = "PREPARING" /\ task' = [task EXCEPT ![r] = u]
    BY <1>1 DEF Create, Begin
  <2>2. task \in [Runs -> Rows \cup {None}] /\ task[r] = None
    BY <1>1 DEF IInv, TypeOK, Create
  <2>3. task'[s] = IF s = r THEN u ELSE task[s] BY <2>1, <2>2
  <2>4. task[s] # None => task[s].status \in Statuses BY <2>2 DEF Rows
  <2>. QED BY <2>1, <2>2, <2>3, <2>4, TableFacts DEF Walks
<1>2. CASE Pause(r)
  <2>1. task[r] # None /\ ~Ended(r) /\ task' = PausedFrom(r)
    BY <1>2 DEF Pause, Ended, Working, TerminalStatuses
  <2>. QED BY <2>1, PausedWalks
<1>3. CASE Cancel(r)
  <2>1. task[r] # None BY <1>3 DEF Cancel
  <2>2. CASE Ended(r)
    <3>1. task' = [task EXCEPT ![r] = [task[r] EXCEPT !.status = task[r].status]]
      BY <1>3, <2>2 DEF Cancel
    <3>2. task[r] \in Rows /\ task[r].status \in Statuses BY <2>1, Here DEF Rows
    <3>. QED BY <2>1, <3>1, <3>2, Rewritten, TableFacts, RowWalks
  <2>3. CASE ~Ended(r)
    <3>1. task' = [task EXCEPT ![r].status = "CANCELLED"] BY <1>3, <2>3 DEF Cancel
    <3>. QED BY <2>1, <2>3, <3>1, FailedWalks
  <2>. QED BY <2>2, <2>3
<1>4. CASE Resume(r)
  <2>1. task[r] # None /\ task[r] \in Rows /\ task[r].status = "PAUSED"
        /\ task[r].resume \in Working
    BY <1>4, Here DEF Resume
  <2>. DEFINE row == [task[r] EXCEPT !.status = task[r].resume]
              failed == [row EXCEPT !.status = "FAILED"]
  <2>2. {"FAILED", task[r].resume} \subseteq Statuses
    BY <2>1 DEF Statuses, TerminalStatuses
  <2>3. row \in Rows /\ row.binding = task[r].binding /\ row.status = task[r].resume
    BY <2>1, <2>2, Rewritten
  <2>. HIDE DEF row
  <2>4. failed \in Rows /\ failed.binding = task[r].binding /\ failed.status = "FAILED"
    BY <2>2, <2>3, Rewritten
  <2>. HIDE DEF failed
  <2>5. \E u \in {row, failed} : task' = [task EXCEPT ![r] = u]
    BY <1>4 DEF Resume, Begin, row, failed
  <2>. QED BY <2>1, <2>3, <2>4, <2>5, TableFacts, RowWalks
<1>. QED BY <1>1, <1>2, <1>3, <1>4 DEF Control

LEMMA StartRecoveredWalks ==
  ASSUME IInv, NEW r \in Runs, StartRecovered(r), NEW s \in Runs
  PROVE  Walks(task[s], task'[s])
<1>1. task' = task
  BY Same DEF StartRecovered, Begin, IInv
<1>. QED BY <1>1, Stays

LEMMA RecoveryWalks ==
  ASSUME IInv, NEW S \in SUBSET Unbound, task' = PausedUnbound(S), NEW s \in Runs
  PROVE  Walks(task[s], task'[s])
<1>1. CASE s \notin S
  <2>1. task'[s] = task[s] BY <1>1, PausedUnboundFacts
  <2>2. task[s] # None => task[s].status \in Statuses BY Here DEF Rows
  <2>. QED BY <2>1, <2>2, TableFacts DEF Walks
<1>2. CASE s \in S
  <2>1. /\ task'[s].status = "PAUSED" /\ task'[s] # None
        /\ task[s] # None /\ task[s].status \notin TerminalStatuses
        /\ task'[s].binding = task[s].binding
    BY <1>2, PausedUnboundFacts
  <2>2. task[s] \in Rows BY <2>1, Here
  <2>3. task[s].status \in Working \cup {"PAUSED"} BY <2>1, <2>2 DEF Rows, Statuses
  <2>4. Follows(task[s].status, "PAUSED") BY <2>3, TableFacts DEF Statuses
  <2>. QED BY <2>1, <2>4 DEF Walks
<1>. QED BY <1>1, <1>2

LEMMA NextWalks ==
  ASSUME IInv, Next, NEW s \in Runs
  PROVE  Walks(task[s], task'[s])
<1>1. ASSUME NEW r \in Runs, Opening(r) \/ Preparing(r) PROVE Walks(task[s], task'[s])
  <2>1. CASE task' = Prepared(r) /\ (Opened(r) \/ Seeded(r))
    BY <2>1, PreparedWalks DEF Opened, Seeded, At, Holding
  <2>2. CASE UNCHANGED task BY <2>2, Stays
  <2>. QED
    BY <1>1, <2>1, <2>2 DEF Opening, Preparing, OpenFails, KeyRejected, Unwound, Opened,
       PackFails, ContainerCreated, SeedFails, Discarded, Seeded
<1>2. ASSUME NEW r \in Runs, Prompting(r) PROVE Walks(task[s], task'[s])
  BY <1>2, PromptReturnsWalks, Stays DEF Prompting, JoinFails, SessionClosed, Joined,
     OutputArrives, ToolsCalled, CommandTimesOut, WorkFails, PromptFails
<1>3. ASSUME NEW r \in Runs, Ending(r) PROVE Walks(task[s], task'[s])
  BY <1>3, CatchWalks, DisposedWalks, Stays DEF Ending, ContainerRemoved, Cleaned, Swept
<1>4. CASE Probing \/ Request
  BY <1>4, Stays DEF Probing, ProbeBegins, ProbeOpens, ProbeUnwinds, ProbeAnswered,
     ProbeTimesOut, ProbeEnds, Request, hostVars
<1>5. CASE Shutdown \/ Exit \/ Crash \/ Install
  BY <1>5, Stays DEF Shutdown, Exit, Crash, Install, Gone
<1>6. CASE BootFails \/ Boot BY <1>6, RecoveryWalks DEF BootFails, Boot
<1>. QED
  BY <1>1, <1>2, <1>3, <1>4, <1>5, <1>6, ControlWalks, StartRecoveredWalks DEF Next

(* The row of a run is written by its coroutine, by controls, by a failed  *)
(* start and by recovery, each on what it read itself; together they never *)
(* leave the task table, revive a run or change the model it is bound to.  *)
THEOREM LifecycleWalks == Spec => RunsFollowLifecycle
<1>. DEFINE Walk == \A r \in Runs :
       IF task[r] = None
       THEN task'[r] # None => task'[r].status = "PREPARING"
       ELSE /\ task'[r] # None
            /\ task'[r].binding = task[r].binding
            /\ Follows(task[r].status, task'[r].status)
<1>1. IInv /\ [Next]_vars => [Walk]_vars
  <2>. SUFFICES ASSUME IInv, Next PROVE Walk OBVIOUS
  <2>. QED BY NextWalks DEF Walks
<1>. QED BY <1>1, Inductive, PTL DEF Spec, RunsFollowLifecycle

----------------------------------------------------------------------------
(* What ProbeIsBounded and CancelReleasesKey rest on: no step goes back.   *)
(* No step of a probe does, whatever the provider answers; and none in the *)
(* driver of a run that has ended, which may still get through preflight   *)
(* and begin a prompt, but begins no second one: a prompt that returns     *)
(* leaves its place for a later one, an abort of the prompt is not lost,   *)
(* and no request, timer or recovery starts the run again.                 *)
ProbeStage(p) ==
  CASE p = "opening" -> 4 [] p = "text" -> 3 [] p = "tool" -> 2
    [] p \in {"unwinding", "closing"} -> 1 [] OTHER -> 0
RunStage(p) ==
  CASE p = "opening" -> 10  [] p = "packing" -> 9                 [] p = "seeding" -> 8
    [] p = "joining" -> 7   [] p \in {"asking", "leaving",
                                      "unwinding", "discarding"} -> 6
    [] p = "catch" -> 5     [] p = "cleanup" -> 4                 [] p = "removed" -> 3
    [] p = "disposing" -> 2 [] p = "zombie" -> 1                  [] OTHER -> 0
ProbesAdvance ==
  [][(probe # "idle" /\ probe' # probe) => ProbeStage(probe') < ProbeStage(probe)]_vars
EndedRunsWindDown ==
  [][\A r \in Runs : (task[r] # None /\ Ended(r)) =>
       \/ live'[r].pc = live[r].pc /\ (live[r].abort => live'[r].abort) /\ ~PromptReturns(r)
       \/ RunStage(live'[r].pc) < RunStage(live[r].pc)
       \/ Inactive(r) /\ Inactive(r)']_vars

(* How far each place of a driver and of a probe is from the end.          *)
LEMMA RunStages ==
  /\ RunStage("opening") = 10 /\ RunStage("packing") = 9 /\ RunStage("seeding") = 8
  /\ RunStage("joining") = 7 /\ RunStage("asking") = 6 /\ RunStage("leaving") = 6
  /\ RunStage("unwinding") = 6 /\ RunStage("discarding") = 6 /\ RunStage("catch") = 5
  /\ RunStage("cleanup") = 4 /\ RunStage("removed") = 3 /\ RunStage("disposing") = 2
  /\ RunStage("zombie") = 1 /\ RunStage("idle") = 0 /\ RunStage("sweeping") = 0
  /\ RunStage("swept") = 0 /\ RunStage("scheduled") = 0
BY DEF RunStage

(* The coroutine of a run that has ended, before and after a step.         *)
Winds(co, d) ==
  \/ d.pc = co.pc /\ (co.abort => d.abort)
  \/ RunStage(d.pc) < RunStage(co.pc)
  \/ {co.pc, d.pc} \subseteq {"idle", "scheduled", "sweeping", "swept"}

LEMMA OthersStay ==
  ASSUME IInv, NEW r \in Runs, NEW s \in Runs, s # r,
         \/ Opening(r) \/ Preparing(r) \/ Prompting(r) \/ Ending(r)
         \/ Control(r) \/ StartRecovered(r)
  PROVE  live'[s] = live[s]
<1>1. live \in [Runs -> Coroutines] BY DEF IInv, TypeOK
<1>. USE <1>1 DEF Goto, Throw, Finally
<1>2. CASE Opening(r)
  BY <1>2 DEF Opening, OpenFails, KeyRejected, Unwound, Opened
<1>3. CASE Preparing(r)
  BY <1>3 DEF Preparing, PackFails, ContainerCreated, SeedFails, Discarded, Seeded
<1>4. CASE Prompting(r)
  BY <1>4 DEF Prompting, JoinFails, SessionClosed, Joined, OutputArrives, ToolsCalled,
     CommandTimesOut, PromptReturns, WorkFails, PromptFails
<1>5. CASE Ending(r)
  BY <1>5 DEF Ending, Catch, Blocked, ContainerRemoved, Cleaned, Disposed, Swept
<1>6. CASE Control(r)
  BY <1>6 DEF Control, Create, Begin, Pause, Cancel, Resume, Aborted
<1>7. CASE StartRecovered(r) BY <1>7 DEF StartRecovered, Begin
<1>. QED BY <1>2, <1>3, <1>4, <1>5, <1>6, <1>7

(* Where the helpers of the actions leave the coroutine.                   *)
LEMMA PlacesSet ==
  ASSUME IInv, NEW r \in Runs
  PROVE  /\ \A pc : Goto(r, pc) => live'[r].pc = pc
         /\ \A f : Throw(r, f) => live'[r].pc = "catch"
         /\ \A st : Finally(r, st) => live'[r].pc \in {"cleanup", "disposing"}
         /\ \A m : live' = [live EXCEPT ![r] = [Idle EXCEPT !.pc = "joining", !.mode = m]]
              => live'[r].pc = "joining"
         /\ live' = [live EXCEPT ![r] = [Idle EXCEPT !.pc = "joining"]]
              => live'[r].pc = "joining"
<1>1. live \in [Runs -> Coroutines] BY DEF IInv, TypeOK
<1>2. ASSUME NEW pc, Goto(r, pc) PROVE live'[r].pc = pc
  BY <1>1, <1>2 DEF Goto, Coroutines
<1>3. ASSUME NEW f, Throw(r, f) PROVE live'[r].pc = "catch"
  <2>1. live' = [live EXCEPT ![r] = [Idle EXCEPT !.pc = "catch", !.fault = f]]
    BY <1>3 DEF Throw
  <2>. QED BY <1>1, <2>1 DEF Idle
<1>4. ASSUME NEW st, Finally(r, st) PROVE live'[r].pc \in {"cleanup", "disposing"}
  <2>. DEFINE pc == IF st \in TerminalStatuses THEN "cleanup" ELSE "disposing"
  <2>1. live' = [live EXCEPT ![r] = [Idle EXCEPT !.pc = pc]] BY <1>4 DEF Finally
  <2>2. pc \in {"cleanup", "disposing"} OBVIOUS
  <2>. HIDE DEF pc
  <2>. QED BY <1>1, <2>1, <2>2 DEF Idle
<1>5. ASSUME NEW m, live' = [live EXCEPT ![r] = [Idle EXCEPT !.pc = "joining", !.mode = m]]
      PROVE  live'[r].pc = "joining"
  BY <1>1, <1>5 DEF Idle
<1>6. ASSUME live' = [live EXCEPT ![r] = [Idle EXCEPT !.pc = "joining"]]
      PROVE  live'[r].pc = "joining"
  BY <1>1, <1>6 DEF Idle
<1>. QED BY <1>2, <1>3, <1>4, <1>5, <1>6

(* Through the preflight and the preparation; the row is not looked at.    *)
LEMMA OpeningWinds ==
  ASSUME IInv, NEW r \in Runs, Opening(r) \/ Preparing(r)
  PROVE  Winds(live[r], live'[r])
<1>1. live \in [Runs -> Coroutines] BY DEF IInv, TypeOK
<1>2. live[r].pc = "opening" /\ Opening(r) =>
        live'[r].pc \in {"unwinding", "packing", "joining", "catch", "cleanup", "disposing"}
  <2>1. CASE OpenFails(r) \/ KeyRejected(r) \/ Unwound(r)
    BY <2>1, PlacesSet DEF OpenFails, KeyRejected, Unwound
  <2>2. CASE Opened(r) BY <2>2, PlacesSet DEF Opened
  <2>. QED BY <2>1, <2>2 DEF Opening
<1>3. live[r].pc # "opening" /\ Opening(r) =>
        live[r].pc = "unwinding" /\ live'[r].pc = "catch"
  BY PlacesSet DEF Opening, OpenFails, KeyRejected, Unwound, Opened, At
<1>4. CASE PackFails(r) \/ SeedFails(r)
  <2>1. CASE PackFails(r)
    <3>1. live'[r].pc = "catch" BY <2>1, PlacesSet DEF PackFails
    <3>. QED BY <2>1, <3>1, RunStages DEF PackFails, At, Winds
  <2>2. CASE SeedFails(r)
    <3>1. live'[r].pc = "discarding" BY <2>2, PlacesSet DEF SeedFails
    <3>. QED BY <2>2, <3>1, RunStages DEF SeedFails, At, Winds
  <2>. QED BY <1>4, <2>1, <2>2
<1>5. CASE ContainerCreated(r)
  <2>1. PICK c \in Containers :
          live' = [live EXCEPT ![r] = [live[r] EXCEPT !.pc = "seeding", !.box = c]]
    BY <1>5 DEF ContainerCreated
  <2>2. live'[r].pc = "seeding" BY <1>1, <2>1 DEF Coroutines
  <2>. QED BY <1>5, <2>2, RunStages DEF ContainerCreated, At, Winds
<1>6. CASE Discarded(r)
  <2>1. live'[r].pc = "catch" BY <1>6, PlacesSet DEF Discarded
  <2>. QED BY <1>6, <2>1, RunStages DEF Discarded, At, Winds
<1>7. CASE Seeded(r)
  <2>1. live'[r].pc \in {"joining", "cleanup", "disposing"} BY <1>7, PlacesSet DEF Seeded
  <2>. QED BY <1>7, <2>1, RunStages DEF Seeded, At, Winds
<1>8. CASE Opening(r) BY <1>2, <1>3, <1>8, RunStages DEF Winds
<1>. QED BY <1>4, <1>5, <1>6, <1>7, <1>8 DEF Preparing

(* A prompt of a run that has ended returns: no other begins.              *)
LEMMA EndedReturns ==
  ASSUME IInv, NEW r \in Runs, Ended(r), PromptReturns(r)
  PROVE  live[r].pc = "asking" /\ live'[r].pc \in {"catch", "cleanup", "disposing"}
<1>1. live \in [Runs -> Coroutines] BY DEF IInv, TypeOK
<1>2. task[r].status # "EXECUTING" /\ ~CanTransitionTask(task[r].status, "EXECUTING")
  BY DEF Ended, CanTransitionTask, TaskTransitions, TerminalStatuses
<1>3. Throw(r, "error") \/ Finally(r, task[r].status) BY <1>2 DEF PromptReturns
<1>. QED BY <1>3, PlacesSet DEF PromptReturns, At

(* A run that has ended begins no further prompt: its status allows none.  *)
LEMMA PromptingWinds ==
  ASSUME IInv, NEW r \in Runs, Ended(r), Prompting(r)
  PROVE  Winds(live[r], live'[r])
<1>1. live \in [Runs -> Coroutines] BY DEF IInv, TypeOK
<1>2. CASE OutputArrives(r)
  BY <1>1, <1>2 DEF OutputArrives, Coroutines, Winds
<1>3. CASE ToolsCalled(r)
  <2>1. live' = [live EXCEPT ![r] = [live[r] EXCEPT !.output = FALSE, !.earlier = TRUE]]
    BY <1>3 DEF ToolsCalled
  <2>. QED BY <1>1, <2>1 DEF Coroutines, Winds
<1>4. CASE PromptReturns(r)
  BY <1>4, EndedReturns, RunStages DEF Winds
<1>5. CASE CommandTimesOut(r) BY <1>5 DEF CommandTimesOut, Winds
<1>6. CASE JoinFails(r) \/ Joined(r)
  <2>1. live[r].pc = "joining" BY <1>6 DEF JoinFails, Joined, At
  <2>2. live'[r].pc \in {"leaving", "asking", "catch"}
    BY <1>6, PlacesSet DEF JoinFails, Joined
  <2>. QED BY <2>1, <2>2, RunStages DEF Winds
<1>7. CASE SessionClosed(r) \/ WorkFails(r) \/ PromptFails(r)
  <2>1. live[r].pc \in {"leaving", "asking"}
    BY <1>7 DEF SessionClosed, WorkFails, PromptFails, At
  <2>2. live'[r].pc = "catch"
    BY <1>7, PlacesSet DEF SessionClosed, WorkFails, PromptFails
  <2>. QED BY <2>1, <2>2, RunStages DEF Winds
<1>. QED BY <1>2, <1>3, <1>4, <1>5, <1>6, <1>7 DEF Prompting

LEMMA EndingWinds ==
  ASSUME IInv, NEW r \in Runs, Ended(r), Ending(r)
  PROVE  Winds(live[r], live'[r])
<1>1. live \in [Runs -> Coroutines] BY DEF IInv, TypeOK
<1>. USE <1>1, RunStages DEF Goto, At, Coroutines, Winds
<1>2. CASE Catch(r)
  <2>1. live'[r].pc \in {"cleanup", "disposing"} BY <1>2, PlacesSet DEF Catch
  <2>. QED BY <1>2, <2>1 DEF Catch
<1>3. CASE Cleaned(r) \/ ContainerRemoved(r) BY <1>3 DEF Cleaned, ContainerRemoved
<1>4. CASE Disposed(r) BY <1>4 DEF Disposed, Idle
<1>5. CASE Swept(r) BY <1>5 DEF Swept
<1>. QED BY <1>2, <1>3, <1>4, <1>5 DEF Ending

(* A request or a timer finds a run that has ended, and leaves its driver. *)
LEMMA ControlWinds ==
  ASSUME IInv, NEW r \in Runs, task[r] # None, Ended(r), Control(r) \/ StartRecovered(r)
  PROVE  Winds(live[r], live'[r])
<1>1. live \in [Runs -> Coroutines] BY DEF IInv, TypeOK
<1>2. task[r].status \notin Working \cup {"PAUSED"}
  BY DEF Ended, TerminalStatuses, Working
<1>3. CASE Cancel(r)
  <2>1. CASE Inactive(r)
    BY <1>1, <1>3, <2>1 DEF Cancel, Goto, Winds, Inactive, Coroutines
  <2>2. CASE ~Inactive(r)
    BY <1>1, <1>3, <2>2 DEF Cancel, Aborted, Winds, Coroutines
  <2>. QED BY <2>1, <2>2
<1>4. CASE StartRecovered(r)
  BY <1>1, <1>2, <1>4 DEF StartRecovered, Goto, At, Winds, Coroutines
<1>. QED BY <1>2, <1>3, <1>4 DEF Control, Create, Pause, Resume

LEMMA NextWinds ==
  ASSUME IInv, Next, NEW s \in Runs, task[s] # None, Ended(s)
  PROVE  Winds(live[s], live'[s])
<1>1. live \in [Runs -> Coroutines] BY DEF IInv, TypeOK
<1>2. ASSUME live'[s] = live[s] PROVE Winds(live[s], live'[s]) BY <1>2 DEF Winds
<1>3. ASSUME NEW r \in Runs,
             \/ Opening(r) \/ Preparing(r) \/ Prompting(r) \/ Ending(r)
             \/ Control(r) \/ StartRecovered(r)
      PROVE  Winds(live[s], live'[s])
  <2>1. CASE s # r BY <1>2, <1>3, <2>1, OthersStay
  <2>2. CASE s = r
    BY <1>3, <2>2, OpeningWinds, PromptingWinds, EndingWinds, ControlWinds
  <2>. QED BY <2>1, <2>2
<1>4. CASE Probing \/ Request \/ Install \/ BootFails
  BY <1>2, <1>4 DEF Probing, ProbeBegins, ProbeOpens, ProbeUnwinds, ProbeAnswered,
     ProbeTimesOut, ProbeEnds, Request, hostVars, Install, BootFails
<1>5. CASE Shutdown
  <2>1. live'[s] = IF At(s, "asking") THEN [live[s] EXCEPT !.abort = TRUE]
                   ELSE IF At(s, "scheduled") THEN Idle ELSE live[s]
    BY <1>5 DEF Shutdown
  <2>2. CASE At(s, "asking") BY <1>1, <2>1, <2>2 DEF Winds, Coroutines
  <2>3. CASE At(s, "scheduled") BY <2>1, <2>3 DEF At, Winds, Idle
  <2>4. CASE ~At(s, "asking") /\ ~At(s, "scheduled") BY <1>2, <2>1, <2>4
  <2>. QED BY <2>2, <2>3, <2>4
<1>6. CASE Exit \/ Crash
  <2>1. live'[s] = Idle BY <1>6 DEF Exit, Crash, Gone
  <2>2. RunStage(live'[s].pc) = 0 /\ live'[s].pc = "idle" BY <2>1, RunStages DEF Idle
  <2>3. \/ live[s].pc \in {"idle", "scheduled", "sweeping", "swept"}
        \/ RunStage(live[s].pc) > 0
    BY <1>1, RunStages DEF Coroutines, Pcs
  <2>. QED BY <2>2, <2>3 DEF Winds
<1>7. CASE Boot
  <2>1. live[s].pc = "idle" BY <1>7, Here DEF Boot
  <2>2. s \notin Recoverables BY DEF Recoverables
  <2>3. live'[s] = Idle BY <1>7, <2>2 DEF Boot
  <2>. QED BY <2>1, <2>3 DEF Idle, Winds
<1>. QED BY <1>3, <1>4, <1>5, <1>6, <1>7 DEF Next

(* For any number of runs and containers, and whatever a provider answers: *)
(* the driver of a run that has ended comes to its end, one prompt at most *)
(* from there, and whoever writes to the run does not start it again.      *)
THEOREM EndedRunsEnd == Spec => EndedRunsWindDown
<1>. DEFINE Wind == \A r \in Runs : (task[r] # None /\ Ended(r)) =>
       \/ live'[r].pc = live[r].pc /\ (live[r].abort => live'[r].abort) /\ ~PromptReturns(r)
       \/ RunStage(live'[r].pc) < RunStage(live[r].pc)
       \/ Inactive(r) /\ Inactive(r)'
<1>1. IInv /\ [Next]_vars => [Wind]_vars
  <2>. SUFFICES ASSUME IInv, Next, NEW r \in Runs, task[r] # None, Ended(r)
                PROVE  \/ /\ live'[r].pc = live[r].pc /\ (live[r].abort => live'[r].abort)
                          /\ ~PromptReturns(r)
                       \/ RunStage(live'[r].pc) < RunStage(live[r].pc)
                       \/ Inactive(r) /\ Inactive(r)'
    OBVIOUS
  <2>1. live'[r].pc = live[r].pc => ~PromptReturns(r) BY EndedReturns
  <2>. QED BY <2>1, NextWinds DEF Winds, Inactive
<1>. QED BY <1>1, Inductive, PTL DEF Spec, EndedRunsWindDown

----------------------------------------------------------------------------
(* Where Docker has removed the container of a row: a READY row is of a    *)
(* run that has ended, whose driver has its prompts behind it.  (The row of*)
(* a cleanup that was interrupted between the two stays so for good.)      *)
Wound == {"removed", "disposing", "zombie", "idle", "scheduled", "sweeping", "swept"}

Cleared ==
  \A r \in Runs :
    /\ HasContainer(r) /\ container[sandbox[r].id] = "gone" => Ended(r) /\ live[r].pc \in Wound
    /\ live[r].pc \in {"removed", "swept"} =>
         HasContainer(r) /\ container[sandbox[r].id] = "gone"
    /\ sandbox[r] # None /\ sandbox[r].status = "DESTROYED" => container[sandbox[r].id] = "gone"

(* What Docker has removed is not there again.                             *)
LEMMA GoneStays ==
  ASSUME IInv, Next, NEW c \in Containers, container[c] = "gone"
  PROVE  container'[c] = "gone"
<1>. USE DEF IInv, TypeOK
<1>1. \A r \in Runs : live[r].box # c
  BY NoneAssumption DEF Shelved
<1>2. ASSUME NEW r \in Runs, Opening(r) \/ Control(r) \/ StartRecovered(r)
      PROVE  container' = container
  BY <1>2 DEF Opening, OpenFails, KeyRejected, Unwound, Opened, Control, Create, Pause, Cancel,
     Resume, StartRecovered
<1>3. ASSUME NEW r \in Runs, Preparing(r) PROVE container'[c] = "gone"
  BY <1>1, <1>3 DEF Preparing, PackFails, ContainerCreated, SeedFails, Discarded, Discard, Seeded
<1>4. ASSUME NEW r \in Runs, Prompting(r) PROVE container'[c] = "gone"
  BY <1>4 DEF Prompting, JoinFails, SessionClosed, Joined, OutputArrives, ToolsCalled,
     CommandTimesOut, PromptReturns, WorkFails, PromptFails
<1>5. ASSUME NEW r \in Runs, Ending(r) PROVE container'[c] = "gone"
  BY <1>5 DEF Ending, Catch, ContainerRemoved, Cleaned, Disposed, Swept
<1>6. CASE Probing \/ Request
  BY <1>6 DEF Probing, ProbeBegins, ProbeOpens, ProbeUnwinds, ProbeAnswered, ProbeTimesOut,
     ProbeEnds, Request, hostVars
<1>7. CASE Shutdown \/ Exit \/ Crash \/ Install \/ BootFails \/ Boot
  BY <1>7 DEF Shutdown, Exit, Crash, Install, BootFails, Boot
<1>. QED BY <1>2, <1>3, <1>4, <1>5, <1>6, <1>7 DEF Next

(* What a step makes of the row of a run: it is recorded with a container  *)
(* that is ready, or the cleanup is.                                       *)
LEMMA RowChanges ==
  ASSUME IInv, Next, NEW s \in Runs
  PROVE  \/ sandbox'[s] = sandbox[s]
         \/ HasContainer(s)' /\ container'[sandbox'[s].id] = "ready" /\ Seeded(s)
         \/ /\ live[s].pc \in {"removed", "swept"} /\ live'[s].pc \in {"disposing", "idle"}
            /\ sandbox'[s] = [sandbox[s] EXCEPT !.status = "DESTROYED"]
<1>1. sandbox \in [Runs -> Boxes \cup {None}] BY DEF IInv, TypeOK
<1>2. CASE Probing \/ Request
  BY <1>2 DEF Probing, ProbeBegins, ProbeOpens, ProbeUnwinds, ProbeAnswered, ProbeTimesOut,
     ProbeEnds, Request, hostVars
<1>3. CASE Shutdown \/ Exit \/ Crash \/ Install \/ BootFails \/ Boot
  BY <1>3 DEF Shutdown, Exit, Crash, Gone, Install, BootFails, Boot
<1>4. ASSUME NEW r \in Runs,
             Opening(r) \/ Prompting(r) \/ Control(r) \/ StartRecovered(r)
      PROVE  sandbox' = sandbox
  BY <1>4 DEF Opening, OpenFails, KeyRejected, Unwound, Opened, Control, Create, Pause, Cancel,
     Resume, StartRecovered, Prompting, JoinFails, SessionClosed, Joined, OutputArrives,
     ToolsCalled, CommandTimesOut, PromptReturns, WorkFails, PromptFails
<1>5. ASSUME NEW r \in Runs, PackFails(r) \/ ContainerCreated(r) \/ SeedFails(r) \/ Discarded(r)
      PROVE  sandbox' = sandbox
  BY <1>5 DEF PackFails, ContainerCreated, SeedFails, Discarded
<1>6. ASSUME NEW r \in Runs, Catch(r) \/ ContainerRemoved(r) \/ Disposed(r)
      PROVE  sandbox' = sandbox
  BY <1>6 DEF Catch, ContainerRemoved, Disposed
<1>7. ASSUME NEW r \in Runs, Seeded(r), s # r PROVE sandbox'[s] = sandbox[s]
  BY <1>1, <1>7 DEF Seeded
<1>8. ASSUME Seeded(s)
      PROVE  HasContainer(s)' /\ container'[sandbox'[s].id] = "ready"
  <2>1. live[s].pc = "seeding" /\ container \in [Containers -> ContainerStates]
    BY <1>8 DEF Seeded, At, IInv, TypeOK
  <2>2. live[s].box # None /\ live[s].box \in Containers
    BY <2>1, Here DEF Fine, Placed, Coroutines
  <2>3. sandbox'[s] = [id |-> live[s].box, status |-> "READY"]
        /\ container'[live[s].box] = "ready"
    BY <1>1, <1>8, <2>1, <2>2 DEF Seeded
  <2>4. sandbox'[s] \in Boxes BY <2>2, <2>3 DEF Boxes
  <2>. QED BY <2>3, <2>4, NoneAssumption DEF HasContainer
<1>9. ASSUME NEW r \in Runs, Cleaned(r) \/ Swept(r), s # r PROVE sandbox'[s] = sandbox[s]
  BY <1>1, <1>9 DEF Cleaned, Swept, Recorded
<1>10. ASSUME Cleaned(s) \/ Swept(s), sandbox'[s] # sandbox[s]
       PROVE  /\ live[s].pc \in {"removed", "swept"} /\ live'[s].pc \in {"disposing", "idle"}
              /\ sandbox'[s] = [sandbox[s] EXCEPT !.status = "DESTROYED"]
  BY <1>1, <1>10, PlacesSet DEF Cleaned, Swept, Recorded, At
<1>. QED
  BY <1>2, <1>3, <1>4, <1>5, <1>6, <1>7, <1>8, <1>9, <1>10 DEF Next, Preparing, Ending

(* Only its own cleanup removes the container of a row.                    *)
LEMMA RemovedByCleanup ==
  ASSUME IInv, Next, NEW s \in Runs, sandbox[s] # None,
         container[sandbox[s].id] # "gone", container'[sandbox[s].id] = "gone"
  PROVE  ContainerRemoved(s)
<1>. DEFINE c == sandbox[s].id
<1>1. container \in [Containers -> ContainerStates] /\ c \in Containers /\ Shelved
  BY DEF IInv, TypeOK, Boxes
<1>2. container[c] \in {"ready", "stopped"} /\ \A r \in Runs : live[r].box # c
  BY <1>1, NoneAssumption DEF Shelved
<1>3. \A r \in Runs \ {s} : sandbox[r] # None => sandbox[r].id # c
  BY <1>1 DEF Shelved
<1>. HIDE DEF c
<1>4. container[c] # "gone" /\ container'[c] = "gone" BY DEF c
<1>5. CASE Probing \/ Request
  BY <1>4, <1>5 DEF Probing, ProbeBegins, ProbeOpens, ProbeUnwinds, ProbeAnswered, ProbeTimesOut,
     ProbeEnds, Request, hostVars
<1>6. CASE Shutdown \/ Exit \/ Crash \/ Install \/ BootFails \/ Boot
  BY <1>1, <1>4, <1>6 DEF Shutdown, Exit, Crash, Install, BootFails, Boot
<1>7. ASSUME NEW r \in Runs, Opening(r) \/ Control(r) \/ StartRecovered(r) PROVE FALSE
  BY <1>4, <1>7 DEF Opening, OpenFails, KeyRejected, Unwound, Opened, Control, Create, Pause,
     Cancel, Resume, StartRecovered
<1>8. ASSUME NEW r \in Runs, Preparing(r) PROVE FALSE
  BY <1>1, <1>2, <1>4, <1>8
  DEF Preparing, PackFails, ContainerCreated, SeedFails, Discarded, Discard, Seeded
<1>9. ASSUME NEW r \in Runs, Prompting(r) PROVE FALSE
  BY <1>1, <1>4, <1>9 DEF Prompting, JoinFails, SessionClosed, Joined, OutputArrives, ToolsCalled,
     CommandTimesOut, PromptReturns, WorkFails, PromptFails
<1>10. ASSUME NEW r \in Runs, Ending(r) PROVE ContainerRemoved(r) /\ r = s
  <2>1. ContainerRemoved(r) BY <1>4, <1>10 DEF Ending, Catch, Cleaned, Disposed, Swept
  <2>. QED BY <1>1, <1>3, <1>4, <2>1 DEF ContainerRemoved, HasContainer
<1>. QED BY <1>5, <1>6, <1>7, <1>8, <1>9, <1>10 DEF Next

(* A driver waits there once its container is removed.                     *)
LEMMA RemovedPlaces ==
  ASSUME IInv, Next, NEW s \in Runs, live'[s].pc \in {"removed", "swept"}
  PROVE  ContainerRemoved(s) \/ live[s].pc \in {"removed", "swept"}
<1>1. live \in [Runs -> Coroutines] BY DEF IInv, TypeOK
<1>2. ASSUME live'[s] = live[s] PROVE live[s].pc \in {"removed", "swept"} BY <1>2
<1>3. CASE Opening(s)
  BY <1>3, PlacesSet DEF Opening, OpenFails, KeyRejected, Unwound, Opened
<1>4. CASE Preparing(s)
  <2>1. CASE PackFails(s) \/ SeedFails(s) BY <2>1, PlacesSet DEF PackFails, SeedFails
  <2>2. CASE ContainerCreated(s)
    <3>1. PICK c \in Containers :
            live' = [live EXCEPT ![s] = [live[s] EXCEPT !.pc = "seeding", !.box = c]]
      BY <2>2 DEF ContainerCreated
    <3>. QED BY <1>1, <3>1 DEF Coroutines
  <2>3. CASE Discarded(s) \/ Seeded(s) BY <2>3, PlacesSet DEF Discarded, Seeded
  <2>. QED BY <1>4, <2>1, <2>2, <2>3 DEF Preparing
<1>5. CASE Prompting(s)
  <2>1. CASE OutputArrives(s) BY <1>1, <2>1 DEF OutputArrives, At, Coroutines
  <2>2. CASE ToolsCalled(s)
    <3>1. live' = [live EXCEPT ![s] = [live[s] EXCEPT !.output = FALSE, !.earlier = TRUE]]
      BY <2>2 DEF ToolsCalled
    <3>. QED BY <1>1, <3>1 DEF Coroutines
  <2>3. CASE PromptReturns(s)
    <3>1. ASSUME live' = [live EXCEPT ![s] = [Idle EXCEPT !.pc = "asking", !.mode = "step"]]
          PROVE  live'[s].pc = "asking"
      BY <1>1, <3>1 DEF Idle
    <3>. QED BY <2>3, <3>1, PlacesSet DEF PromptReturns
  <2>4. CASE CommandTimesOut(s) BY <1>2, <2>4 DEF CommandTimesOut
  <2>. QED
    BY <1>5, <2>1, <2>2, <2>3, <2>4, PlacesSet, SomeReasons
    DEF Prompting, JoinFails, SessionClosed, Joined, WorkFails, PromptFails
<1>6. CASE Ending(s)
  <2>1. CASE Catch(s)
    BY <1>1, <2>1, PlacesSet DEF Catch, Blocked, Idle, Coroutines
  <2>2. CASE Cleaned(s) \/ Swept(s) BY <2>2, PlacesSet DEF Cleaned, Swept
  <2>3. CASE Disposed(s) BY <1>1, <2>3 DEF Disposed, Idle
  <2>. QED BY <1>6, <2>1, <2>2, <2>3 DEF Ending
<1>7. CASE Control(s) \/ StartRecovered(s)
  <2>1. CASE Cancel(s) /\ Inactive(s) BY <2>1, PlacesSet DEF Cancel, At
  <2>2. ASSUME live' = Aborted(s) PROVE live[s].pc \in {"removed", "swept"}
    BY <1>1, <2>2 DEF Aborted, Coroutines
  <2>3. ASSUME NEW row, Begin(s, row) PROVE FALSE BY <1>1, <2>3, PlacesSet DEF Begin, Idle
  <2>. QED
    BY <1>2, <1>7, <2>1, <2>2, <2>3, PlacesSet
    DEF Control, Create, Pause, Cancel, Resume, StartRecovered
<1>8. ASSUME NEW r \in Runs, r # s,
             \/ Opening(r) \/ Preparing(r) \/ Prompting(r) \/ Ending(r)
             \/ Control(r) \/ StartRecovered(r)
      PROVE  live[s].pc \in {"removed", "swept"}
  BY <1>2, <1>8, OthersStay
<1>9. CASE Probing \/ Request \/ Install \/ BootFails
  BY <1>2, <1>9 DEF Probing, ProbeBegins, ProbeOpens, ProbeUnwinds, ProbeAnswered,
     ProbeTimesOut, ProbeEnds, Request, hostVars, Install, BootFails
<1>10. CASE Shutdown \/ Exit \/ Crash \/ Boot
  BY <1>1, <1>10 DEF Shutdown, Exit, Crash, Gone, Boot, Idle, Coroutines
<1>. QED BY <1>3, <1>4, <1>5, <1>6, <1>7, <1>8, <1>9, <1>10 DEF Next

LEMMA NextCleared == ASSUME IInv, Cleared, [Next]_vars PROVE Cleared'
<1>1. CASE UNCHANGED vars
  BY <1>1 DEF vars, serviceVars, hostVars, Cleared, HasContainer, Ended
<1>2. ASSUME Next, NEW s \in Runs
      PROVE  /\ (HasContainer(s) /\ container[sandbox[s].id] = "gone")'
                  => Ended(s)' /\ live'[s].pc \in Wound
             /\ live'[s].pc \in {"removed", "swept"} =>
                  (HasContainer(s) /\ container[sandbox[s].id] = "gone")'
             /\ (sandbox[s] # None /\ sandbox[s].status = "DESTROYED")'
                  => container'[sandbox'[s].id] = "gone"
  <2>1. /\ sandbox[s] \in Boxes \cup {None} /\ sandbox' [s] \in Boxes \cup {None}
        /\ container \in [Containers -> ContainerStates]
        /\ task[s] \in Rows \cup {None}
    BY <1>2, NextIInv DEF IInv, TypeOK
  <2>2. Fine(task[s], live[s], handle[s], sandbox[s]) BY Here
  <2>3. sandbox[s] # None => sandbox[s].id \in Containers BY <2>1 DEF Boxes
  <2>4. \/ sandbox'[s] = sandbox[s]
        \/ HasContainer(s)' /\ container'[sandbox'[s].id] = "ready" /\ Seeded(s)
        \/ /\ live[s].pc \in {"removed", "swept"} /\ live'[s].pc \in {"disposing", "idle"}
           /\ sandbox'[s] = [sandbox[s] EXCEPT !.status = "DESTROYED"]
    BY <1>2, RowChanges
  <2>5. CASE sandbox'[s] = sandbox[s] /\ ContainerRemoved(s)
    <3>1. /\ HasContainer(s) /\ live[s].pc \in {"cleanup", "sweeping"}
          /\ live'[s].pc \in {"removed", "swept"} /\ task' = task
          /\ container' = [container EXCEPT ![sandbox[s].id] = "gone"]
      BY <2>5, PlacesSet DEF ContainerRemoved, At
    <3>2. Ended(s) BY <2>2, <3>1 DEF Fine, Rowed, Ended
    <3>3. container'[sandbox[s].id] = "gone" BY <2>1, <2>3, <3>1 DEF HasContainer
    <3>. QED BY <2>5, <3>1, <3>2, <3>3 DEF HasContainer, Ended, Wound
  <2>6. CASE sandbox'[s] = sandbox[s] /\ ~ContainerRemoved(s)
    <3>1. sandbox[s] # None =>
            (container[sandbox[s].id] = "gone" <=> container'[sandbox[s].id] = "gone")
      BY <1>2, <2>3, <2>6, GoneStays, RemovedByCleanup
    <3>2. live'[s].pc \in {"removed", "swept"} => live[s].pc \in {"removed", "swept"}
      BY <1>2, <2>6, RemovedPlaces
    <3>3. ASSUME HasContainer(s), container[sandbox[s].id] = "gone"
          PROVE  Ended(s)' /\ live'[s].pc \in Wound
      <4>1. Ended(s) /\ live[s].pc \in Wound BY <3>3 DEF Cleared
      <4>2. task[s] # None BY <2>2, <3>3 DEF HasContainer, Fine, Rowed
      <4>3. Ended(s)'
        <5>1. Walks(task[s], task'[s]) BY <1>2, NextWalks
        <5>2. \A to : ~CanTransitionTask(task[s].status, to)
          BY <4>1 DEF Ended, CanTransitionTask, TaskTransitions, TerminalStatuses
        <5>. QED BY <4>1, <4>2, <5>1, <5>2 DEF Walks, Follows, Ended, TerminalStatuses
      <4>4. live'[s].pc \in Wound
        <5>1. Winds(live[s], live'[s]) BY <1>2, <4>1, <4>2, NextWinds
        <5>2. live'[s].pc \in Pcs BY <1>2, NextIInv DEF IInv, TypeOK, Coroutines
        <5>. QED BY <4>1, <5>1, <5>2, RunStages DEF Winds, Wound, Pcs
      <4>. QED BY <4>3, <4>4
    <3>. QED BY <2>6, <3>1, <3>2, <3>3 DEF Cleared, HasContainer
  <2>7. CASE HasContainer(s)' /\ container'[sandbox'[s].id] = "ready" /\ Seeded(s)
    <3>1. ~ContainerRemoved(s) /\ live[s].pc = "seeding"
      BY <2>7 DEF Seeded, ContainerRemoved, At
    <3>2. live'[s].pc \notin {"removed", "swept"} BY <1>2, <3>1, RemovedPlaces
    <3>. QED BY <2>7, <3>2 DEF HasContainer
  <2>8. CASE /\ live[s].pc \in {"removed", "swept"} /\ live'[s].pc \in {"disposing", "idle"}
             /\ sandbox'[s] = [sandbox[s] EXCEPT !.status = "DESTROYED"]
    <3>1. HasContainer(s) /\ container[sandbox[s].id] = "gone" BY <2>8 DEF Cleared
    <3>2. sandbox'[s].id = sandbox[s].id /\ sandbox'[s].status = "DESTROYED"
      BY <2>1, <2>8, <3>1 DEF Boxes, HasContainer
    <3>3. container'[sandbox[s].id] = "gone"
      BY <1>2, <2>3, <3>1, GoneStays DEF HasContainer
    <3>. QED BY <2>8, <3>2, <3>3 DEF HasContainer
  <2>. QED BY <2>4, <2>5, <2>6, <2>7, <2>8
<1>. QED BY <1>1, <1>2 DEF Cleared

LEMMA AlwaysCleared == Spec => []Cleared
<1>1. Init => Cleared BY DEF Init, Cleared, HasContainer, Idle
<1>. QED BY <1>1, NextCleared, Inductive, PTL DEF Spec

(* A run asks its model only when a sandbox is recorded that was prepared  *)
(* for it, and whose container no cleanup has removed: not its own, not    *)
(* one begun before a restart, not one of another run.  (A command may     *)
(* have stopped it.)                                                       *)
THEOREM PreparedPrompts == Spec => []PromptsHaveSandbox
<1>1. ASSUME IInv, Cleared PROVE PromptsHaveSandbox
  <2>1. ASSUME NEW r \in Runs, At(r, "asking")
        PROVE  HasContainer(r) /\ container[sandbox[r].id] \in {"ready", "stopped"}
    <3>1. HasContainer(r)
      BY <1>1, <2>1, Here DEF At, Fine, Placed, Holding, HasContainer
    <3>2. container[sandbox[r].id] # "gone" BY <1>1, <2>1, <3>1 DEF At, Cleared, Wound
    <3>. QED BY <1>1, <3>1, <3>2 DEF HasContainer, IInv, Shelved
  <2>. QED BY <2>1 DEF PromptsHaveSandbox
<1>. QED BY <1>1, Inductive, AlwaysCleared, PTL

(* No container is forgotten, but by a death while it is prepared or a     *)
(* failed removal; and a READY row names one that is not there only of a   *)
(* run that has ended, whose cleanup was interrupted.                      *)
THEOREM KnownContainers == Spec => []ContainersAreKnown
<1>1. ASSUME IInv, Cleared PROVE ContainersAreKnown
  <2>. USE <1>1
  <2>1. \A r \in Runs : sandbox[r] \in Boxes \cup {None} BY DEF IInv, TypeOK
  <2>2. \A c \in Containers : container[c] = "starting" => \E r \in Runs : live[r].box = c
    BY DEF IInv, Shelved
  <2>3. ASSUME NEW c \in Containers, container[c] \in {"ready", "stopped"}
        PROVE  \E r \in Runs : sandbox[r] = [id |-> c, status |-> "READY"]
    <3>1. PICK r \in Runs : sandbox[r] # None /\ sandbox[r].id = c
      BY <2>3 DEF IInv, Shelved
    <3>2. sandbox[r].status # "DESTROYED" BY <2>3, <3>1 DEF Cleared
    <3>. QED BY <2>1, <3>1, <3>2 DEF Boxes
  <2>4. ASSUME NEW r \in Runs, sandbox[r] # None
        PROVE  IF sandbox[r].status = "READY"
               THEN \/ container[sandbox[r].id] \in {"ready", "stopped"}
                    \/ container[sandbox[r].id] = "gone" /\ Ended(r)
               ELSE container[sandbox[r].id] = "gone"
    <3>1. sandbox[r].status \in {"READY", "DESTROYED"} BY <2>1, <2>4 DEF Boxes
    <3>2. container[sandbox[r].id] \in {"ready", "stopped", "gone"} BY <2>4 DEF IInv, Shelved
    <3>. QED BY <2>4, <3>1, <3>2 DEF Cleared, HasContainer
  <2>. QED BY <2>2, <2>3, <2>4 DEF ContainersAreKnown
<1>. QED BY <1>1, Inductive, AlwaysCleared, PTL

(* Whatever a provider answers, and when: a probe has a step less to go.   *)
THEOREM AdvancingProbes == Spec => ProbesAdvance
<1>. DEFINE Advance == (probe # "idle" /\ probe' # probe) => ProbeStage(probe') < ProbeStage(probe)
<1>1. IInv /\ [Next]_vars => [Advance]_vars
  <2>. SUFFICES ASSUME IInv, Next, probe # "idle", probe' # probe
                PROVE  ProbeStage(probe') < ProbeStage(probe)
    OBVIOUS
  <2>1. CASE Probing
    BY <2>1 DEF Probing, ProbeBegins, ProbeOpens, ProbeUnwinds, ProbeAnswered,
       ProbeTimesOut, TimerFires, ProbeEnds, ProbeStage
  <2>2. CASE Exit \/ Crash
    BY <2>2 DEF Exit, Crash, Gone, ProbeStage, IInv, TypeOK
  <2>3. CASE Request \/ Shutdown \/ Install \/ BootFails \/ Boot
    BY <2>3 DEF Request, hostVars, Shutdown, Install, BootFails, Boot
  <2>4. ASSUME NEW r \in Runs, Opening(r) \/ Preparing(r) PROVE FALSE
    BY <2>4 DEF Opening, Preparing, OpenFails, KeyRejected, Unwound, Opened, PackFails,
       ContainerCreated, SeedFails, Discarded, Seeded
  <2>5. ASSUME NEW r \in Runs, Prompting(r) \/ Ending(r) PROVE FALSE
    BY <2>5 DEF Prompting, Ending, JoinFails, SessionClosed, Joined, OutputArrives,
       ToolsCalled, CommandTimesOut, PromptReturns, WorkFails, PromptFails, Catch,
       ContainerRemoved, Cleaned, Disposed, Swept
  <2>6. ASSUME NEW r \in Runs, Control(r) \/ StartRecovered(r) PROVE FALSE
    BY <2>6 DEF Control, Create, Pause, Cancel, Resume, StartRecovered
  <2>. QED BY <2>1, <2>2, <2>3, <2>4, <2>5, <2>6 DEF Next
<1>. QED BY <1>1, Inductive, PTL DEF Spec, ProbesAdvance
=============================================================================
