------------------------------ MODULE RunLease ------------------------------
(***************************************************************************)
(* The lease of one run in a database that several runtime processes open: *)
(* RunLease and the lease statements of TaskRunRepository, the renewal     *)
(* timer of TaskOrchestrator.run, and the reclaiming of RecoveryService.   *)
(*                                                                         *)
(* A statement of SQLite is atomic.  A process reads its clock before the  *)
(* statement it computes for, and RecoveryService reads the row before the *)
(* clock; in between it may wait for the database or not be scheduled, and *)
(* the other processes run.  The processes share the clock of the machine. *)
(***************************************************************************)
EXTENDS Integers

CONSTANTS Processes,  \* runtime processes; a restarted one is another, its owner name is random
          None,       \* NULL, nothing read
          Duration,   \* durationMs of RunLease
          Period,     \* of the renewal timer
          MaxWait,    \* the longest from the clock, or the row, it read to its next step
          MaxLate,    \* the longest the renewal timer is late
          MaxTime     \* bound on the clock

ASSUME NoneAssumption == None \notin Processes
ASSUME TimeAssumption ==
  /\ Duration \in Nat /\ Period \in Nat
  /\ MaxWait \in Nat /\ MaxLate \in Nat /\ MaxTime \in Nat
  /\ MaxWait <= Period   \* busy_timeout is 5 s, the interval 10 s

VARIABLES
  clock,    \* Date.now()
  owner,    \* task_runs.lease_owner
  expires,  \* task_runs.lease_expires_at
  phase,    \* what a process does with the run
  at,       \* when it read the clock for its next statement, the row, or cleared its timer
  last,     \* when its renewal timer was armed, or fired last
  seen      \* the row the recovery scan read

vars == <<clock, owner, expires, phase, at, last, seen>>

Phases == {"new", "scanning", "reclaiming", "idle", "asking", "working", "renewing",
           "releasing", "dead"}
(* The orchestrator is inside its try block.                               *)
Driving(p) == phase[p] \in {"working", "renewing"}

Rows == [owner : Processes \cup {None}, expires : Nat]

(* The two columns of the lease are set and cleared together, and clocks   *)
(* are naturals.                                                           *)
TypeOK ==
  /\ owner = None => expires = 0
  /\ clock \in Nat /\ expires \in Nat
  /\ owner \in Processes \cup {None}
  /\ phase \in [Processes -> Phases]
  /\ at \in [Processes -> Nat] /\ last \in [Processes -> Nat]
  /\ seen \in [Processes -> Rows]

Nobody == [owner |-> None, expires |-> 0]

Init ==
  /\ clock = 0 /\ owner = None /\ expires = 0
  /\ phase = [p \in Processes |-> "new"]
  /\ at = [p \in Processes |-> 0] /\ last = [p \in Processes |-> 0]
  /\ seen = [p \in Processes |-> Nobody]

Goto(p, to) == phase' = [phase EXCEPT ![p] = to]
ReadClock(p) == at' = [at EXCEPT ![p] = clock]

(* The process is not concerned with the run, and what it read is gone.    *)
Leave(p, to) ==
  /\ Goto(p, to)
  /\ at' = [at EXCEPT ![p] = 0]
  /\ last' = [last EXCEPT ![p] = 0]
  /\ seen' = [seen EXCEPT ![p] = Nobody]

----------------------------------------------------------------------------
(* RecoveryService.scan: listRecoverable reads the rows of all the runs... *)
Scan(p) ==
  /\ phase[p] = "new"
  /\ seen' = [seen EXCEPT ![p] = [owner |-> owner, expires |-> expires]]
  /\ ReadClock(p)
  /\ Goto(p, "scanning")
  /\ UNCHANGED <<clock, owner, expires, last>>

(* Mutated form of Reclaimable: every lease found is one of a process that *)
(* is gone.                                                                *)
AlwaysReclaimable(p) == seen[p].owner # None

Reclaimable(p) == seen[p].owner # None /\ seen[p].expires <= clock

(* ...and recover reads the clock for each: WAIT_FOR_LEASE, or a lease to  *)
(* release first.                                                          *)
Decide(p) ==
  /\ phase[p] = "scanning"
  /\ IF Reclaimable(p)
     THEN Goto(p, "reclaiming") /\ UNCHANGED <<at, last, seen>>
     ELSE Leave(p, "idle")
  /\ UNCHANGED <<clock, owner, expires>>

(* releaseLease(run.id, run.leaseOwner): the owner is compared, the expiry *)
(* is not.                                                                 *)
ReleaseLease(p) ==
  IF owner = p THEN owner' = None /\ expires' = 0 ELSE UNCHANGED <<owner, expires>>

Reclaim(p) ==
  /\ phase[p] = "reclaiming"
  /\ ReleaseLease(seen[p].owner)
  /\ Leave(p, "idle")
  /\ UNCHANGED clock

----------------------------------------------------------------------------
(* TaskRunner.start, by a request or by the timer of main.ts, whose own    *)
(* look at the lease only spares attempts: acquire reads the clock.        *)
Start(p) ==
  /\ phase[p] = "idle"
  /\ ReadClock(p)
  /\ Goto(p, "asking")
  /\ UNCHANGED <<clock, owner, expires, last, seen>>

(* Mutated form of Acquirable: the comparison with the expiry is reversed. *)
AcquirableBefore(p) == owner \in {None, p} \/ expires >= at[p]

Acquirable(p) == owner \in {None, p} \/ expires <= at[p]

Extended(p) == at[p] + Duration

(* The next renewal is a period, or more, from the given time.             *)
Works(p, from) ==
  /\ Goto(p, "working")
  /\ last' = [last EXCEPT ![p] = from]
  /\ at' = [at EXCEPT ![p] = 0]
  /\ UNCHANGED seen

(* acquireLease; RunLeaseUnavailableError if it changed no row.  The timer *)
(* is armed once the statement has returned, which may be long after the   *)
(* clock was read that the expiry is computed from.                        *)
Acquire(p) ==
  /\ phase[p] = "asking"
  /\ \/ /\ Acquirable(p)
        /\ owner' = p /\ expires' = Extended(p)
        /\ Works(p, clock)
     \/ /\ ~Acquirable(p)
        /\ Leave(p, "idle")
        /\ UNCHANGED <<owner, expires>>
  /\ UNCHANGED clock

(* The interval fires a period after it fired last, or later: renew reads  *)
(* the clock.                                                              *)
RenewalDue(p) ==
  /\ phase[p] = "working"
  /\ clock >= last[p] + Period
  /\ ReadClock(p)
  /\ Goto(p, "renewing")
  /\ UNCHANGED <<clock, owner, expires, last, seen>>

(* renewLease compares the owner; what it returns is ignored.  The interval*)
(* goes on from the start of its callback, where the clock was read.       *)
Renew(p) ==
  /\ phase[p] = "renewing"
  /\ IF owner = p THEN expires' = Extended(p) ELSE UNCHANGED expires
  /\ Works(p, at[p])
  /\ UNCHANGED <<clock, owner>>

(* The finally block of run: the timer is cleared...                       *)
Finish(p) ==
  /\ phase[p] = "working"
  /\ ReadClock(p)
  /\ Goto(p, "releasing")
  /\ UNCHANGED <<clock, owner, expires, last, seen>>

(* ...and the lease released.  (A release that gives up because the        *)
(* database stayed busy, which leaves the lease to a process that lives,   *)
(* is left out.)                                                           *)
Release(p) ==
  /\ phase[p] = "releasing"
  /\ ReleaseLease(p)
  /\ Leave(p, "idle")
  /\ UNCHANGED clock

Die(p) ==
  /\ phase[p] # "dead"
  /\ Leave(p, "dead")
  /\ UNCHANGED <<clock, owner, expires>>

(* There is time left until a process has made the step that is due: the   *)
(* statement it computes for, which waits for a busy database 5 s at most, *)
(* and the renewal.                                                        *)
InTime(p) ==
  /\ phase[p] \in {"scanning", "asking", "renewing", "releasing"} => clock < at[p] + MaxWait
  /\ phase[p] = "working" => clock < last[p] + Period + MaxLate

Tick ==
  /\ clock < MaxTime
  /\ \A p \in Processes : InTime(p)
  /\ clock' = clock + 1
  /\ UNCHANGED <<owner, expires, phase, at, last, seen>>

Next ==
  \/ Tick
  \/ \E p \in Processes :
       \/ Scan(p) \/ Decide(p) \/ Reclaim(p)
       \/ Start(p) \/ Acquire(p) \/ RenewalDue(p) \/ Renew(p)
       \/ Finish(p) \/ Release(p) \/ Die(p)

Spec == Init /\ [][Next]_vars

----------------------------------------------------------------------------
(* How late the timer may be: acquireLease waited before it was armed, its *)
(* own statement has to wait, and then the scan of another process may take*)
(* as long again between the row it read and the clock it compares it with.*)
RenewalsAreTimely == Period + MaxLate + 3 * MaxWait < Duration

(* Two processes never drive the run at the same time: neither acquisition *)
(* nor reclaiming takes the lease from a process that is inside run.       *)
OneDriver == \A p, q \in Processes : Driving(p) /\ Driving(q) => p = q

(* A process inside run holds a lease that has not expired, whatever the   *)
(* scans and the attempts of the others decide on what they read before.   *)
DriverHoldsLease == \A p \in Processes : Driving(p) => owner = p /\ clock < expires

(* A lease outlives its owner by no more than its duration: the next       *)
(* process need not wait longer (main.ts arms its timer with at most 30 s).*)
LeaseIsShort == owner # None => expires <= clock + Duration
=============================================================================
