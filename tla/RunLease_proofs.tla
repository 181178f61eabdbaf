--------------------------- MODULE RunLease_proofs ---------------------------
(***************************************************************************)
(* What the lease guarantees for any processes and any durations.  That the*)
(* lease is short and well formed needs no assumption on time; that it     *)
(* excludes a second driver needs renewals in time.                        *)
(***************************************************************************)
EXTENDS RunLease, TLAPS

Waiting == {"scanning", "asking", "renewing", "releasing"}

(* What a process computes for it read not long ago; a driver renewed not  *)
(* long ago.                                                               *)
ClockInv ==
  \A p \in Processes :
    /\ phase[p] \in Waiting => at[p] <= clock /\ clock <= at[p] + MaxWait
    /\ phase[p] = "working" => last[p] <= clock /\ clock <= last[p] + Period + MaxLate
    /\ phase[p] \in {"renewing", "releasing"} => at[p] <= last[p] + Period + MaxLate

Holding(p) == Driving(p) \/ phase[p] = "releasing"

(* The row names the driver, until it has released its lease, and otherwise*)
(* nobody who is alive.  The expiry is a duration from the clock a renewal *)
(* read, where the timer goes on, but from before the wait of an           *)
(* acquisition, after which it was armed.                                  *)
HolderInv ==
  \A p \in Processes :
    /\ Holding(p) => owner = p /\ last[p] + Duration <= expires + MaxWait
    /\ owner = p => Holding(p) \/ phase[p] = "dead"

(* A scan that finds a lease expired has found that of a dead process: that*)
(* of a driver was renewed too recently to expire before the scan decides. *)
SeenInv ==
  \A p \in Processes :
    seen[p].owner # None =>
      /\ phase[p] = "scanning" =>
           phase[seen[p].owner] = "dead" \/ at[p] + MaxWait < seen[p].expires
      /\ phase[p] = "reclaiming" => phase[seen[p].owner] = "dead"

Calm == TypeOK /\ LeaseIsShort /\ ClockInv
IInv == Calm /\ HolderInv /\ SeenInv

----------------------------------------------------------------------------
(* The part of the invariant that holds however late renewals are.         *)
LEMMA InitCalm == Init => Calm
BY NoneAssumption, TimeAssumption
   DEF Init, Calm, TypeOK, LeaseIsShort, ClockInv, Phases, Rows, Nobody, Waiting

(* The columns stay well formed.                                           *)
LEMMA TypeKept == TypeOK /\ [Next]_vars => TypeOK'
<1>. SUFFICES ASSUME TypeOK, [Next]_vars PROVE TypeOK' OBVIOUS
<1>. USE NoneAssumption, TimeAssumption DEF TypeOK, Phases, Rows, Nobody, Goto
<1>1. CASE Tick BY <1>1 DEF Tick
<1>2. ASSUME NEW p \in Processes, Scan(p) PROVE TypeOK'
  BY <1>2 DEF Scan, ReadClock
<1>3. ASSUME NEW p \in Processes, Decide(p) PROVE TypeOK'
  BY <1>3 DEF Decide, Leave
<1>4. ASSUME NEW p \in Processes, Reclaim(p) PROVE TypeOK'
  BY <1>4 DEF Reclaim, Leave, ReleaseLease
<1>5. ASSUME NEW p \in Processes, Start(p) PROVE TypeOK'
  BY <1>5 DEF Start, ReadClock
<1>6. ASSUME NEW p \in Processes, Acquire(p) PROVE TypeOK'
  BY <1>6 DEF Acquire, Extended, Works, Leave
<1>7. ASSUME NEW p \in Processes, RenewalDue(p) PROVE TypeOK'
  BY <1>7 DEF RenewalDue, ReadClock
<1>8. ASSUME NEW p \in Processes, Renew(p) PROVE TypeOK'
  BY <1>8 DEF Renew, Extended, Works
<1>9. ASSUME NEW p \in Processes, Finish(p) PROVE TypeOK'
  BY <1>9 DEF Finish, ReadClock
<1>10. ASSUME NEW p \in Processes, Release(p) PROVE TypeOK'
  BY <1>10 DEF Release, Leave, ReleaseLease
<1>11. ASSUME NEW p \in Processes, Die(p) PROVE TypeOK'
  BY <1>11 DEF Die, Leave
<1>12. CASE UNCHANGED vars BY <1>12 DEF vars
<1>. QED BY <1>1, <1>2, <1>3, <1>4, <1>5, <1>6, <1>7, <1>8, <1>9, <1>10, <1>11, <1>12 DEF Next

(* Time does not pass a process that has a step to make.                   *)
LEMMA ClockKept == TypeOK /\ ClockInv /\ [Next]_vars => ClockInv'
<1>. SUFFICES ASSUME TypeOK, ClockInv, [Next]_vars PROVE ClockInv' OBVIOUS
<1>. USE NoneAssumption, TimeAssumption DEF TypeOK, ClockInv, Waiting, Goto
<1>1. CASE Tick BY <1>1 DEF Tick, InTime
<1>2. ASSUME NEW p \in Processes, Scan(p) PROVE ClockInv'
  BY <1>2 DEF Scan, ReadClock
<1>3. ASSUME NEW p \in Processes, Decide(p) PROVE ClockInv'
  BY <1>3 DEF Decide, Leave, Reclaimable
<1>4. ASSUME NEW p \in Processes, Reclaim(p) PROVE ClockInv'
  BY <1>4 DEF Reclaim, Leave, ReleaseLease
<1>5. ASSUME NEW p \in Processes, Start(p) PROVE ClockInv'
  BY <1>5 DEF Start, ReadClock
<1>6. ASSUME NEW p \in Processes, Acquire(p) PROVE ClockInv'
  BY <1>6 DEF Acquire, Acquirable, Extended, Works, Leave
<1>7. ASSUME NEW p \in Processes, RenewalDue(p) PROVE ClockInv'
  BY <1>7 DEF RenewalDue, ReadClock
<1>8. ASSUME NEW p \in Processes, Renew(p) PROVE ClockInv'
  BY <1>8 DEF Renew, Extended, Works
<1>9. ASSUME NEW p \in Processes, Finish(p) PROVE ClockInv'
  BY <1>9 DEF Finish, ReadClock
<1>10. ASSUME NEW p \in Processes, Release(p) PROVE ClockInv'
  BY <1>10 DEF Release, Leave, ReleaseLease
<1>11. ASSUME NEW p \in Processes, Die(p) PROVE ClockInv'
  BY <1>11 DEF Die, Leave
<1>12. CASE UNCHANGED vars BY <1>12 DEF vars
<1>. QED BY <1>1, <1>2, <1>3, <1>4, <1>5, <1>6, <1>7, <1>8, <1>9, <1>10, <1>11, <1>12 DEF Next

(* The expiry is computed from the clock, never from the expiry.           *)
LEMMA ShortKept == TypeOK /\ ClockInv /\ LeaseIsShort /\ [Next]_vars => LeaseIsShort'
<1>. SUFFICES ASSUME TypeOK, ClockInv, LeaseIsShort, [Next]_vars PROVE LeaseIsShort' OBVIOUS
<1>. USE NoneAssumption, TimeAssumption DEF TypeOK, ClockInv, LeaseIsShort, Waiting, Goto
<1>1. CASE Tick BY <1>1 DEF Tick
<1>2. ASSUME NEW p \in Processes, Scan(p) PROVE LeaseIsShort'
  BY <1>2 DEF Scan, ReadClock
<1>3. ASSUME NEW p \in Processes, Decide(p) PROVE LeaseIsShort'
  BY <1>3 DEF Decide, Leave, Reclaimable
<1>4. ASSUME NEW p \in Processes, Reclaim(p) PROVE LeaseIsShort'
  BY <1>4 DEF Reclaim, Leave, ReleaseLease
<1>5. ASSUME NEW p \in Processes, Start(p) PROVE LeaseIsShort'
  BY <1>5 DEF Start, ReadClock
<1>6. ASSUME NEW p \in Processes, Acquire(p) PROVE LeaseIsShort'
  BY <1>6 DEF Acquire, Acquirable, Extended, Works, Leave
<1>7. ASSUME NEW p \in Processes, RenewalDue(p) PROVE LeaseIsShort'
  BY <1>7 DEF RenewalDue, ReadClock
<1>8. ASSUME NEW p \in Processes, Renew(p) PROVE LeaseIsShort'
  BY <1>8 DEF Renew, Extended, Works
<1>9. ASSUME NEW p \in Processes, Finish(p) PROVE LeaseIsShort'
  BY <1>9 DEF Finish, ReadClock
<1>10. ASSUME NEW p \in Processes, Release(p) PROVE LeaseIsShort'
  BY <1>10 DEF Release, Leave, ReleaseLease
<1>11. ASSUME NEW p \in Processes, Die(p) PROVE LeaseIsShort'
  BY <1>11 DEF Die, Leave
<1>12. CASE UNCHANGED vars BY <1>12 DEF vars
<1>. QED BY <1>1, <1>2, <1>3, <1>4, <1>5, <1>6, <1>7, <1>8, <1>9, <1>10, <1>11, <1>12 DEF Next

----------------------------------------------------------------------------
(* What renewals in time add.                                              *)
(* Nobody takes the lease of a driver.                                     *)
LEMMA HolderKept == IInv /\ RenewalsAreTimely /\ [Next]_vars => HolderInv'
<1>. SUFFICES ASSUME IInv, RenewalsAreTimely, [Next]_vars PROVE HolderInv' OBVIOUS
<1>. USE NoneAssumption, TimeAssumption DEF IInv, Calm, TypeOK, ClockInv, HolderInv,
         SeenInv, Driving, Holding, Waiting, RenewalsAreTimely, Goto
<1>1. CASE Tick BY <1>1 DEF Tick
<1>2. ASSUME NEW p \in Processes, Scan(p) PROVE HolderInv'
  BY <1>2 DEF Scan, ReadClock
<1>3. ASSUME NEW p \in Processes, Decide(p) PROVE HolderInv'
  BY <1>3 DEF Decide, Leave, Reclaimable
<1>4. ASSUME NEW p \in Processes, Reclaim(p) PROVE HolderInv'
  BY <1>4 DEF Reclaim, Leave, ReleaseLease
<1>5. ASSUME NEW p \in Processes, Start(p) PROVE HolderInv'
  BY <1>5 DEF Start, ReadClock
<1>6. ASSUME NEW p \in Processes, Acquire(p) PROVE HolderInv'
  BY <1>6 DEF Acquire, Acquirable, Extended, Works, Leave
<1>7. ASSUME NEW p \in Processes, RenewalDue(p) PROVE HolderInv'
  BY <1>7 DEF RenewalDue, ReadClock
<1>8. ASSUME NEW p \in Processes, Renew(p) PROVE HolderInv'
  BY <1>8 DEF Renew, Extended, Works
<1>9. ASSUME NEW p \in Processes, Finish(p) PROVE HolderInv'
  BY <1>9 DEF Finish, ReadClock
<1>10. ASSUME NEW p \in Processes, Release(p) PROVE HolderInv'
  BY <1>10 DEF Release, Leave, ReleaseLease
<1>11. ASSUME NEW p \in Processes, Die(p) PROVE HolderInv'
  BY <1>11 DEF Die, Leave
<1>12. CASE UNCHANGED vars BY <1>12 DEF vars
<1>. QED BY <1>1, <1>2, <1>3, <1>4, <1>5, <1>6, <1>7, <1>8, <1>9, <1>10, <1>11, <1>12 DEF Next

(* A process once dead stays so, and an expiry once read stays as far off. *)
LEMMA SeenKept == IInv /\ RenewalsAreTimely /\ [Next]_vars => SeenInv'
<1>. SUFFICES ASSUME IInv, RenewalsAreTimely, [Next]_vars PROVE SeenInv' OBVIOUS
<1>. USE NoneAssumption, TimeAssumption DEF IInv, Calm, TypeOK, Rows, ClockInv,
         HolderInv, SeenInv, Driving, Holding, Waiting, Nobody, RenewalsAreTimely, Goto
<1>1. CASE Tick BY <1>1 DEF Tick
<1>2. ASSUME NEW p \in Processes, Scan(p) PROVE SeenInv'
  BY <1>2 DEF Scan, ReadClock
<1>3. ASSUME NEW p \in Processes, Decide(p) PROVE SeenInv'
  BY <1>3 DEF Decide, Leave, Reclaimable
<1>4. ASSUME NEW p \in Processes, Reclaim(p) PROVE SeenInv'
  BY <1>4 DEF Reclaim, Leave, ReleaseLease
<1>5. ASSUME NEW p \in Processes, Start(p) PROVE SeenInv'
  BY <1>5 DEF Start, ReadClock
<1>6. ASSUME NEW p \in Processes, Acquire(p) PROVE SeenInv'
  BY <1>6 DEF Acquire, Acquirable, Extended, Works, Leave
<1>7. ASSUME NEW p \in Processes, RenewalDue(p) PROVE SeenInv'
  BY <1>7 DEF RenewalDue, ReadClock
<1>8. ASSUME NEW p \in Processes, Renew(p) PROVE SeenInv'
  BY <1>8 DEF Renew, Extended, Works
<1>9. ASSUME NEW p \in Processes, Finish(p) PROVE SeenInv'
  BY <1>9 DEF Finish, ReadClock
<1>10. ASSUME NEW p \in Processes, Release(p) PROVE SeenInv'
  BY <1>10 DEF Release, Leave, ReleaseLease
<1>11. ASSUME NEW p \in Processes, Die(p) PROVE SeenInv'
  BY <1>11 DEF Die, Leave
<1>12. CASE UNCHANGED vars BY <1>12 DEF vars
<1>. QED BY <1>1, <1>2, <1>3, <1>4, <1>5, <1>6, <1>7, <1>8, <1>9, <1>10, <1>11, <1>12 DEF Next

(* The lease is well formed and short however late the renewals are.       *)
THEOREM CalmHolds == Spec => []Calm
<1>1. Calm /\ [Next]_vars => Calm' BY TypeKept, ClockKept, ShortKept DEF Calm
<1>. QED BY <1>1, InitCalm, PTL DEF Spec

(* With renewals in time, the row names the driver and scans are harmless. *)
THEOREM Inductive == RenewalsAreTimely => (Spec => []IInv)
<1>. SUFFICES ASSUME RenewalsAreTimely PROVE Spec => []IInv OBVIOUS
<1>1. Init => IInv
  BY InitCalm, NoneAssumption DEF Init, IInv, HolderInv, SeenInv, Driving, Holding, Nobody
<1>2. IInv /\ [Next]_vars => IInv'
  <2>1. IInv /\ [Next]_vars => Calm' BY TypeKept, ClockKept, ShortKept DEF IInv, Calm
  <2>. QED BY <2>1, HolderKept, SeenKept DEF IInv
<1>. QED BY <1>1, <1>2, PTL DEF Spec

----------------------------------------------------------------------------
(* The columns of the lease are set and cleared together.                  *)
THEOREM TypeCorrect == Spec => []TypeOK
<1>1. Calm => TypeOK BY DEF Calm
<1>. QED BY <1>1, CalmHolds, PTL

(* No lease outlives its owner by more than its duration.                  *)
THEOREM ShortLease == Spec => []LeaseIsShort
<1>1. Calm => LeaseIsShort BY DEF Calm
<1>. QED BY <1>1, CalmHolds, PTL

(* With renewals in time, a process inside run holds an unexpired lease.   *)
THEOREM HeldLease == RenewalsAreTimely => (Spec => []DriverHoldsLease)
<1>. SUFFICES ASSUME RenewalsAreTimely PROVE Spec => []DriverHoldsLease OBVIOUS
<1>1. IInv => DriverHoldsLease
  BY TimeAssumption DEF IInv, Calm, TypeOK, ClockInv, HolderInv, Driving, Holding, Waiting,
     RenewalsAreTimely, DriverHoldsLease
<1>. QED BY <1>1, Inductive, PTL

(* With renewals in time, two processes never drive the run at once.       *)
THEOREM MutualExclusion == RenewalsAreTimely => (Spec => []OneDriver)
<1>. SUFFICES ASSUME RenewalsAreTimely PROVE Spec => []OneDriver OBVIOUS
<1>1. IInv => OneDriver BY DEF IInv, HolderInv, Driving, Holding, OneDriver
<1>. QED BY <1>1, Inductive, PTL
=============================================================================
