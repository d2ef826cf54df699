------------------------------- MODULE Occupancy -------------------------------
(***************************************************************************)
(* Who lives in one property.  A tenancy is one property_tenants row, one  *)
(* rent and the property_status OCCUPIED; half a dozen services begin one  *)
(* (properties.service.ts moveTenantIn, tenant-management.service.ts       *)
(* addTenant, attachTenantToProperty and attachTenantFromKyc,              *)
(* tenant-attachment.service.ts attachTenantFromOffer) and several end it: *)
(* the landlord at once, the daily cron on the scheduled date or after a   *)
(* declined renewal, the older deactivateTenant, and the repair buttons.   *)
(* Only the move-out locks what it read.  The applicants' KYC applications *)
(* and the scheduled_move_outs rows ride along.  The marketing and offer   *)
(* statuses belong to OfferPayment.                                        *)
(***************************************************************************)
EXTENDS Integers, FiniteSets

CONSTANTS
  Tenants,    \* the people who apply for the property
  Schedules,  \* rows scheduled_move_outs has room for
  Callers,    \* requests in flight
  Crons,      \* instances of the daily cron
  Hydrations, \* what the ORM may make of a DATE column: a "Date", as the
              \* entity declares, or a "string", as TypeORM 0.3 does
  MaxStints,  \* bound on the tenancies one tenant begins
  MaxCalls,   \* bound on the requests
  MaxCrashes  \* bound on processes that die and transactions that fail

ASSUME SizeAssumption ==
  /\ IsFiniteSet(Tenants) /\ IsFiniteSet(Schedules)
  /\ Callers \cap Crons = {} /\ Hydrations \subseteq {"Date", "string"}
  /\ MaxStints \in Nat /\ MaxCalls \in Nat /\ MaxCrashes \in Nat

VARIABLES
  status,   \* property_status: "vacant" or "occupied"
  row,      \* property_tenants rows of each tenant, by status
  rent,     \* ACTIVE rents of each tenant
  app,      \* status of each tenant's KYC application
  filed,    \* which of his applications that is: a new one replaces it
  sched,    \* the scheduled_move_outs rows
  lock,     \* who holds a tenant's row FOR UPDATE
  job,      \* what each request and each cron run is doing
  stints,   \* history: tenancies each tenant began
  endings,  \* history: tenancy_ended events of each tenant
  late,     \* history: applicants no rejection of their rivals could reach
  left,     \* history: open schedules of a tenancy some other path ended
  faults,   \* history: what was done that the services do not guard against
  calls, crashes

lease == <<status, row, rent>>
papers == <<app, filed>>
history == <<stints, endings, late, left, faults>>
vars == <<lease, papers, sched, lock, job, history, calls, crashes>>

Jobs == Callers \cup Crons
Nobody == "nobody"
NoSchedule == "no schedule"
ASSUME NamesAssumption == Nobody \notin Tenants /\ NoSchedule \notin Schedules
Idle == [pc |-> "idle", by |-> "", t |-> Nobody, s |-> NoSchedule, copy |-> "",
         n |-> 0, todo |-> {}]
NoRow == [tenant |-> Nobody, open |-> FALSE, cancelled |-> FALSE, due |-> FALSE, of |-> 0]

(* A property is listed vacant, or created with its tenant                 *)
(* (createPropertyWithExistingTenant).                                     *)
Init ==
  /\ \E first \in Tenants \cup {Nobody} :
       /\ status = IF first = Nobody THEN "vacant" ELSE "occupied"
       /\ row = [t \in Tenants |-> [live |-> IF t = first THEN 1 ELSE 0, ended |-> 0]]
       /\ rent = [t \in Tenants |-> IF t = first THEN 1 ELSE 0]
       /\ stints = [t \in Tenants |-> IF t = first THEN 1 ELSE 0]
  /\ app = [t \in Tenants |-> "none"]
  /\ filed = [t \in Tenants |-> 0]
  /\ sched = [s \in Schedules |-> NoRow]
  /\ lock = [t \in Tenants |-> Nobody]
  /\ job = [j \in Jobs |-> Idle]
  /\ endings = [t \in Tenants |-> 0]
  /\ late = {} /\ left = {} /\ faults = {}
  /\ calls = 0 /\ crashes = 0

-----------------------------------------------------------------------------
LivesIn(t) == t \in Tenants /\ row[t].live > 0
Residents == {t \in Tenants : LivesIn(t)}
Let == \E t \in Tenants : rent[t] > 0
Rentless == {t \in Residents : rent[t] = 0}
OpenEnds(t) == {s \in Schedules : sched[s].open /\ sched[s].tenant = t}

(* An end that is written statement by statement, half way through.        *)
HalfEnded == \E j \in Jobs : job[j].pc \in {"end_row", "end_rents", "decline_row", "decline_vacate"}
Blame(kinds) == faults' = faults \cup kinds \cup (IF HalfEnded THEN {"half"} ELSE {})

Ask(j, op) ==
  /\ job[j] = Idle /\ calls < MaxCalls
  /\ calls' = calls + 1
  /\ job' = [job EXCEPT ![j] = op]
Finish(j) == job' = [job EXCEPT ![j] = Idle]
To(j, pc) == job' = [job EXCEPT ![j].pc = pc]

-----------------------------------------------------------------------------
(* Variant with a bug: only the applicant's own rents are looked at. *)
FreeOfMyRents(by, t) ==
  CASE by \in {"add", "kyc"} -> rent[t] = 0
    [] by = "attach" -> status = "vacant" /\ ~LivesIn(t)
    [] by = "move_in" -> ~LivesIn(t) \/ row[t].ended > 0

(* Beginning a tenancy.  Each service checks, without a lock, what it      *)
(* takes to be free: the property's rents, its status, or the tenant's own *)
(* row.                                                                    *)
Free(by, t) ==
  CASE by \in {"add", "kyc"} -> ~Let
    [] by = "attach" -> status = "vacant" /\ ~LivesIn(t)
    [] by = "move_in" -> ~LivesIn(t) \/ row[t].ended > 0

AskBegin(j, by, t) ==
  /\ stints[t] < MaxStints
  /\ Free(by, t)
  /\ by = "kyc" => app[t] # "none"
  /\ Ask(j, [Idle EXCEPT !.pc = "begin", !.by = by, !.t = t, !.n = filed[t],
             !.copy = IF by = "move_in" /\ row[t].ended > 0 THEN "old row" ELSE "new row"])
  /\ UNCHANGED <<lease, papers, sched, lock, history, crashes>>

(* addTenant, the KYC path and the landlord's attach insert a row; the     *)
(* move-in and the offer reuse a row an earlier tenancy left.              *)
Reactivated(t) ==
  IF row[t].ended > 0 THEN [live |-> row[t].live + 1, ended |-> row[t].ended - 1]
  ELSE IF LivesIn(t) THEN row[t] ELSE [row[t] EXCEPT !.live = 1]
Begun(t, copy) == IF copy = "old row" THEN Reactivated(t) ELSE [row[t] EXCEPT !.live = @ + 1]

(* Variant with a bug: the rivals stay PENDING. *)
RejectNobody(spared) == UNCHANGED app

(* rejectOtherPendingApplications spares the application being approved.   *)
RejectOthers(spared) ==
  app' = [t \in Tenants |-> IF app[t] = "pending" /\ t # spared THEN "rejected" ELSE app[t]]

(* What the check could not see when the tenancy is written: what changed  *)
(* since, a tenant without a rent (moveTenantIn opens none), or, for the   *)
(* move-in, anyone but the tenant.                                         *)
Overlet(by, t) ==
  (IF ~Free(by, t) \/ (by = "move_in" /\ LivesIn(t)) THEN {"race"} ELSE {})
    \cup (IF \/ (by \in {"add", "kyc"} /\ Rentless # {})
              \/ (by = "move_in" /\ Residents \ {t} # {}) THEN {"unseen"} ELSE {})

Begin(j) ==
  LET t == job[j].t
      by == job[j].by
      spared == IF by = "kyc" /\ filed[t] = job[j].n THEN t ELSE Nobody IN
  /\ job[j].pc = "begin"
  /\ job[j].copy = "old row" => lock[t] = Nobody
  /\ stints[t] < MaxStints
  /\ row' = [row EXCEPT ![t] = Begun(t, job[j].copy)]
  /\ rent' = [rent EXCEPT ![t] = IF by = "move_in" THEN @ ELSE @ + 1]
  /\ status' = "occupied"
  /\ IF by = "add"
       THEN /\ late' = late \cup {u \in Tenants : app[u] = "pending"}
            /\ UNCHANGED app
       ELSE /\ RejectOthers(spared)
            /\ late' = late \cup ({spared} \cap Tenants)
  /\ stints' = [stints EXCEPT ![t] = @ + 1]
  /\ Blame(Overlet(by, t))
  /\ IF by = "kyc" THEN To(j, "approve") ELSE Finish(j)
  /\ UNCHANGED <<filed, sched, lock, endings, left, calls, crashes>>

(* attachTenantFromKyc marks the application after its transaction.        *)
Approve(j) ==
  /\ job[j].pc = "approve"
  /\ app' = [app EXCEPT ![job[j].t] = IF filed[job[j].t] = job[j].n THEN "approved" ELSE @]
  /\ Finish(j)
  /\ UNCHANGED <<lease, filed, sched, lock, history, calls, crashes>>

(* A fully paid offer attaches its applicant under the property's lock     *)
(* (payment.service.ts attachTenantAndRejectOthers).                       *)
AttachFromOffer(t) ==
  /\ status # "occupied"
  /\ app[t] # "none"
  /\ lock[t] = Nobody
  /\ stints[t] < MaxStints
  /\ row' = [row EXCEPT ![t] = Reactivated(t)]
  /\ rent' = [rent EXCEPT ![t] = @ + 1]
  /\ status' = "occupied"
  /\ app' = [u \in Tenants |-> IF u = t THEN "approved"
                               ELSE IF app[u] = "pending" THEN "rejected" ELSE app[u]]
  /\ stints' = [stints EXCEPT ![t] = @ + 1]
  /\ Blame({})
  /\ UNCHANGED <<filed, sched, lock, job, endings, late, left, calls, crashes>>

-----------------------------------------------------------------------------
(* submitKYCApplication: the status is read, then the row is written; an   *)
(* earlier application blocks a new one unless it was rejected or its      *)
(* tenancy ended.                                                          *)
AskSubmit(j, t) ==
  /\ status = "vacant"
  /\ \/ app[t] \in {"none", "rejected"}
     \/ app[t] = "approved" /\ ~LivesIn(t)
  /\ Ask(j, [Idle EXCEPT !.pc = "submit", !.t = t, !.n = filed[t]])
  /\ UNCHANGED <<lease, papers, sched, lock, history, crashes>>

(* The application it read is deleted; the unique index refuses the new    *)
(* one if another was filed meanwhile.                                     *)
Submit(j) ==
  LET t == job[j].t IN
  /\ job[j].pc = "submit"
  /\ IF filed[t] # job[j].n
       THEN UNCHANGED <<papers, late>>
       ELSE /\ filed' = [filed EXCEPT ![t] = @ + 1]
            /\ app' = [app EXCEPT ![t] = "pending"]
            /\ late' = IF status = "vacant" THEN late \ {t} ELSE late \cup {t}
  /\ Finish(j)
  /\ UNCHANGED <<lease, sched, lock, stints, endings, left, faults, calls, crashes>>

-----------------------------------------------------------------------------
(* Scheduling the end: scheduleMoveTenantOut and deactivateRenewal look    *)
(* for an unprocessed row and rewrite it, or insert one.  (A lapse is      *)
(* refused when the renewal is paid for or the term is over: bills and     *)
(* terms are not kept here, so either may be the case whenever one is      *)
(* asked for.)                                                             *)
AskSchedule(j, by, t) ==
  /\ LivesIn(t)
  /\ by = "lapse" => rent[t] > 0
  /\ \E s \in (IF OpenEnds(t) = {} THEN {NoSchedule} ELSE OpenEnds(t)) :
       Ask(j, [Idle EXCEPT !.pc = "schedule", !.by = by, !.t = t, !.s = s])
  /\ UNCHANGED <<lease, papers, sched, lock, history, crashes>>

(* deactivateRenewal saves the whole row it read: a row closed since then  *)
(* is open again.                                                          *)
Rewritten(s, by) ==
  [sched[s] EXCEPT !.due = FALSE,
                   !.open = @ \/ by = "lapse",
                   !.cancelled = @ /\ by # "lapse",
                   !.of = IF by = "lapse" \/ sched[s].open THEN stints[sched[s].tenant] ELSE @]
Inserted(t) == [NoRow EXCEPT !.tenant = t, !.open = TRUE, !.of = stints[t]]

SaveSchedule(j) ==
  LET t == job[j].t
      s == job[j].s
      stale == IF s = NoSchedule THEN OpenEnds(t) # {} ELSE ~sched[s].open IN
  /\ job[j].pc = "schedule"
  /\ IF s # NoSchedule
       THEN sched' = [sched EXCEPT ![s] = Rewritten(s, job[j].by)]
       ELSE \E new \in {n \in Schedules : sched[n].tenant = Nobody} :
              sched' = [sched EXCEPT ![new] = Inserted(t)]
  /\ left' = IF LivesIn(t) THEN left ELSE left \cup {n \in Schedules : sched'[n] # sched[n]}
  /\ faults' = IF stale THEN faults \cup {"reschedule"} ELSE faults
  /\ Finish(j)
  /\ UNCHANGED <<lease, papers, lock, stints, endings, late, calls, crashes>>

(* cancelScheduledMoveOut reads the row, then closes it by id.             *)
AskCancel(j, s) ==
  /\ sched[s].open
  /\ Ask(j, [Idle EXCEPT !.pc = "cancel", !.s = s])
  /\ UNCHANGED <<lease, papers, sched, lock, history, crashes>>

Cancel(j) ==
  /\ job[j].pc = "cancel"
  /\ sched' = [sched EXCEPT ![job[j].s].cancelled = TRUE, ![job[j].s].open = FALSE]
  /\ Finish(j)
  /\ UNCHANGED <<lease, papers, lock, history, calls, crashes>>

DatePasses(s) ==
  /\ sched[s].open /\ ~sched[s].due
  /\ sched' = [sched EXCEPT ![s].due = TRUE]
  /\ UNCHANGED <<lease, papers, lock, job, history, calls, crashes>>

-----------------------------------------------------------------------------
(* Ending it: moveTenantOut at once, or processScheduledMoveOuts, which    *)
(* works through the rows due when it started.  It is the last step of the *)
(* daily cron: an error that an earlier step lets through leaves the day   *)
(* without a sweep.                                                        *)
AskEnd(j, t) ==
  /\ Ask(j, [Idle EXCEPT !.pc = "end", !.t = t])
  /\ UNCHANGED <<lease, papers, sched, lock, history, crashes>>

Due == {s \in Schedules : sched[s].open /\ ~sched[s].cancelled /\ sched[s].due}

StartSweep(i) ==
  /\ job[i] = Idle /\ Due # {}
  /\ job' = [job EXCEPT ![i] = [Idle EXCEPT !.pc = "pick", !.todo = Due]]
  /\ UNCHANGED <<lease, papers, sched, lock, history, calls, crashes>>

(* effective_date.toISOString() needs a Date; of a string it throws, and   *)
(* the row is left as it is.                                               *)
SkipDue(i) ==
  /\ job[i].pc = "pick" /\ "string" \in Hydrations
  /\ \E s \in job[i].todo : job' = [job EXCEPT ![i].todo = @ \ {s}]
  /\ UNCHANGED <<lease, papers, sched, lock, history, calls, crashes>>

PickDue(i) ==
  /\ job[i].pc = "pick" /\ job[i].todo # {} /\ "Date" \in Hydrations
  /\ \E s \in job[i].todo :
       job' = [job EXCEPT ![i].pc = "end", ![i].s = s, ![i].t = sched[s].tenant,
                          ![i].todo = @ \ {s}]
  /\ UNCHANGED <<lease, papers, sched, lock, history, calls, crashes>>

SweepDone(i) ==
  /\ job[i].pc = "pick" /\ job[i].todo = {}
  /\ Finish(i)
  /\ UNCHANGED <<lease, papers, sched, lock, history, calls, crashes>>

(* A request answers an error, the sweep goes on to the next row.          *)
GiveUp(j) == IF j \in Crons THEN To(j, "pick") ELSE Finish(j)

(* Variant with a bug: a row of any status is locked. *)
AnyRow(t) == row[t].live + row[t].ended > 0

(* processMoveTenantOut: the tenant's ACTIVE row is read FOR UPDATE, and   *)
(* the UPDATE that ends it asks for an ACTIVE row again.                   *)
ActiveRow(t) == LivesIn(t)

LockRow(j) ==
  LET t == job[j].t IN
  /\ job[j].pc = "end" /\ lock[t] = Nobody
  /\ IF ActiveRow(t)
       THEN To(j, "locked") /\ lock' = [lock EXCEPT ![t] = j]
       ELSE GiveUp(j) /\ UNCHANGED lock
  /\ UNCHANGED <<lease, papers, sched, history, calls, crashes>>

EndRows(t) == row' = [row EXCEPT ![t] = [live |-> 0, ended |-> @.ended + @.live]]

(* Variant with a bug: the schedules stay open. *)
CloseNothing(t) == UNCHANGED sched

CloseSchedules(t) ==
  sched' = [s \in Schedules |-> IF s \in OpenEnds(t) THEN [sched[s] EXCEPT !.open = FALSE]
                                ELSE sched[s]]

(* The rest of the transaction: rents, rows, schedules, the property, the  *)
(* tenancy_ended row, and the event after the commit.                      *)
EndTenancy(j) ==
  LET t == job[j].t IN
  /\ job[j].pc = "locked" /\ ActiveRow(t)
  /\ rent' = [rent EXCEPT ![t] = 0]
  /\ EndRows(t)
  /\ CloseSchedules(t)
  /\ status' = "vacant"
  /\ endings' = [endings EXCEPT ![t] = @ + 1]
  /\ lock' = [lock EXCEPT ![t] = Nobody]
  /\ left' = left \ OpenEnds(t)
  /\ Blame({})
  /\ IF j \in Crons THEN To(j, "mark") ELSE Finish(j)
  /\ UNCHANGED <<papers, stints, late, calls, crashes>>

RollBack(j) ==
  /\ job[j].pc = "locked" /\ crashes < MaxCrashes
  /\ lock' = [lock EXCEPT ![job[j].t] = Nobody]
  /\ GiveUp(j)
  /\ crashes' = crashes + 1
  /\ UNCHANGED <<lease, papers, sched, history, calls>>

(* The sweep marks the row once more, by id.                               *)
MarkProcessed(i) ==
  /\ job[i].pc = "mark"
  /\ sched' = [sched EXCEPT ![job[i].s].open = FALSE]
  /\ To(i, "pick")
  /\ UNCHANGED <<lease, papers, lock, history, calls, crashes>>

-----------------------------------------------------------------------------
(* rents.service.ts deactivateTenant: three statements, no transaction,    *)
(* and the schedules stay open.                                            *)
AskDeactivate(j, t) ==
  /\ rent[t] > 0
  /\ Ask(j, [Idle EXCEPT !.pc = "end_row", !.t = t])
  /\ status' = "vacant"
  /\ Blame({})
  /\ UNCHANGED <<row, rent, papers, sched, lock, stints, endings, late, left, crashes>>

DeactivateRow(j) ==
  LET t == job[j].t IN
  /\ job[j].pc = "end_row" /\ lock[t] = Nobody
  /\ EndRows(t)
  /\ left' = left \cup OpenEnds(t)
  /\ To(j, "end_rents")
  /\ UNCHANGED <<status, rent, papers, sched, lock, stints, endings, late, faults, calls, crashes>>

DeactivateRents(j) ==
  /\ job[j].pc = "end_rents"
  /\ rent' = [rent EXCEPT ![job[j].t] = 0]
  /\ Finish(j)
  /\ UNCHANGED <<status, row, papers, sched, lock, history, calls, crashes>>

(* handleDeclinedRenewalAtExpiry: the rent is flipped if it is still       *)
(* ACTIVE, the row by id, and the property vacated if no rent remains.     *)
Decline(i, t) ==
  /\ job[i] = Idle /\ calls < MaxCalls
  /\ rent[t] > 0 /\ LivesIn(t) /\ OpenEnds(t) = {}
  /\ rent' = [rent EXCEPT ![t] = @ - 1]
  /\ job' = [job EXCEPT ![i] = [Idle EXCEPT !.pc = "decline_row", !.t = t,
                                     !.n = row[t].ended]]
  /\ calls' = calls + 1
  /\ Blame({})
  /\ UNCHANGED <<status, row, papers, sched, lock, stints, endings, late, left, crashes>>

DeclineRow(i) ==
  LET t == job[i].t IN
  /\ job[i].pc = "decline_row" /\ lock[t] = Nobody
  /\ row' = [row EXCEPT ![t] = IF LivesIn(t) /\ @.ended <= job[i].n
                               THEN [live |-> @.live - 1, ended |-> @.ended + 1] ELSE @]
  /\ left' = left \cup OpenEnds(t)
  /\ To(i, "decline_vacate")
  /\ UNCHANGED <<status, rent, papers, sched, lock, stints, endings, late, faults, calls, crashes>>

(* Variant with a bug: the property is not vacated. *)
DeclineKeepsStatus(i) ==
  /\ job[i].pc = "decline_vacate"
  /\ Finish(i)
  /\ UNCHANGED <<lease, papers, sched, lock, history, calls, crashes>>

DeclineVacate(i) ==
  /\ job[i].pc = "decline_vacate"
  /\ status' = IF Let THEN status ELSE "vacant"
  /\ faults' = IF ~Let /\ Rentless # {} THEN faults \cup {"unseen"} ELSE faults
  /\ Finish(i)
  /\ UNCHANGED <<row, rent, papers, sched, lock, stints, endings, late, left, calls, crashes>>

-----------------------------------------------------------------------------
(* The repair buttons.  syncPropertyStatuses goes by the rents, and writes *)
(* by id what it computed.                                                 *)
ByRents == IF Let THEN "occupied" ELSE "vacant"

AskSync(j) ==
  /\ status # ByRents
  /\ Ask(j, [Idle EXCEPT !.pc = "sync", !.copy = ByRents])
  /\ UNCHANGED <<lease, papers, sched, lock, history, crashes>>

Sync(j) ==
  /\ job[j].pc = "sync"
  /\ status' = job[j].copy
  /\ Blame((IF job[j].copy # ByRents THEN {"race"} ELSE {})
             \cup (IF job[j].copy = "vacant" /\ Rentless # {} THEN {"unseen"} ELSE {}))
  /\ Finish(j)
  /\ UNCHANGED <<row, rent, papers, sched, lock, stints, endings, late, left, calls, crashes>>

(* checkAndFixRentConsistency, one transaction: a rent without an ACTIVE   *)
(* row goes, of several the newest stays, and the rows of a tenant without *)
(* a rent are deleted, whatever their status.                              *)
Orphaned == {t \in Tenants : rent[t] > 0 /\ ~LivesIn(t)}
Doubled == {t \in Tenants : rent[t] > 1}

FixConsistency ==
  /\ calls < MaxCalls
  /\ Orphaned \cup Doubled \cup Rentless # {}
  /\ \A t \in Rentless : lock[t] = Nobody
  /\ rent' = [t \in Tenants |-> IF t \in Orphaned THEN 0 ELSE IF t \in Doubled THEN 1 ELSE rent[t]]
  /\ status' = IF Orphaned # {} /\ \A t \in Tenants \ Orphaned : rent[t] = 0 THEN "vacant"
               ELSE status
  /\ row' = [t \in Tenants |-> IF t \in Rentless THEN [live |-> 0, ended |-> 0] ELSE row[t]]
  /\ left' = left \cup UNION {OpenEnds(t) : t \in Rentless}
  /\ faults' = faults \cup {"repair"}
  /\ calls' = calls + 1
  /\ UNCHANGED <<papers, sched, lock, job, stints, endings, late, crashes>>

(* fixExistingDataInconsistencies keeps a tenant's newest rent and ends    *)
(* the row and the occupancy of the property of each older one, the same   *)
(* property included; an occupied property without a rent is vacated.      *)
FixDuplicateRents ==
  /\ calls < MaxCalls
  /\ Doubled # {} \/ (status = "occupied" /\ ~Let)
  /\ \A t \in Doubled : lock[t] = Nobody
  /\ rent' = [t \in Tenants |-> IF t \in Doubled THEN 1 ELSE rent[t]]
  /\ row' = [t \in Tenants |-> IF t \in Doubled
                               THEN [live |-> 0, ended |-> row[t].ended + row[t].live] ELSE row[t]]
  /\ status' = "vacant"
  /\ left' = left \cup UNION {OpenEnds(t) : t \in Doubled}
  /\ faults' = faults \cup {"repair"}
  /\ calls' = calls + 1
  /\ UNCHANGED <<papers, sched, lock, job, stints, endings, late, crashes>>

(* cleanupDuplicateTenantAssignments keeps a tenant's newest ACTIVE row;   *)
(* each older one takes the rents of its property with it.                 *)
FixDuplicateRows(t) ==
  /\ calls < MaxCalls
  /\ row[t].live > 1 /\ lock[t] = Nobody
  /\ row' = [row EXCEPT ![t] = [live |-> 1, ended |-> @.ended + @.live - 1]]
  /\ rent' = [rent EXCEPT ![t] = 0]
  /\ status' = "occupied"
  /\ faults' = faults \cup {"repair"}
  /\ calls' = calls + 1
  /\ UNCHANGED <<papers, sched, lock, job, stints, endings, late, left, crashes>>

-----------------------------------------------------------------------------
(* A process dies: its transaction is rolled back, what it wrote outside   *)
(* one stays.                                                              *)
Crash(j) ==
  /\ job[j] # Idle /\ crashes < MaxCrashes
  /\ lock' = [t \in Tenants |-> IF lock[t] = j THEN Nobody ELSE lock[t]]
  /\ Finish(j)
  /\ Blame({})
  /\ crashes' = crashes + 1
  /\ UNCHANGED <<lease, papers, sched, stints, endings, late, left, calls>>

Request(j) ==
  \/ \E t \in Tenants : \/ \E by \in {"add", "kyc", "attach", "move_in"} : AskBegin(j, by, t)
                        \/ \E by \in {"date", "lapse"} : AskSchedule(j, by, t)
                        \/ AskSubmit(j, t) \/ AskEnd(j, t) \/ AskDeactivate(j, t)
  \/ \E s \in Schedules : AskCancel(j, s)
  \/ AskSync(j)

(* What a process that has started goes on to do.                          *)
Proceed(j) ==
  \/ Begin(j) \/ Approve(j) \/ Submit(j)
  \/ SaveSchedule(j) \/ Cancel(j) \/ Sync(j)
  \/ SkipDue(j) \/ PickDue(j) \/ SweepDone(j) \/ LockRow(j) \/ EndTenancy(j) \/ MarkProcessed(j)
  \/ DeactivateRow(j) \/ DeactivateRents(j) \/ DeclineRow(j) \/ DeclineVacate(j)

Repair == FixConsistency \/ FixDuplicateRents \/ \E t \in Tenants : FixDuplicateRows(t)

Next ==
  \/ \E j \in Callers : Request(j)
  \/ \E i \in Crons : StartSweep(i) \/ \E t \in Tenants : Decline(i, t)
  \/ \E j \in Jobs : Proceed(j) \/ RollBack(j) \/ Crash(j)
  \/ \E t \in Tenants : AttachFromOffer(t)
  \/ \E s \in Schedules : DatePasses(s)
  \/ Repair

Spec == Init /\ [][Next]_vars

(* A process that runs goes on, and while a row is due the cron comes to   *)
(* its sweep again.                                                        *)
LiveSpec ==
  /\ Spec
  /\ \A j \in Jobs : WF_vars(Proceed(j))
  /\ \A i \in Crons : WF_vars(StartSweep(i))

-----------------------------------------------------------------------------
Ways == {"", "add", "kyc", "attach", "move_in", "date", "lapse"}
Steps == {"idle", "begin", "approve", "submit", "schedule", "cancel", "pick", "end", "locked",
          "mark", "end_row", "end_rents", "decline_row", "decline_vacate", "sync"}
Somebody == Tenants \cup {Nobody}

(* The variables keep their types.                                         *)
TypeOK ==
  /\ status \in {"vacant", "occupied"}
  /\ row \in [Tenants -> [live : Nat, ended : Nat]]
  /\ rent \in [Tenants -> Nat]
  /\ app \in [Tenants -> {"none", "pending", "approved", "rejected"}]
  /\ filed \in [Tenants -> Nat]
  /\ sched \in [Schedules -> [tenant : Somebody, open : BOOLEAN, cancelled : BOOLEAN,
                              due : BOOLEAN, of : Nat]]
  /\ lock \in [Tenants -> Jobs \cup {Nobody}]
  /\ job \in [Jobs -> [pc : Steps, by : Ways, t : Somebody,
                       s : Schedules \cup {NoSchedule},
                       copy : {"", "old row", "new row", "vacant", "occupied"},
                       n : Nat, todo : SUBSET Schedules]]
  /\ stints \in [Tenants -> Nat] /\ endings \in [Tenants -> Nat]
  /\ late \subseteq Tenants

(* A tenancy is ended once: two crons, a cron and an immediate move-out, a *)
(* double click, whatever repaired the rows in between.                    *)
EndedOnce ==
  \A t \in Tenants : endings[t] + (IF LivesIn(t) THEN 1 ELSE 0) <= stints[t]

(* One household at a time, billed by one rent at most, as long as no      *)
(* check was overtaken and nothing ended a tenancy half way.               *)
OneHousehold ==
  faults = {} /\ ~HalfEnded =>
    /\ Cardinality(Residents) <= 1
    /\ \A t \in Tenants : row[t].live <= 1 /\ rent[t] <= row[t].live

(* And the property's status says whether someone lives there.             *)
StatusTellsTruth ==
  faults = {} /\ ~HalfEnded => (status = "occupied" <=> Residents # {})

(* The cron ends the tenancy a schedule was made for, never the same       *)
(* tenant's next one, unless another path ended the first and left the     *)
(* schedule open, or the sweep read it before it was closed.               *)
EndsItsOwnTenancy ==
  [][\A i \in Crons :
       job[i].pc = "locked" /\ job'[i].pc = "mark" =>
         LET s == job[i].s IN
         \/ sched[s].of = stints[job[i].t]
         \/ s \in left \/ ~sched[s].open
         \/ faults # {}]_vars

(* Nobody's application stays PENDING on a property that is taken, unless  *)
(* it arrived on a status just out of date or addTenant took the property. *)
NoApplicantWaits ==
  faults = {} /\ ~HalfEnded =>
    \A t \in Tenants : status = "occupied" /\ app[t] = "pending" => t \in late

(* A tenancy has one scheduled end to cancel.                              *)
OneOpenEnd ==
  "reschedule" \in faults \/ \A t \in Tenants : Cardinality(OpenEnds(t)) <= 1

(* "CONFIRMED: active scheduled end - processed by the daily processor     *)
(* on/after effective_date": one that is due happens, unless it is         *)
(* cancelled, moved, or rewritten on an out-of-date read.                  *)
DueEndHappens ==
  \A s \in Schedules :
    (s \in Due /\ sched[s].tenant \in Residents) ~>
      \/ sched[s].tenant \notin Residents
      \/ sched[s].cancelled \/ ~sched[s].due
      \/ "reschedule" \in faults

(* "The property model is single-occupancy": one tenant lives there.       *)
SingleOccupancy == Cardinality(Residents) <= 1

(* Rejecting in the same transaction closes "the window where a new        *)
(* application could be submitted mid-attachment and survive as PENDING",  *)
(* on every attachment path.                                               *)
NoneSurvivesPending ==
  \A t \in Tenants : status = "occupied" /\ app[t] = "pending" =>
    \E j \in Callers : job[j].pc = "approve" /\ job[j].t = t

(* "Do NOT hard-delete": a delete would wipe the tenant's billing history. *)
RowsAreKept ==
  [][\A t \in Tenants : row'[t].live + row'[t].ended >= row[t].live + row[t].ended]_vars
=============================================================================
