---------------------------- MODULE OccupancyProofs ----------------------------
(***************************************************************************)
(* Occupancy for any number of tenants, requests, cron instances and       *)
(* schedules: the numbers of a tenancy's ends, that its unguarded checks   *)
(* keep one household as long as nothing overtakes them, that its rivals   *)
(* are answered, and that a sweep ends the tenancy it was sent to.  The    *)
(* services keep these facts in between, while a tenancy is ended by       *)
(* several statements: HalfWay says what is true then, and is why the      *)
(* invariant is inductive.                                                 *)
(***************************************************************************)
EXTENDS Occupancy, TLAPS, FiniteSetTheorems

JobRecord == [pc : Steps, by : Ways, t : Somebody, s : Schedules \cup {NoSchedule},
              copy : {"", "old row", "new row", "vacant", "occupied"},
              n : Nat, todo : SUBSET Schedules]
SchedRecord == [tenant : Somebody, open : BOOLEAN, cancelled : BOOLEAN, due : BOOLEAN, of : Nat]
LeaseTyped ==
  /\ status \in {"vacant", "occupied"}
  /\ row \in [Tenants -> [live : Nat, ended : Nat]]
  /\ rent \in [Tenants -> Nat]
PapersTyped ==
  /\ app \in [Tenants -> {"none", "pending", "approved", "rejected"}]
  /\ filed \in [Tenants -> Nat]
  /\ late \subseteq Tenants
CountsTyped == stints \in [Tenants -> Nat] /\ endings \in [Tenants -> Nat]
SchedTyped == sched \in [Schedules -> SchedRecord]
LockTyped == lock \in [Tenants -> Jobs \cup {Nobody}]
JobTyped == job \in [Jobs -> JobRecord]

(* What a process in flight carries with it.                               *)
JobMeans(j) ==
  /\ job[j].pc \in {"begin", "submit", "schedule"} => job[j].t \in Tenants
  /\ job[j].pc = "begin" => job[j].by \in {"add", "kyc", "attach", "move_in"}
  /\ job[j].pc = "sync" => job[j].copy \in {"vacant", "occupied"}
  /\ job[j].pc = "schedule" /\ job[j].s # NoSchedule => sched[job[j].s].tenant = job[j].t
JobsMean == \A j \in Jobs : JobMeans(j)

(* No tenancy is ended that did not begin.                                 *)
Counted == \A t \in Tenants : endings[t] + row[t].live <= stints[t]

(* Between two tenancy changes: one household, one rent, a true status.    *)
Consistent ==
  /\ \A t, u \in Tenants : row[t].live > 0 /\ row[u].live > 0 => t = u
  /\ \A t \in Tenants : row[t].live <= 1 /\ rent[t] <= row[t].live
  /\ status = "occupied" <=> \E t \in Tenants : row[t].live > 0

(* Inside an end that is written statement by statement.                   *)
HalfPcs == {"end_row", "end_rents", "decline_row", "decline_vacate"}
HalfJobs == {j \in Jobs : job[j].pc \in HalfPcs}
HalfWay(j) ==
  LET t == job[j].t IN
  /\ HalfJobs = {j}
  /\ t \in Tenants
  /\ \A u \in Tenants \ {t} : row[u].live = 0 /\ rent[u] = 0
  /\ job[j].pc = "end_row" => status = "vacant"
  /\ job[j].pc = "end_rents" => status = "vacant" /\ row[t].live = 0
  /\ job[j].pc = "decline_row" => row[t].live = 1 /\ row[t].ended <= job[j].n /\ rent[t] = 0
  /\ job[j].pc = "decline_vacate" => row[t].live = 0 /\ rent[t] = 0

LeaseOK ==
  faults = {} => /\ HalfJobs = {} => Consistent
                 /\ \A j \in HalfJobs : HalfWay(j)

PapersOK ==
  faults = {} => \A t \in Tenants : status = "occupied" /\ app[t] = "pending" => t \in late

IInv == TypeOK /\ JobsMean /\ Counted /\ LeaseOK /\ PapersOK

Only(j) == \A k \in Jobs \ {j} : job'[k] = job[k]
KeepsTenants ==
  \A s \in Schedules : sched[s].tenant \in Tenants => sched'[s].tenant = sched[s].tenant

-----------------------------------------------------------------------------
LEMMA TypeSplit ==
  TypeOK <=> /\ LeaseTyped /\ PapersTyped /\ CountsTyped
             /\ SchedTyped /\ LockTyped /\ JobTyped
  BY Zenon DEF TypeOK, LeaseTyped, PapersTyped, CountsTyped, SchedTyped, LockTyped, JobTyped,
     JobRecord, SchedRecord

LEMMA TypeSplitNext ==
  TypeOK' <=> /\ LeaseTyped' /\ PapersTyped' /\ CountsTyped'
              /\ SchedTyped' /\ LockTyped' /\ JobTyped'
  BY Zenon DEF TypeOK, LeaseTyped, PapersTyped, CountsTyped, SchedTyped, LockTyped, JobTyped,
     JobRecord, SchedRecord

LEMMA IdleTyped == Idle \in JobRecord /\ Idle.pc = "idle"
  BY DEF Idle, JobRecord, Ways, Somebody, Steps

(* The three ways a process moves.                                         *)
LEMMA FinishJob ==
  ASSUME JobTyped, NEW j \in Jobs, Finish(j)
  PROVE  JobTyped' /\ Only(j) /\ job'[j] = Idle /\ job'[j].pc = "idle"
<1>1. job' = [job EXCEPT ![j] = Idle]  BY DEF Finish
<1>2. JobTyped'  BY <1>1, IdleTyped, Zenon DEF JobTyped
<1>3. Only(j) /\ job'[j] = Idle  BY <1>1, Zenon DEF JobTyped, Only
<1> QED  BY <1>2, <1>3, IdleTyped

LEMMA ToJob ==
  ASSUME JobTyped, NEW j \in Jobs, NEW pc \in Steps, To(j, pc)
  PROVE  /\ JobTyped' /\ Only(j)
         /\ job'[j].pc = pc /\ job'[j].t = job[j].t /\ job'[j].n = job[j].n
  BY DEF JobTyped, To, JobRecord, Only

LEMMA AskJob ==
  ASSUME JobTyped, NEW j \in Jobs, NEW op \in JobRecord, Ask(j, op)
  PROVE  /\ JobTyped' /\ Only(j)
         /\ job'[j] = op /\ job[j] = Idle /\ job[j].pc = "idle"
  BY IdleTyped DEF JobTyped, Ask, Only

LEMMA GiveUpJob ==
  ASSUME JobTyped, NEW j \in Jobs, GiveUp(j)
  PROVE  JobTyped' /\ Only(j) /\ job'[j].pc \in {"idle", "pick"}
<1>1. CASE j \in Crons  BY <1>1, ToJob DEF GiveUp, Steps
<1>2. CASE j \notin Crons  BY <1>2, FinishJob DEF GiveUp
<1> QED  BY <1>1, <1>2

-----------------------------------------------------------------------------
(* A process outside a half-way end that stays outside leaves those inside *)
(* alone.                                                                  *)
LEMMA SameHalves ==
  ASSUME NEW j \in Jobs, Only(j), job[j].pc \notin HalfPcs, job'[j].pc \notin HalfPcs
  PROVE  HalfJobs' = HalfJobs /\ \A k \in HalfJobs : job'[k] = job[k]
<1>1. \A k \in Jobs : k # j => job'[k] = job[k]  BY DEF Only
<1>2. \A k \in Jobs : job'[k].pc \in HalfPcs <=> job[k].pc \in HalfPcs  BY <1>1
<1>3. HalfJobs' = HalfJobs  BY <1>2, Zenon DEF HalfJobs
<1>4. \A k \in HalfJobs : job'[k] = job[k]  BY <1>1 DEF HalfJobs
<1> QED  BY <1>3, <1>4

(* A step that leaves the tenancies, and whoever is half way, alone.       *)
LEMMA LeaseStays ==
  ASSUME LeaseOK, UNCHANGED lease, faults \subseteq faults',
         HalfJobs' = HalfJobs, \A k \in HalfJobs : job'[k] = job[k]
  PROVE  LeaseOK'
<1> SUFFICES ASSUME faults' = {}
             PROVE  (HalfJobs = {} => Consistent') /\ \A k \in HalfJobs : HalfWay(k)'
  BY DEF LeaseOK
<1>0. faults = {}  OBVIOUS
<1>1. status' = status /\ row' = row /\ rent' = rent  BY DEF lease
<1>2. HalfJobs = {} => Consistent'  BY <1>0, <1>1 DEF LeaseOK, Consistent
<1>3. ASSUME NEW k \in HalfJobs  PROVE HalfWay(k)'
  BY <1>0, <1>1, <1>3, Zenon DEF LeaseOK, HalfWay
<1> QED  BY <1>2, <1>3

LEMMA MeansStay ==
  ASSUME JobTyped, JobsMean, NEW j \in Jobs, Only(j), JobMeans(j)', KeepsTenants
  PROVE  JobsMean'
<1> SUFFICES ASSUME NEW k \in Jobs, k # j PROVE JobMeans(k)'
  BY DEF JobsMean
<1>1. job'[k] = job[k] /\ JobMeans(k) /\ job[k].s \in Schedules \cup {NoSchedule}
  BY DEF Only, JobsMean, JobTyped, JobRecord
<1> QED  BY <1>1 DEF JobMeans, KeepsTenants

(* A step that writes nothing but schedules and locks.                     *)
LEMMA QuietStep ==
  ASSUME IInv, NEW j \in Jobs, Only(j), JobTyped', SchedTyped', LockTyped',
         job[j].pc \notin HalfPcs, job'[j].pc \notin HalfPcs, JobMeans(j)', KeepsTenants,
         UNCHANGED <<lease, papers, stints, endings, late>>, faults \subseteq faults'
  PROVE  IInv'
<1>1. TypeOK'
  <2>1. LeaseTyped' /\ PapersTyped' /\ CountsTyped'
    BY TypeSplit, Zenon DEF IInv, LeaseTyped, PapersTyped, CountsTyped, lease, papers
  <2> QED  BY <2>1, TypeSplitNext, Zenon
<1>2. JobsMean'  BY MeansStay, TypeSplit DEF IInv
<1>3. Counted'  BY DEF IInv, Counted, lease
<1>4. LeaseOK'  BY SameHalves, LeaseStays DEF IInv
<1>5. PapersOK'  BY DEF IInv, PapersOK, lease, papers
<1> QED  BY <1>1, <1>2, <1>3, <1>4, <1>5 DEF IInv

(* Who ends nothing half way, and takes the blame for nothing, met the     *)
(* tenancies as they should be.                                            *)
LEMMA Blameless ==
  ASSUME LeaseOK, NEW kinds, Blame(kinds), faults' = {}
  PROVE  faults = {} /\ HalfJobs = {} /\ Consistent /\ kinds = {}
<1>1. faults = {} /\ kinds = {} /\ ~HalfEnded  BY DEF Blame
<1>2. HalfJobs = {}  BY <1>1 DEF HalfEnded, HalfJobs, HalfPcs
<1> QED  BY <1>1, <1>2 DEF LeaseOK

-----------------------------------------------------------------------------
(* Requests that only ask.                                                 *)
LEMMA AskBeginKeeps ==
  ASSUME IInv, NEW j \in Jobs, NEW by \in {"add", "kyc", "attach", "move_in"}, NEW t \in Tenants,
         AskBegin(j, by, t)
  PROVE  IInv'
<1> DEFINE copy == IF by = "move_in" /\ row[t].ended > 0 THEN "old row" ELSE "new row"
           op == [Idle EXCEPT !.pc = "begin", !.by = by, !.t = t, !.n = filed[t], !.copy = copy]
<1>0. TypeOK /\ PapersTyped /\ JobTyped  BY TypeSplit DEF IInv
<1>1. /\ op \in JobRecord
      /\ op.pc = "begin" /\ op.t = t /\ op.by = by
  BY <1>0 DEF Idle, JobRecord, PapersTyped, Steps, Ways, Somebody
<1>2. Ask(j, op) /\ UNCHANGED <<lease, papers, sched, lock, history>>
  BY Zenon DEF AskBegin
<1> HIDE DEF op
<1>3. JobTyped' /\ Only(j) /\ job'[j] = op /\ job[j].pc = "idle"
  BY <1>0, <1>1, <1>2, AskJob
<1>4. JobMeans(j)'  BY <1>1, <1>3 DEF JobMeans
<1>5. SchedTyped' /\ LockTyped' /\ KeepsTenants
  BY <1>0, <1>2, TypeSplit DEF SchedTyped, LockTyped, KeepsTenants
<1> QED  BY <1>1, <1>2, <1>3, <1>4, <1>5, QuietStep DEF history, HalfPcs

LEMMA AskSubmitKeeps ==
  ASSUME IInv, NEW j \in Jobs, NEW t \in Tenants, AskSubmit(j, t)
  PROVE  IInv'
<1> DEFINE op == [Idle EXCEPT !.pc = "submit", !.t = t, !.n = filed[t]]
<1>0. TypeOK /\ PapersTyped /\ JobTyped  BY TypeSplit DEF IInv
<1>1. op \in JobRecord /\ op.pc = "submit" /\ op.t = t
  BY <1>0 DEF Idle, JobRecord, PapersTyped, Steps, Ways, Somebody
<1>2. Ask(j, op) /\ UNCHANGED <<lease, papers, sched, lock, history>>
  BY Zenon DEF AskSubmit
<1> HIDE DEF op
<1>3. JobTyped' /\ Only(j) /\ job'[j] = op /\ job[j].pc = "idle"
  BY <1>0, <1>1, <1>2, AskJob
<1>4. JobMeans(j)'  BY <1>1, <1>3 DEF JobMeans
<1>5. SchedTyped' /\ LockTyped' /\ KeepsTenants
  BY <1>0, <1>2, TypeSplit DEF SchedTyped, LockTyped, KeepsTenants
<1> QED  BY <1>1, <1>2, <1>3, <1>4, <1>5, QuietStep DEF history, HalfPcs

LEMMA AskScheduleKeeps ==
  ASSUME IInv, NEW j \in Jobs, NEW by \in {"date", "lapse"}, NEW t \in Tenants,
         AskSchedule(j, by, t)
  PROVE  IInv'
<1>0. TypeOK /\ SchedTyped /\ LockTyped /\ JobTyped  BY TypeSplit DEF IInv
<1>1. PICK s \in (IF OpenEnds(t) = {} THEN {NoSchedule} ELSE OpenEnds(t)) :
        Ask(j, [Idle EXCEPT !.pc = "schedule", !.by = by, !.t = t, !.s = s])
  BY Zenon DEF AskSchedule
<1> DEFINE op == [Idle EXCEPT !.pc = "schedule", !.by = by, !.t = t, !.s = s]
<1>2. s \in Schedules \cup {NoSchedule} /\ (s # NoSchedule => sched[s].tenant = t)
  BY DEF OpenEnds
<1>3. op \in JobRecord /\ op.pc = "schedule" /\ op.t = t /\ op.s = s
  BY <1>2 DEF Idle, JobRecord, Steps, Ways, Somebody
<1>4. Ask(j, op) /\ UNCHANGED <<lease, papers, sched, lock, history>>
  BY <1>1, Zenon DEF AskSchedule
<1> HIDE DEF op
<1>5. JobTyped' /\ Only(j) /\ job'[j] = op /\ job[j].pc = "idle"
  BY <1>0, <1>3, <1>4, AskJob
<1>6. JobMeans(j)'  BY <1>2, <1>3, <1>4, <1>5 DEF JobMeans
<1>7. SchedTyped' /\ LockTyped' /\ KeepsTenants
  BY <1>0, <1>4 DEF SchedTyped, LockTyped, KeepsTenants
<1> QED  BY <1>3, <1>4, <1>5, <1>6, <1>7, QuietStep DEF history, HalfPcs

LEMMA AskCancelKeeps ==
  ASSUME IInv, NEW j \in Jobs, NEW s \in Schedules, AskCancel(j, s)
  PROVE  IInv'
<1> DEFINE op == [Idle EXCEPT !.pc = "cancel", !.s = s]
<1>0. TypeOK /\ SchedTyped /\ LockTyped /\ JobTyped  BY TypeSplit DEF IInv
<1>1. op \in JobRecord /\ op.pc = "cancel"
  BY DEF Idle, JobRecord, Steps, Ways, Somebody
<1>2. Ask(j, op) /\ UNCHANGED <<lease, papers, sched, lock, history>>
  BY Zenon DEF AskCancel
<1> HIDE DEF op
<1>3. JobTyped' /\ Only(j) /\ job'[j] = op /\ job[j].pc = "idle"
  BY <1>0, <1>1, <1>2, AskJob
<1>4. JobMeans(j)'  BY <1>1, <1>3 DEF JobMeans
<1>5. SchedTyped' /\ LockTyped' /\ KeepsTenants
  BY <1>0, <1>2 DEF SchedTyped, LockTyped, KeepsTenants
<1> QED  BY <1>1, <1>2, <1>3, <1>4, <1>5, QuietStep DEF history, HalfPcs

LEMMA AskEndKeeps ==
  ASSUME IInv, NEW j \in Jobs, NEW t \in Tenants, AskEnd(j, t)
  PROVE  IInv'
<1> DEFINE op == [Idle EXCEPT !.pc = "end", !.t = t]
<1>0. TypeOK /\ SchedTyped /\ LockTyped /\ JobTyped  BY TypeSplit DEF IInv
<1>1. op \in JobRecord /\ op.pc = "end"
  BY DEF Idle, JobRecord, Steps, Ways, Somebody
<1>2. Ask(j, op) /\ UNCHANGED <<lease, papers, sched, lock, history>>
  BY Zenon DEF AskEnd
<1> HIDE DEF op
<1>3. JobTyped' /\ Only(j) /\ job'[j] = op /\ job[j].pc = "idle"
  BY <1>0, <1>1, <1>2, AskJob
<1>4. JobMeans(j)'  BY <1>1, <1>3 DEF JobMeans
<1>5. SchedTyped' /\ LockTyped' /\ KeepsTenants
  BY <1>0, <1>2 DEF SchedTyped, LockTyped, KeepsTenants
<1> QED  BY <1>1, <1>2, <1>3, <1>4, <1>5, QuietStep DEF history, HalfPcs

LEMMA AskSyncKeeps ==
  ASSUME IInv, NEW j \in Jobs, AskSync(j)
  PROVE  IInv'
<1> DEFINE op == [Idle EXCEPT !.pc = "sync", !.copy = ByRents]
<1>0. TypeOK /\ SchedTyped /\ LockTyped /\ JobTyped  BY TypeSplit DEF IInv
<1>1. op \in JobRecord /\ op.pc = "sync" /\ op.copy \in {"vacant", "occupied"}
  <2>1. ByRents \in {"vacant", "occupied"}  BY Zenon DEF ByRents
  <2> QED  BY <2>1 DEF Idle, JobRecord, Steps, Ways, Somebody
<1>2. Ask(j, op) /\ UNCHANGED <<lease, papers, sched, lock, history>>
  BY Zenon DEF AskSync
<1> HIDE DEF op
<1>3. JobTyped' /\ Only(j) /\ job'[j] = op /\ job[j].pc = "idle"
  BY <1>0, <1>1, <1>2, AskJob
<1>4. JobMeans(j)'  BY <1>1, <1>3 DEF JobMeans
<1>5. SchedTyped' /\ LockTyped' /\ KeepsTenants
  BY <1>0, <1>2 DEF SchedTyped, LockTyped, KeepsTenants
<1> QED  BY <1>1, <1>2, <1>3, <1>4, <1>5, QuietStep DEF history, HalfPcs

-----------------------------------------------------------------------------
(* The schedules and the sweep.                                            *)
LEMMA SaveScheduleKeeps ==
  ASSUME IInv, NEW j \in Jobs, SaveSchedule(j)
  PROVE  IInv'
<1> DEFINE t == job[j].t
           s == job[j].s
<1>0. TypeOK /\ CountsTyped /\ SchedTyped /\ LockTyped /\ JobTyped  BY TypeSplit DEF IInv
<1>1. t \in Tenants /\ s \in Schedules \cup {NoSchedule}
      /\ (s # NoSchedule => sched[s].tenant = t)
  BY <1>0 DEF IInv, JobsMean, JobMeans, SaveSchedule, JobTyped, JobRecord
<1>2. JobTyped' /\ Only(j) /\ job'[j].pc = "idle"
  BY <1>0, FinishJob DEF SaveSchedule
<1>3. SchedTyped' /\ KeepsTenants
  <2>1. CASE s # NoSchedule
    <3>1. sched' = [sched EXCEPT ![s] = Rewritten(s, job[j].by)]
      BY <2>1, Zenon DEF SaveSchedule
    <3>2. /\ Rewritten(s, job[j].by) \in SchedRecord
          /\ Rewritten(s, job[j].by).tenant = sched[s].tenant
      <4>1. sched[s] \in SchedRecord /\ stints[sched[s].tenant] \in Nat
        BY <1>0, <1>1, <2>1 DEF SchedTyped, CountsTyped
      <4>2. /\ (sched[s].open \/ job[j].by = "lapse") \in BOOLEAN
            /\ (sched[s].cancelled /\ job[j].by # "lapse") \in BOOLEAN
        OBVIOUS
      <4> QED  BY <4>1, <4>2 DEF Rewritten, SchedRecord
    <3> QED  BY <1>0, <1>1, <3>1, <3>2 DEF SchedTyped, KeepsTenants
  <2>2. CASE s = NoSchedule
    <3>1. PICK new \in {n \in Schedules : sched[n].tenant = Nobody} :
            sched' = [sched EXCEPT ![new] = Inserted(t)]
      BY <2>2, Zenon DEF SaveSchedule
    <3>2. Inserted(t) \in SchedRecord /\ Inserted(t).tenant = t
      BY <1>0, <1>1 DEF Inserted, NoRow, SchedRecord, CountsTyped, Somebody
    <3> QED  BY <1>0, <1>1, <3>1, <3>2, NamesAssumption DEF SchedTyped, KeepsTenants
  <2> QED  BY <2>1, <2>2
<1>4. UNCHANGED <<lease, papers, lock, stints, endings, late>> /\ faults \subseteq faults'
  BY DEF SaveSchedule
<1>5. LockTyped' /\ JobMeans(j)'  BY <1>0, <1>2, <1>4 DEF LockTyped, JobMeans
<1> QED  BY <1>2, <1>3, <1>4, <1>5, QuietStep DEF SaveSchedule, HalfPcs

LEMMA CancelKeeps ==
  ASSUME IInv, NEW j \in Jobs, Cancel(j)
  PROVE  IInv'
<1>0. TypeOK /\ SchedTyped /\ LockTyped /\ JobTyped  BY TypeSplit DEF IInv
<1>1. SchedTyped' /\ KeepsTenants
  BY <1>0 DEF Cancel, SchedTyped, SchedRecord, KeepsTenants
<1>2. JobTyped' /\ Only(j) /\ job'[j].pc = "idle"
  BY <1>0, FinishJob DEF Cancel
<1>3. LockTyped' /\ JobMeans(j)'  BY <1>0, <1>2 DEF LockTyped, JobMeans, Cancel
<1> QED  BY <1>1, <1>2, <1>3, QuietStep DEF Cancel, HalfPcs, history

LEMMA DatePassesKeeps ==
  ASSUME IInv, NEW s \in Schedules, DatePasses(s)
  PROVE  IInv'
<1>0. TypeOK /\ SchedTyped  BY TypeSplit DEF IInv
<1>1. SchedTyped' /\ KeepsTenants
  BY <1>0 DEF DatePasses, SchedTyped, SchedRecord, KeepsTenants
<1>2. UNCHANGED <<lease, papers, lock, job, stints, endings, late, faults>>
  BY DEF DatePasses, history
<1>3. TypeOK'
  <2>1. /\ LeaseTyped' /\ PapersTyped' /\ CountsTyped' /\ LockTyped' /\ JobTyped'
    BY <1>0, <1>2, TypeSplit, Zenon DEF LeaseTyped, PapersTyped, CountsTyped, LockTyped, JobTyped,
       lease, papers
  <2> QED  BY <1>1, <2>1, TypeSplitNext, Zenon
<1>4. JobsMean'
  <2> SUFFICES ASSUME NEW j \in Jobs PROVE JobMeans(j)'  BY DEF JobsMean
  <2>1. JobMeans(j) /\ job[j].s \in Schedules \cup {NoSchedule}
    BY <1>0, TypeSplit DEF IInv, JobsMean, JobTyped, JobRecord
  <2> QED  BY <1>1, <1>2, <2>1 DEF JobMeans, KeepsTenants
<1>5. Counted'  BY <1>2 DEF IInv, Counted, lease
<1>6. LeaseOK'
  <2>1. HalfJobs' = HalfJobs  BY <1>2, Zenon DEF HalfJobs
  <2> QED  BY <1>2, <2>1, LeaseStays DEF IInv
<1>7. PapersOK'  BY <1>2 DEF IInv, PapersOK, lease, papers
<1> QED  BY <1>3, <1>4, <1>5, <1>6, <1>7 DEF IInv

LEMMA StartSweepKeeps ==
  ASSUME IInv, NEW j \in Jobs, StartSweep(j)
  PROVE  IInv'
<1> DEFINE op == [Idle EXCEPT !.pc = "pick", !.todo = Due]
<1>0. TypeOK /\ SchedTyped /\ LockTyped /\ JobTyped  BY TypeSplit DEF IInv
<1>1. op \in JobRecord /\ op.pc = "pick"
  <2>1. Due \subseteq Schedules  BY DEF Due
  <2> HIDE DEF Due
  <2> QED  BY <2>1 DEF Idle, JobRecord, Steps, Ways, Somebody
<1>2. /\ job' = [job EXCEPT ![j] = op] /\ job[j] = Idle
      /\ UNCHANGED <<lease, papers, sched, lock, history>>
  BY Zenon DEF StartSweep
<1> HIDE DEF op
<1>3. JobTyped' /\ Only(j) /\ job'[j] = op  BY <1>0, <1>1, <1>2 DEF JobTyped, Only
<1>4. JobMeans(j)'  BY <1>1, <1>3 DEF JobMeans
<1>5. SchedTyped' /\ LockTyped' /\ KeepsTenants
  BY <1>0, <1>2 DEF SchedTyped, LockTyped, KeepsTenants
<1> QED  BY <1>1, <1>2, <1>3, <1>4, <1>5, IdleTyped, QuietStep DEF history, HalfPcs

LEMMA PickDueKeeps ==
  ASSUME IInv, NEW j \in Jobs, PickDue(j)
  PROVE  IInv'
<1>0. TypeOK /\ SchedTyped /\ LockTyped /\ JobTyped  BY TypeSplit DEF IInv
<1>1. PICK s \in job[j].todo :
        job' = [job EXCEPT ![j].pc = "end", ![j].s = s, ![j].t = sched[s].tenant,
                           ![j].todo = @ \ {s}]
  BY Zenon DEF PickDue
<1>2. s \in Schedules /\ sched[s].tenant \in Somebody /\ job[j].todo \ {s} \in SUBSET Schedules
  BY <1>0, <1>1 DEF JobTyped, JobRecord, SchedTyped, SchedRecord
<1>3. JobTyped' /\ Only(j) /\ job'[j].pc = "end"
  <2> DEFINE op == [job[j] EXCEPT !.pc = "end", !.s = s, !.t = sched[s].tenant, !.todo = @ \ {s}]
  <2>1. op \in JobRecord /\ op.pc = "end"
    BY <1>0, <1>2 DEF JobTyped, JobRecord, Steps
  <2>2. job' = [job EXCEPT ![j] = op]  BY <1>0, <1>1 DEF JobTyped, JobRecord
  <2> HIDE DEF op
  <2> QED  BY <1>0, <2>1, <2>2 DEF JobTyped, Only
<1>4. UNCHANGED <<lease, papers, sched, lock, history>> /\ job[j].pc = "pick"
  BY DEF PickDue
<1>5. SchedTyped' /\ LockTyped' /\ KeepsTenants /\ JobMeans(j)'
  BY <1>0, <1>3, <1>4 DEF SchedTyped, LockTyped, KeepsTenants, JobMeans
<1> QED  BY <1>3, <1>4, <1>5, QuietStep DEF history, HalfPcs

LEMMA SkipDueKeeps ==
  ASSUME IInv, NEW j \in Jobs, SkipDue(j)
  PROVE  IInv' /\ Only(j) /\ job'[j].pc = "pick"
<1>0. TypeOK /\ SchedTyped /\ LockTyped /\ JobTyped  BY TypeSplit DEF IInv
<1>1. PICK s \in job[j].todo : job' = [job EXCEPT ![j].todo = @ \ {s}]
  BY Zenon DEF SkipDue
<1>2. UNCHANGED <<lease, papers, sched, lock, history>> /\ job[j].pc = "pick"
  BY DEF SkipDue
<1>3. JobTyped' /\ Only(j) /\ job'[j].pc = "pick"
  BY <1>0, <1>1, <1>2 DEF JobTyped, JobRecord, Only
<1>4. SchedTyped' /\ LockTyped' /\ KeepsTenants /\ JobMeans(j)'
  BY <1>0, <1>2, <1>3 DEF SchedTyped, LockTyped, KeepsTenants, JobMeans
<1> QED  BY <1>2, <1>3, <1>4, QuietStep DEF history, HalfPcs

LEMMA SweepDoneKeeps ==
  ASSUME IInv, NEW j \in Jobs, SweepDone(j)
  PROVE  IInv'
<1>0. TypeOK /\ SchedTyped /\ LockTyped /\ JobTyped  BY TypeSplit DEF IInv
<1>1. JobTyped' /\ Only(j) /\ job'[j].pc = "idle"
  BY <1>0, FinishJob DEF SweepDone
<1>2. UNCHANGED <<lease, papers, sched, lock, history>> /\ job[j].pc = "pick"
  BY DEF SweepDone
<1>3. SchedTyped' /\ LockTyped' /\ KeepsTenants /\ JobMeans(j)'
  BY <1>0, <1>1, <1>2 DEF SchedTyped, LockTyped, KeepsTenants, JobMeans
<1> QED  BY <1>1, <1>2, <1>3, QuietStep DEF history, HalfPcs

LEMMA LockRowKeeps ==
  ASSUME IInv, NEW j \in Jobs, LockRow(j)
  PROVE  IInv'
<1>0. TypeOK /\ SchedTyped /\ LockTyped /\ JobTyped  BY TypeSplit DEF IInv
<1>1. UNCHANGED <<lease, papers, sched, history>> /\ job[j].pc = "end"
  BY DEF LockRow
<1>2. JobTyped' /\ Only(j) /\ job'[j].pc \in {"locked", "idle", "pick"}
  <2>1. CASE ActiveRow(job[j].t)  BY <1>0, <2>1, ToJob DEF LockRow, Steps
  <2>2. CASE ~ActiveRow(job[j].t)  BY <1>0, <2>2, GiveUpJob DEF LockRow
  <2> QED  BY <2>1, <2>2
<1>3. LockTyped'  BY <1>0 DEF LockTyped, LockRow
<1>4. SchedTyped' /\ KeepsTenants /\ JobMeans(j)'
  BY <1>0, <1>1, <1>2 DEF SchedTyped, KeepsTenants, JobMeans
<1> QED  BY <1>1, <1>2, <1>3, <1>4, QuietStep DEF history, HalfPcs

LEMMA RollBackKeeps ==
  ASSUME IInv, NEW j \in Jobs, RollBack(j)
  PROVE  IInv'
<1>0. TypeOK /\ SchedTyped /\ LockTyped /\ JobTyped  BY TypeSplit DEF IInv
<1>1. UNCHANGED <<lease, papers, sched, history>> /\ job[j].pc = "locked"
  BY DEF RollBack
<1>2. JobTyped' /\ Only(j) /\ job'[j].pc \in {"idle", "pick"}
  BY <1>0, GiveUpJob DEF RollBack
<1>3. LockTyped'  BY <1>0 DEF LockTyped, RollBack
<1>4. SchedTyped' /\ KeepsTenants /\ JobMeans(j)'
  BY <1>0, <1>1, <1>2 DEF SchedTyped, KeepsTenants, JobMeans
<1> QED  BY <1>1, <1>2, <1>3, <1>4, QuietStep DEF history, HalfPcs

LEMMA MarkProcessedKeeps ==
  ASSUME IInv, NEW j \in Jobs, MarkProcessed(j)
  PROVE  IInv'
<1>0. TypeOK /\ SchedTyped /\ LockTyped /\ JobTyped  BY TypeSplit DEF IInv
<1>1. SchedTyped' /\ KeepsTenants
  BY <1>0 DEF MarkProcessed, SchedTyped, SchedRecord, KeepsTenants
<1>2. JobTyped' /\ Only(j) /\ job'[j].pc = "pick"
  BY <1>0, ToJob DEF MarkProcessed, Steps
<1>3. LockTyped' /\ JobMeans(j)'  BY <1>0, <1>2 DEF LockTyped, JobMeans, MarkProcessed
<1> QED  BY <1>1, <1>2, <1>3, QuietStep DEF MarkProcessed, HalfPcs, history

-----------------------------------------------------------------------------
(* The applications.                                                       *)
LEMMA ApproveKeeps ==
  ASSUME IInv, NEW j \in Jobs, Approve(j)
  PROVE  IInv'
<1>0. TypeOK /\ PapersTyped /\ JobTyped  BY TypeSplit DEF IInv
<1>1. /\ UNCHANGED <<lease, filed, sched, lock, stints, endings, late, faults>>
      /\ job[j].pc = "approve"
  BY DEF Approve, history
<1>2. JobTyped' /\ Only(j) /\ job'[j].pc = "idle"
  BY <1>0, FinishJob DEF Approve
<1>3. app' \in [Tenants -> {"none", "pending", "approved", "rejected"}]
      /\ \A u \in Tenants : app'[u] = "pending" => app[u] = "pending"
  BY <1>0 DEF Approve, PapersTyped
<1>4. TypeOK'
  <2>1. PapersTyped'  BY <1>0, <1>1, <1>3 DEF PapersTyped
  <2>2. LeaseTyped' /\ CountsTyped' /\ SchedTyped' /\ LockTyped'
    BY <1>0, <1>1, TypeSplit, Zenon DEF LeaseTyped, CountsTyped, SchedTyped, LockTyped, lease
  <2> QED  BY <1>2, <2>1, <2>2, TypeSplitNext, Zenon
<1>5. JobsMean'
  <2>1. KeepsTenants /\ JobMeans(j)'  BY <1>1, <1>2 DEF KeepsTenants, JobMeans
  <2> QED  BY <1>0, <1>2, <2>1, MeansStay DEF IInv
<1>6. Counted'  BY <1>1 DEF IInv, Counted, lease
<1>7. LeaseOK'  BY <1>1, <1>2, SameHalves, LeaseStays DEF IInv, HalfPcs
<1>8. PapersOK'  BY <1>1, <1>3 DEF IInv, PapersOK, lease
<1> QED  BY <1>4, <1>5, <1>6, <1>7, <1>8 DEF IInv

LEMMA SubmitKeeps ==
  ASSUME IInv, NEW j \in Jobs, Submit(j)
  PROVE  IInv'
<1> DEFINE t == job[j].t
<1>0. TypeOK /\ LeaseTyped /\ PapersTyped /\ JobTyped  BY TypeSplit DEF IInv
<1>1. /\ UNCHANGED <<lease, sched, lock, stints, endings, faults>>
      /\ job[j].pc = "submit"
  BY DEF Submit
<1>2. JobTyped' /\ Only(j) /\ job'[j].pc = "idle"
  BY <1>0, FinishJob DEF Submit
<1>3. t \in Tenants  BY <1>1 DEF IInv, JobsMean, JobMeans
<1>4. PapersTyped' /\ (PapersOK => PapersOK')
  <2>1. CASE UNCHANGED <<papers, late>>
    BY <1>0, <1>1, <2>1 DEF PapersTyped, PapersOK, papers, lease
  <2>2. CASE /\ filed' = [filed EXCEPT ![t] = @ + 1]
             /\ app' = [app EXCEPT ![t] = "pending"]
             /\ late' = IF status = "vacant" THEN late \ {t} ELSE late \cup {t}
    <3>1. PapersTyped'  BY <1>0, <1>3, <2>2 DEF PapersTyped
    <3>2. ASSUME PapersOK PROVE PapersOK'
      <4> SUFFICES ASSUME faults = {}, NEW u \in Tenants, status = "occupied", app'[u] = "pending"
                   PROVE  u \in late'
        BY <1>1 DEF PapersOK, lease
      <4>1. late' = late \cup {t}  BY <2>2
      <4>2. u # t => app[u] = "pending"  BY <1>0, <1>3, <2>2 DEF PapersTyped
      <4> QED  BY <3>2, <4>1, <4>2 DEF PapersOK
    <3> QED  BY <3>1, <3>2
  <2> QED  BY <2>1, <2>2 DEF Submit
<1>5. TypeOK'
  <2>2. LeaseTyped' /\ CountsTyped' /\ SchedTyped' /\ LockTyped'
    BY <1>0, <1>1, TypeSplit, Zenon DEF LeaseTyped, CountsTyped, SchedTyped, LockTyped, lease
  <2> QED  BY <1>2, <1>4, <2>2, TypeSplitNext, Zenon
<1>6. JobsMean'
  <2>1. KeepsTenants /\ JobMeans(j)'  BY <1>1, <1>2 DEF KeepsTenants, JobMeans
  <2> QED  BY <1>0, <1>2, <2>1, MeansStay DEF IInv
<1>7. Counted'  BY <1>1 DEF IInv, Counted, lease
<1>8. LeaseOK'  BY <1>1, <1>2, SameHalves, LeaseStays DEF IInv, HalfPcs
<1> QED  BY <1>4, <1>5, <1>6, <1>7, <1>8 DEF IInv

-----------------------------------------------------------------------------
(* Tenancies begin.                                                        *)
LEMMA ReactivatedTyped ==
  ASSUME LeaseTyped, NEW t \in Tenants
  PROVE  /\ Reactivated(t) \in [live : Nat, ended : Nat]
         /\ Reactivated(t).live <= row[t].live + 1
         /\ row[t].live = 0 => Reactivated(t).live = 1
<1>1. row[t] \in [live : Nat, ended : Nat]  BY DEF LeaseTyped
<1>2. CASE row[t].ended > 0  BY <1>1, <1>2 DEF Reactivated
<1>3. CASE ~(row[t].ended > 0) /\ LivesIn(t)  BY <1>1, <1>3 DEF Reactivated, LivesIn
<1>4. CASE ~(row[t].ended > 0) /\ ~LivesIn(t)
  <2>1. Reactivated(t) = [row[t] EXCEPT !.live = 1] /\ row[t].live = 0
    BY <1>1, <1>4 DEF Reactivated, LivesIn
  <2> QED  BY <1>1, <2>1
<1> QED  BY <1>2, <1>3, <1>4

LEMMA BegunTyped ==
  ASSUME LeaseTyped, NEW t \in Tenants, NEW copy
  PROVE  /\ Begun(t, copy) \in [live : Nat, ended : Nat]
         /\ Begun(t, copy).live <= row[t].live + 1
         /\ row[t].live = 0 => Begun(t, copy).live = 1
<1>1. row[t] \in [live : Nat, ended : Nat]  BY DEF LeaseTyped
<1>2. CASE copy = "old row"  BY <1>2, ReactivatedTyped DEF Begun
<1>3. CASE copy # "old row"
  <2>1. Begun(t, copy) = [row[t] EXCEPT !.live = @ + 1]  BY <1>3 DEF Begun
  <2>2. [row[t] EXCEPT !.live = @ + 1] \in [live : Nat, ended : Nat]
        /\ [row[t] EXCEPT !.live = @ + 1].live = row[t].live + 1
    BY <1>1
  <2> QED  BY <1>1, <2>1, <2>2
<1> QED  BY <1>2, <1>3

(* A tenancy written where nobody lives.                                   *)
LEMMA FirstHousehold ==
  ASSUME LeaseTyped, Consistent, Residents = {}, NEW t \in Tenants, NEW r,
         row' = [row EXCEPT ![t] = r], r.live = 1,
         \/ rent' = rent
         \/ rent' = [rent EXCEPT ![t] = @ + 1],
         status' = "occupied"
  PROVE  Consistent'
<1>1. \A u \in Tenants : row[u].live = 0 /\ rent[u] = 0
  BY DEF Residents, LivesIn, LeaseTyped, Consistent
<1>2. row'[t].live = 1 /\ \A u \in Tenants : u # t => row'[u].live = 0
  BY <1>1 DEF LeaseTyped
<1>3. rent'[t] <= 1 /\ \A u \in Tenants : u # t => rent'[u] = 0
  BY <1>1 DEF LeaseTyped
<1>4. \A u, v \in Tenants : row'[u].live > 0 /\ row'[v].live > 0 => u = v  BY <1>2
<1>5. \A u \in Tenants : row'[u].live <= 1 /\ rent'[u] <= row'[u].live  BY <1>2, <1>3
<1>6. status' = "occupied" <=> \E u \in Tenants : row'[u].live > 0  BY <1>2
<1> QED  BY <1>4, <1>5, <1>6 DEF Consistent

(* What each check and the absence of faults say together.                 *)
LEMMA NobodyLivesHere ==
  ASSUME LeaseTyped, Consistent, NEW t \in Tenants,
         NEW by \in {"add", "kyc", "attach", "move_in"}, Overlet(by, t) = {}
  PROVE  Residents = {}
<1>1. Free(by, t)  BY DEF Overlet
<1>2. CASE by \in {"add", "kyc"}
  <2>1. ~Let /\ Rentless = {}  BY <1>1, <1>2 DEF Free, Overlet
  <2> QED  BY <2>1 DEF Let, Rentless, Residents, LivesIn, LeaseTyped
<1>3. CASE by = "attach"
  <2>1. status = "vacant"  BY <1>1, <1>3 DEF Free
  <2> QED  BY <2>1 DEF Consistent, Residents, LivesIn
<1>4. CASE by = "move_in"
  <2>1. ~LivesIn(t) /\ Residents \ {t} = {}  BY <1>4 DEF Overlet
  <2> QED  BY <2>1 DEF Residents
<1> QED  BY <1>2, <1>3, <1>4

LEMMA BeginKeeps ==
  ASSUME IInv, NEW j \in Jobs, Begin(j)
  PROVE  IInv'
<1> DEFINE t == job[j].t
           by == job[j].by
           spared == IF by = "kyc" /\ filed[t] = job[j].n THEN t ELSE Nobody
           r == Begun(t, job[j].copy)
<1>0. /\ TypeOK /\ LeaseTyped /\ PapersTyped /\ CountsTyped
      /\ SchedTyped /\ LockTyped /\ JobTyped /\ LeaseOK /\ Counted /\ PapersOK /\ JobsMean
  BY TypeSplit DEF IInv
<1>1. /\ job[j].pc = "begin"
      /\ row' = [row EXCEPT ![t] = r]
      /\ rent' = [rent EXCEPT ![t] = IF by = "move_in" THEN @ ELSE @ + 1]
      /\ status' = "occupied"
      /\ stints' = [stints EXCEPT ![t] = @ + 1]
      /\ Blame(Overlet(by, t))
      /\ IF by = "kyc" THEN To(j, "approve") ELSE Finish(j)
      /\ UNCHANGED <<filed, sched, lock, endings, left, calls, crashes>>
  BY Zenon DEF Begin
<1>2. IF by = "add" THEN late' = late \cup {u \in Tenants : app[u] = "pending"} /\ UNCHANGED app
      ELSE RejectOthers(spared) /\ late' = late \cup ({spared} \cap Tenants)
  BY Zenon DEF Begin
<1>3. t \in Tenants /\ by \in {"add", "kyc", "attach", "move_in"}
  BY <1>0, <1>1 DEF JobsMean, JobMeans
<1>4. /\ r \in [live : Nat, ended : Nat] /\ r.live <= row[t].live + 1
      /\ row[t].live = 0 => r.live = 1
  BY <1>0, <1>3, BegunTyped
<1>5. JobTyped' /\ Only(j) /\ job'[j].pc \in {"idle", "approve"}
  <2>1. CASE by = "kyc"  BY <1>0, <1>1, <2>1, ToJob DEF Steps
  <2>2. CASE by # "kyc"  BY <1>0, <1>1, <2>2, FinishJob
  <2> QED  BY <2>1, <2>2
<1> HIDE DEF t, by, r
<1>6. LeaseTyped' /\ CountsTyped'
  BY <1>0, <1>1, <1>3, <1>4 DEF LeaseTyped, CountsTyped
<1>7. PapersTyped' /\ \A u \in Tenants : app'[u] = "pending" => u \in late'
  <2>1. CASE by = "add"  BY <1>0, <1>1, <1>2, <2>1 DEF PapersTyped
  <2>2. CASE by # "add"
    BY <1>0, <1>1, <1>2, <2>2 DEF PapersTyped, RejectOthers
  <2> QED  BY <2>1, <2>2
<1>8. TypeOK'
  <2>1. SchedTyped' /\ LockTyped'  BY <1>0, <1>1, Zenon DEF SchedTyped, LockTyped
  <2> QED  BY <1>5, <1>6, <1>7, <2>1, TypeSplitNext, Zenon
<1>9. JobsMean'
  <2>1. KeepsTenants /\ JobMeans(j)'  BY <1>1, <1>5 DEF KeepsTenants, JobMeans
  <2> QED  BY <1>0, <1>5, <2>1, MeansStay
<1>10. Counted'
  <2> SUFFICES ASSUME NEW u \in Tenants PROVE endings'[u] + row'[u].live <= stints'[u]
    BY DEF Counted
  <2>1. /\ endings[u] + row[u].live <= stints[u]
        /\ endings[u] \in Nat /\ stints[u] \in Nat /\ row[u].live \in Nat
    BY <1>0 DEF Counted, LeaseTyped, CountsTyped
  <2>2. CASE u = t
    <3>1. row'[u] = r /\ stints'[u] = stints[u] + 1 /\ endings'[u] = endings[u]
      BY <1>0, <1>1, <1>3, <2>2 DEF LeaseTyped, CountsTyped
    <3> QED  BY <1>4, <2>1, <2>2, <3>1
  <2>3. CASE u # t
    <3>1. row'[u] = row[u] /\ stints'[u] = stints[u] /\ endings'[u] = endings[u]
      BY <1>0, <1>1, <1>3, <2>3 DEF LeaseTyped, CountsTyped
    <3> QED  BY <2>1, <3>1
  <2> QED  BY <2>2, <2>3
<1>11. LeaseOK'
  <2> SUFFICES ASSUME faults' = {} PROVE HalfJobs' = {} /\ Consistent'
    BY DEF LeaseOK
  <2>1. HalfJobs = {} /\ Consistent /\ Overlet(by, t) = {}
    BY <1>0, <1>1, Blameless
  <2>2. HalfJobs' = {}  BY <1>1, <1>5, <2>1, SameHalves DEF HalfPcs
  <2>3. Residents = {}  BY <1>0, <1>3, <2>1, NobodyLivesHere
  <2>4. r.live = 1
    BY <1>0, <1>3, <1>4, <2>3 DEF Residents, LivesIn, LeaseTyped
  <2>5. rent' = rent \/ rent' = [rent EXCEPT ![t] = @ + 1]
    BY <1>0, <1>1, <1>3 DEF LeaseTyped
  <2>6. Consistent'  BY <1>0, <1>1, <1>3, <2>1, <2>3, <2>4, <2>5, FirstHousehold
  <2> QED  BY <2>2, <2>6
<1>12. PapersOK'  BY <1>7 DEF PapersOK
<1> QED  BY <1>8, <1>9, <1>10, <1>11, <1>12 DEF IInv

LEMMA AttachFromOfferKeeps ==
  ASSUME IInv, NEW t \in Tenants, AttachFromOffer(t)
  PROVE  IInv'
<1> DEFINE r == Reactivated(t)
<1>0. /\ TypeOK /\ LeaseTyped /\ PapersTyped /\ CountsTyped
      /\ SchedTyped /\ LockTyped /\ JobTyped /\ LeaseOK /\ Counted /\ JobsMean
  BY TypeSplit DEF IInv
<1>1. /\ status # "occupied"
      /\ row' = [row EXCEPT ![t] = r]
      /\ rent' = [rent EXCEPT ![t] = @ + 1]
      /\ status' = "occupied"
      /\ app' = [u \in Tenants |-> IF u = t THEN "approved"
                                   ELSE IF app[u] = "pending" THEN "rejected" ELSE app[u]]
      /\ stints' = [stints EXCEPT ![t] = @ + 1]
      /\ Blame({})
      /\ UNCHANGED <<filed, sched, lock, job, endings, late>>
  BY Zenon DEF AttachFromOffer
<1>2. /\ r \in [live : Nat, ended : Nat] /\ r.live <= row[t].live + 1
      /\ row[t].live = 0 => r.live = 1
  BY <1>0, ReactivatedTyped
<1> HIDE DEF r
<1>3. LeaseTyped' /\ CountsTyped' /\ PapersTyped'
  BY <1>0, <1>1, <1>2 DEF LeaseTyped, CountsTyped, PapersTyped
<1>4. TypeOK'
  <2>1. SchedTyped' /\ LockTyped' /\ JobTyped'
    BY <1>0, <1>1, Zenon DEF SchedTyped, LockTyped, JobTyped
  <2> QED  BY <1>3, <2>1, TypeSplitNext, Zenon
<1>5. JobsMean'  BY <1>0, <1>1 DEF JobsMean, JobMeans
<1>6. Counted'
  <2> SUFFICES ASSUME NEW u \in Tenants PROVE endings'[u] + row'[u].live <= stints'[u]
    BY DEF Counted
  <2>1. /\ endings[u] + row[u].live <= stints[u]
        /\ endings[u] \in Nat /\ stints[u] \in Nat /\ row[u].live \in Nat
    BY <1>0 DEF Counted, LeaseTyped, CountsTyped
  <2>2. CASE u = t
    <3>1. row'[u] = r /\ stints'[u] = stints[u] + 1 /\ endings'[u] = endings[u]
      BY <1>0, <1>1, <2>2 DEF LeaseTyped, CountsTyped
    <3> QED  BY <1>2, <2>1, <2>2, <3>1
  <2>3. CASE u # t
    <3>1. row'[u] = row[u] /\ stints'[u] = stints[u] /\ endings'[u] = endings[u]
      BY <1>0, <1>1, <2>3 DEF LeaseTyped, CountsTyped
    <3> QED  BY <2>1, <3>1
  <2> QED  BY <2>2, <2>3
<1>7. LeaseOK'
  <2> SUFFICES ASSUME faults' = {} PROVE HalfJobs' = {} /\ Consistent'
    BY DEF LeaseOK
  <2>1. HalfJobs = {} /\ Consistent  BY <1>0, <1>1, Blameless
  <2>2. HalfJobs' = {}  BY <1>1, <2>1, Zenon DEF HalfJobs
  <2>3. Residents = {}  BY <1>1, <2>1 DEF Consistent, Residents, LivesIn
  <2>4. r.live = 1  BY <1>0, <1>2, <2>3 DEF Residents, LivesIn, LeaseTyped
  <2>5. Consistent'  BY <1>0, <1>1, <2>1, <2>3, <2>4, FirstHousehold
  <2> QED  BY <2>2, <2>5
<1>8. PapersOK'  BY <1>0, <1>1 DEF PapersOK, PapersTyped
<1> QED  BY <1>4, <1>5, <1>6, <1>7, <1>8 DEF IInv

-----------------------------------------------------------------------------
(* Tenancies end.                                                          *)
LEMMA RowsEnded ==
  ASSUME LeaseTyped, NEW t, EndRows(t)
  PROVE  /\ row' \in [Tenants -> [live : Nat, ended : Nat]]
         /\ t \in Tenants => row'[t].live = 0
         /\ \A u \in Tenants : u # t => row'[u] = row[u]
<1>1. CASE t \in Tenants
  <2> DEFINE r == [live |-> 0, ended |-> row[t].ended + row[t].live]
  <2>1. r \in [live : Nat, ended : Nat] /\ r.live = 0  BY <1>1 DEF LeaseTyped
  <2>2. row' = [row EXCEPT ![t] = r]  BY <1>1 DEF EndRows, LeaseTyped
  <2> HIDE DEF r
  <2> QED  BY <1>1, <2>1, <2>2 DEF LeaseTyped
<1>2. CASE t \notin Tenants  BY <1>2 DEF EndRows, LeaseTyped
<1> QED  BY <1>1, <1>2

(* No tenancy is left, no rent, and the property is vacant.                *)
LEMMA NobodyLeft ==
  ASSUME \A u \in Tenants : row'[u].live = 0 /\ rent'[u] = 0, status' = "vacant"
  PROVE  Consistent'
  BY DEF Consistent

LEMMA EndTenancyKeeps ==
  ASSUME IInv, NEW j \in Jobs, EndTenancy(j)
  PROVE  IInv'
<1> DEFINE t == job[j].t
<1>0. /\ TypeOK /\ LeaseTyped /\ PapersTyped /\ CountsTyped
      /\ SchedTyped /\ LockTyped /\ JobTyped /\ LeaseOK /\ Counted /\ JobsMean
  BY TypeSplit DEF IInv
<1>1. /\ job[j].pc = "locked" /\ t \in Tenants /\ row[t].live > 0
      /\ rent' = [rent EXCEPT ![t] = 0]
      /\ EndRows(t) /\ CloseSchedules(t)
      /\ status' = "vacant"
      /\ endings' = [endings EXCEPT ![t] = @ + 1]
      /\ lock' = [lock EXCEPT ![t] = Nobody]
      /\ Blame({})
      /\ UNCHANGED <<papers, stints, late>>
  BY DEF EndTenancy, ActiveRow, LivesIn
<1>2. JobTyped' /\ Only(j) /\ job'[j].pc \in {"idle", "mark"}
  <2>1. CASE j \in Crons  BY <1>0, <2>1, ToJob DEF EndTenancy, Steps
  <2>2. CASE j \notin Crons  BY <1>0, <2>2, FinishJob DEF EndTenancy
  <2> QED  BY <2>1, <2>2
<1> HIDE DEF t
<1>3. /\ row' \in [Tenants -> [live : Nat, ended : Nat]]
      /\ row'[t].live = 0 /\ \A u \in Tenants : u # t => row'[u] = row[u]
  BY <1>0, <1>1, RowsEnded
<1>4. LeaseTyped' /\ CountsTyped' /\ PapersTyped' /\ LockTyped'
  <2>1. LeaseTyped'  BY <1>0, <1>1, <1>3 DEF LeaseTyped
  <2>2. CountsTyped'  BY <1>0, <1>1 DEF CountsTyped
  <2>3. PapersTyped'  BY <1>0, <1>1 DEF PapersTyped, papers
  <2>4. LockTyped'  BY <1>0, <1>1 DEF LockTyped
  <2> QED  BY <2>1, <2>2, <2>3, <2>4
<1>5. SchedTyped' /\ KeepsTenants
  BY <1>0, <1>1 DEF SchedTyped, SchedRecord, KeepsTenants, CloseSchedules
<1>6. TypeOK'  BY <1>2, <1>4, <1>5, TypeSplitNext, Zenon
<1>7. JobsMean'
  <2>1. JobMeans(j)'  BY <1>2 DEF JobMeans
  <2> QED  BY <1>0, <1>2, <1>5, <2>1, MeansStay
<1>8. Counted'
  <2> SUFFICES ASSUME NEW u \in Tenants PROVE endings'[u] + row'[u].live <= stints'[u]
    BY DEF Counted
  <2>1. /\ endings[u] + row[u].live <= stints[u]
        /\ endings[u] \in Nat /\ stints[u] \in Nat /\ row[u].live \in Nat
    BY <1>0 DEF Counted, LeaseTyped, CountsTyped
  <2>2. CASE u = t
    <3>1. endings'[u] = endings[u] + 1 /\ stints'[u] = stints[u] /\ row'[u].live = 0
      BY <1>0, <1>1, <1>3, <2>2 DEF CountsTyped
    <3> QED  BY <1>1, <2>1, <2>2, <3>1
  <2>3. CASE u # t
    <3>1. endings'[u] = endings[u] /\ stints'[u] = stints[u] /\ row'[u] = row[u]
      BY <1>0, <1>1, <1>3, <2>3 DEF CountsTyped
    <3> QED  BY <2>1, <3>1
  <2> QED  BY <2>2, <2>3
<1>9. LeaseOK'
  <2> SUFFICES ASSUME faults' = {} PROVE HalfJobs' = {} /\ Consistent'
    BY DEF LeaseOK
  <2>1. HalfJobs = {} /\ Consistent  BY <1>0, <1>1, Blameless
  <2>2. HalfJobs' = {}  BY <1>1, <1>2, <2>1, SameHalves DEF HalfPcs
  <2>3. \A u \in Tenants : row'[u].live = 0 /\ rent'[u] = 0
    <3> SUFFICES ASSUME NEW u \in Tenants PROVE row'[u].live = 0 /\ rent'[u] = 0
      OBVIOUS
    <3>1. CASE u = t  BY <1>0, <1>1, <1>3, <3>1 DEF LeaseTyped
    <3>2. CASE u # t
      <4>1. row[u].live = 0 /\ rent[u] = 0
        BY <1>0, <1>1, <2>1, <3>2 DEF Consistent, LeaseTyped
      <4> QED  BY <1>0, <1>1, <1>3, <3>2, <4>1 DEF LeaseTyped
    <3> QED  BY <3>1, <3>2
  <2> QED  BY <1>1, <2>2, <2>3, NobodyLeft
<1>10. PapersOK'  BY <1>1 DEF PapersOK
<1> QED  BY <1>6, <1>7, <1>8, <1>9, <1>10 DEF IInv

LEMMA AskDeactivateKeeps ==
  ASSUME IInv, NEW j \in Jobs, NEW t \in Tenants, AskDeactivate(j, t)
  PROVE  IInv'
<1> DEFINE op == [Idle EXCEPT !.pc = "end_row", !.t = t]
<1>0. /\ TypeOK /\ LeaseTyped /\ PapersTyped /\ CountsTyped
      /\ SchedTyped /\ LockTyped /\ JobTyped /\ LeaseOK /\ Counted /\ JobsMean
  BY TypeSplit DEF IInv
<1>1. op \in JobRecord /\ op.pc = "end_row" /\ op.t = t
  BY DEF Idle, JobRecord, Steps, Ways, Somebody
<1>2. /\ rent[t] > 0 /\ Ask(j, op) /\ status' = "vacant" /\ Blame({})
      /\ UNCHANGED <<row, rent, papers, sched, lock, stints, endings, late>>
  BY Zenon DEF AskDeactivate
<1> HIDE DEF op
<1>3. JobTyped' /\ Only(j) /\ job'[j] = op /\ job[j].pc = "idle"
  BY <1>0, <1>1, <1>2, AskJob
<1>4. TypeOK'
  <2>1. /\ LeaseTyped' /\ PapersTyped' /\ CountsTyped' /\ SchedTyped' /\ LockTyped'
    BY <1>0, <1>2 DEF LeaseTyped, PapersTyped, CountsTyped, SchedTyped, LockTyped, papers
  <2> QED  BY <1>3, <2>1, TypeSplitNext, Zenon
<1>5. JobsMean'
  <2>1. KeepsTenants /\ JobMeans(j)'  BY <1>1, <1>2, <1>3 DEF KeepsTenants, JobMeans
  <2> QED  BY <1>0, <1>3, <2>1, MeansStay
<1>6. Counted'  BY <1>0, <1>2 DEF Counted
<1>7. LeaseOK'
  <2> SUFFICES ASSUME faults' = {} PROVE HalfJobs' = {j} /\ HalfWay(j)'
    BY DEF LeaseOK
  <2>1. HalfJobs = {} /\ Consistent  BY <1>0, <1>2, Blameless
  <2>2. HalfJobs' = {j}
    BY <1>1, <1>3, <2>1 DEF HalfJobs, HalfPcs, Only
  <2>3. \A u \in Tenants \ {t} : row'[u].live = 0 /\ rent'[u] = 0
    BY <1>0, <1>2, <2>1 DEF Consistent, LeaseTyped
  <2> QED  BY <1>1, <1>2, <1>3, <2>2, <2>3 DEF HalfWay
<1>8. PapersOK'  BY <1>2 DEF PapersOK
<1> QED  BY <1>4, <1>5, <1>6, <1>7, <1>8 DEF IInv

LEMMA DeactivateRowKeeps ==
  ASSUME IInv, NEW j \in Jobs, DeactivateRow(j)
  PROVE  IInv'
<1> DEFINE t == job[j].t
<1>0. /\ TypeOK /\ LeaseTyped /\ PapersTyped /\ CountsTyped
      /\ SchedTyped /\ LockTyped /\ JobTyped /\ LeaseOK /\ Counted /\ JobsMean
  BY TypeSplit DEF IInv
<1>1. /\ job[j].pc = "end_row" /\ EndRows(t)
      /\ UNCHANGED <<status, rent, papers, sched, lock, stints, endings, late, faults>>
  BY DEF DeactivateRow
<1>2. JobTyped' /\ Only(j) /\ job'[j].pc = "end_rents" /\ job'[j].t = t
  BY <1>0, ToJob DEF DeactivateRow, Steps
<1>3. /\ row' \in [Tenants -> [live : Nat, ended : Nat]]
      /\ t \in Tenants => row'[t].live = 0
      /\ \A u \in Tenants : u # t => row'[u] = row[u]
  BY <1>0, <1>1, RowsEnded
<1> HIDE DEF t
<1>4. TypeOK'
  <2>1. /\ LeaseTyped' /\ PapersTyped' /\ CountsTyped' /\ SchedTyped' /\ LockTyped'
    BY <1>0, <1>1, <1>3 DEF LeaseTyped, PapersTyped, CountsTyped, SchedTyped, LockTyped, papers
  <2> QED  BY <1>2, <2>1, TypeSplitNext, Zenon
<1>5. JobsMean'
  <2>1. KeepsTenants /\ JobMeans(j)'  BY <1>1, <1>2 DEF KeepsTenants, JobMeans
  <2> QED  BY <1>0, <1>2, <2>1, MeansStay
<1>6. Counted'
  <2> SUFFICES ASSUME NEW u \in Tenants PROVE endings'[u] + row'[u].live <= stints'[u]
    BY DEF Counted
  <2>1. /\ endings[u] + row[u].live <= stints[u]
        /\ endings[u] \in Nat /\ stints[u] \in Nat /\ row[u].live \in Nat
    BY <1>0 DEF Counted, LeaseTyped, CountsTyped
  <2>2. row'[u].live <= row[u].live /\ row'[u].live \in Nat  BY <1>3, <2>1
  <2> QED  BY <1>1, <2>1, <2>2
<1>7. LeaseOK'
  <2> SUFFICES ASSUME faults' = {} PROVE HalfJobs' = {j} /\ HalfWay(j)'
    BY DEF LeaseOK
  <2>1. HalfJobs = {j} /\ HalfWay(j)
    BY <1>0, <1>1 DEF LeaseOK, HalfJobs, HalfPcs, HalfWay
  <2>2. HalfJobs' = {j}
    BY <1>2, <2>1 DEF HalfJobs, HalfPcs, Only
  <2>3. /\ t \in Tenants /\ status = "vacant"
        /\ \A u \in Tenants \ {t} : row[u].live = 0 /\ rent[u] = 0
    BY <1>1, <2>1 DEF HalfWay, t
  <2> QED  BY <1>1, <1>2, <1>3, <2>2, <2>3 DEF HalfWay
<1>8. PapersOK'  BY <1>1 DEF IInv, PapersOK, papers
<1> QED  BY <1>4, <1>5, <1>6, <1>7, <1>8 DEF IInv

LEMMA DeactivateRentsKeeps ==
  ASSUME IInv, NEW j \in Jobs, DeactivateRents(j)
  PROVE  IInv'
<1> DEFINE t == job[j].t
<1>0. /\ TypeOK /\ LeaseTyped /\ PapersTyped /\ CountsTyped
      /\ SchedTyped /\ LockTyped /\ JobTyped /\ LeaseOK /\ Counted /\ JobsMean
  BY TypeSplit DEF IInv
<1>1. /\ job[j].pc = "end_rents"
      /\ rent' = [rent EXCEPT ![t] = 0]
      /\ UNCHANGED <<status, row, papers, sched, lock, stints, endings, late, faults>>
  BY DEF DeactivateRents, history
<1>2. JobTyped' /\ Only(j) /\ job'[j].pc = "idle"
  BY <1>0, FinishJob DEF DeactivateRents
<1>3. TypeOK'
  <2>1. /\ LeaseTyped' /\ PapersTyped' /\ CountsTyped' /\ SchedTyped' /\ LockTyped'
    BY <1>0, <1>1 DEF LeaseTyped, PapersTyped, CountsTyped, SchedTyped, LockTyped, papers
  <2> QED  BY <1>2, <2>1, TypeSplitNext, Zenon
<1>4. JobsMean'
  <2>1. KeepsTenants /\ JobMeans(j)'  BY <1>1, <1>2 DEF KeepsTenants, JobMeans
  <2> QED  BY <1>0, <1>2, <2>1, MeansStay
<1>5. Counted'  BY <1>0, <1>1 DEF Counted
<1>6. LeaseOK'
  <2> SUFFICES ASSUME faults' = {} PROVE HalfJobs' = {} /\ Consistent'
    BY DEF LeaseOK
  <2>1. HalfJobs = {j} /\ HalfWay(j)
    BY <1>0, <1>1 DEF LeaseOK, HalfJobs, HalfPcs, HalfWay
  <2>2. HalfJobs' = {}  BY <1>2, <2>1 DEF HalfJobs, HalfPcs, Only
  <2>3. /\ t \in Tenants /\ status = "vacant" /\ row[t].live = 0
        /\ \A u \in Tenants \ {t} : row[u].live = 0 /\ rent[u] = 0
    BY <1>1, <2>1 DEF HalfWay
  <2>4. \A u \in Tenants : row'[u].live = 0 /\ rent'[u] = 0
    BY <1>0, <1>1, <2>3 DEF LeaseTyped
  <2> QED  BY <1>1, <2>2, <2>3, <2>4, NobodyLeft
<1>7. PapersOK'  BY <1>1 DEF IInv, PapersOK, papers
<1> QED  BY <1>3, <1>4, <1>5, <1>6, <1>7 DEF IInv

LEMMA DeclineKeeps ==
  ASSUME IInv, NEW j \in Jobs, NEW t \in Tenants, Decline(j, t)
  PROVE  IInv'
<1> DEFINE op == [Idle EXCEPT !.pc = "decline_row", !.t = t, !.n = row[t].ended]
<1>0. /\ TypeOK /\ LeaseTyped /\ PapersTyped /\ CountsTyped
      /\ SchedTyped /\ LockTyped /\ JobTyped /\ LeaseOK /\ Counted /\ JobsMean
  BY TypeSplit DEF IInv
<1>1. op \in JobRecord /\ op.pc = "decline_row" /\ op.t = t /\ op.n = row[t].ended
  BY <1>0 DEF Idle, JobRecord, Steps, Ways, Somebody, LeaseTyped
<1>2. /\ job[j] = Idle /\ job' = [job EXCEPT ![j] = op]
      /\ rent[t] > 0 /\ row[t].live > 0
      /\ rent' = [rent EXCEPT ![t] = @ - 1]
      /\ Blame({})
      /\ UNCHANGED <<status, row, papers, sched, lock, stints, endings, late>>
  BY DEF Decline, LivesIn
<1> HIDE DEF op
<1>3. JobTyped' /\ Only(j) /\ job'[j] = op /\ job[j].pc = "idle"
  BY <1>0, <1>1, <1>2, IdleTyped DEF JobTyped, Only
<1>4. TypeOK'
  <2>1. LeaseTyped'  BY <1>0, <1>2 DEF LeaseTyped
  <2>2. /\ PapersTyped' /\ CountsTyped' /\ SchedTyped' /\ LockTyped'
    BY <1>0, <1>2 DEF PapersTyped, CountsTyped, SchedTyped, LockTyped, papers
  <2> QED  BY <1>3, <2>1, <2>2, TypeSplitNext, Zenon
<1>5. JobsMean'
  <2>1. KeepsTenants /\ JobMeans(j)'  BY <1>1, <1>2, <1>3 DEF KeepsTenants, JobMeans
  <2> QED  BY <1>0, <1>3, <2>1, MeansStay
<1>6. Counted'  BY <1>0, <1>2 DEF Counted
<1>7. ASSUME faults' = {} PROVE HalfJobs' = {j} /\ HalfWay(j)' /\ PapersOK'
  <2>1. HalfJobs = {} /\ Consistent /\ faults = {}  BY <1>0, <1>2, <1>7, Blameless
  <2>2. HalfJobs' = {j}
    BY <1>1, <1>3, <2>1 DEF HalfJobs, HalfPcs, Only
  <2>3. \A u \in Tenants \ {t} : row'[u].live = 0 /\ rent'[u] = 0
    BY <1>0, <1>2, <2>1 DEF Consistent, LeaseTyped
  <2>4. row'[t].live = 1 /\ row'[t].ended <= row[t].ended /\ rent'[t] = 0
    BY <1>0, <1>2, <2>1 DEF Consistent, LeaseTyped
  <2>5. PapersOK'  BY <1>2, <2>1 DEF IInv, PapersOK, papers
  <2> QED  BY <1>1, <1>3, <2>2, <2>3, <2>4, <2>5 DEF HalfWay
<1>8. LeaseOK' /\ PapersOK'
  <2>1. CASE faults' = {}  BY <1>7, <2>1 DEF LeaseOK
  <2>2. CASE faults' # {}  BY <2>2 DEF LeaseOK, PapersOK
  <2> QED  BY <2>1, <2>2
<1> QED  BY <1>4, <1>5, <1>6, <1>8 DEF IInv

LEMMA DeclineRowKeeps ==
  ASSUME IInv, NEW j \in Jobs, DeclineRow(j)
  PROVE  IInv'
<1> DEFINE t == job[j].t
           r == IF LivesIn(t) /\ row[t].ended <= job[j].n
                THEN [live |-> row[t].live - 1, ended |-> row[t].ended + 1] ELSE row[t]
<1>0. /\ TypeOK /\ LeaseTyped /\ PapersTyped /\ CountsTyped
      /\ SchedTyped /\ LockTyped /\ JobTyped /\ LeaseOK /\ Counted /\ JobsMean
  BY TypeSplit DEF IInv
<1>1. /\ job[j].pc = "decline_row" /\ row' = [row EXCEPT ![t] = r]
      /\ UNCHANGED <<status, rent, papers, sched, lock, stints, endings, late, faults>>
  BY DEF DeclineRow
<1>2. JobTyped' /\ Only(j) /\ job'[j].pc = "decline_vacate" /\ job'[j].t = t
  BY <1>0, ToJob DEF DeclineRow, Steps
<1>3. t \in Tenants => /\ r \in [live : Nat, ended : Nat] /\ r.live <= row[t].live
                       /\ row[t].live = 1 /\ row[t].ended <= job[j].n => r.live = 0
  <2> SUFFICES ASSUME t \in Tenants
               PROVE  /\ r \in [live : Nat, ended : Nat] /\ r.live <= row[t].live
                      /\ row[t].live = 1 /\ row[t].ended <= job[j].n => r.live = 0
    OBVIOUS
  <2>1. row[t] \in [live : Nat, ended : Nat]  BY <1>0 DEF LeaseTyped
  <2>2. CASE LivesIn(t) /\ row[t].ended <= job[j].n  BY <2>1, <2>2 DEF LivesIn
  <2>3. CASE ~(LivesIn(t) /\ row[t].ended <= job[j].n)  BY <2>1, <2>3 DEF LivesIn
  <2> QED  BY <2>2, <2>3
<1> HIDE DEF t, r
<1>4. /\ row' \in [Tenants -> [live : Nat, ended : Nat]]
      /\ t \in Tenants => row'[t] = r
      /\ \A u \in Tenants : u # t => row'[u] = row[u]
  BY <1>0, <1>1, <1>3 DEF LeaseTyped
<1>5. TypeOK'
  <2>1. /\ LeaseTyped' /\ PapersTyped' /\ CountsTyped' /\ SchedTyped' /\ LockTyped'
    BY <1>0, <1>1, <1>4 DEF LeaseTyped, PapersTyped, CountsTyped, SchedTyped, LockTyped, papers
  <2> QED  BY <1>2, <2>1, TypeSplitNext, Zenon
<1>6. JobsMean'
  <2>1. KeepsTenants /\ JobMeans(j)'  BY <1>1, <1>2 DEF KeepsTenants, JobMeans
  <2> QED  BY <1>0, <1>2, <2>1, MeansStay
<1>7. Counted'
  <2> SUFFICES ASSUME NEW u \in Tenants PROVE endings'[u] + row'[u].live <= stints'[u]
    BY DEF Counted
  <2>1. /\ endings[u] + row[u].live <= stints[u]
        /\ endings[u] \in Nat /\ stints[u] \in Nat /\ row[u].live \in Nat
    BY <1>0 DEF Counted, LeaseTyped, CountsTyped
  <2>2. row'[u].live <= row[u].live /\ row'[u].live \in Nat  BY <1>3, <1>4, <2>1
  <2> QED  BY <1>1, <2>1, <2>2
<1>8. LeaseOK'
  <2> SUFFICES ASSUME faults' = {} PROVE HalfJobs' = {j} /\ HalfWay(j)'
    BY DEF LeaseOK
  <2>1. HalfJobs = {j} /\ HalfWay(j)
    BY <1>0, <1>1 DEF LeaseOK, HalfJobs, HalfPcs, HalfWay
  <2>2. HalfJobs' = {j}  BY <1>2, <2>1 DEF HalfJobs, HalfPcs, Only
  <2>3. /\ t \in Tenants /\ row[t].live = 1 /\ row[t].ended <= job[j].n /\ rent[t] = 0
        /\ \A u \in Tenants \ {t} : row[u].live = 0 /\ rent[u] = 0
    BY <1>1, <2>1 DEF HalfWay, t
  <2> QED  BY <1>1, <1>2, <1>3, <1>4, <2>2, <2>3 DEF HalfWay
<1>9. PapersOK'  BY <1>1 DEF IInv, PapersOK, papers
<1> QED  BY <1>5, <1>6, <1>7, <1>8, <1>9 DEF IInv

LEMMA DeclineVacateKeeps ==
  ASSUME IInv, NEW j \in Jobs, DeclineVacate(j)
  PROVE  IInv'
<1> DEFINE t == job[j].t
<1>0. /\ TypeOK /\ LeaseTyped /\ PapersTyped /\ CountsTyped
      /\ SchedTyped /\ LockTyped /\ JobTyped /\ LeaseOK /\ Counted /\ JobsMean
  BY TypeSplit DEF IInv
<1>1. /\ job[j].pc = "decline_vacate"
      /\ status' = IF Let THEN status ELSE "vacant"
      /\ faults \subseteq faults'
      /\ UNCHANGED <<row, rent, papers, sched, lock, stints, endings, late>>
  BY DEF DeclineVacate
<1>2. JobTyped' /\ Only(j) /\ job'[j].pc = "idle"
  BY <1>0, FinishJob DEF DeclineVacate
<1>3. TypeOK'
  <2>1. status' \in {"vacant", "occupied"}  BY <1>0, <1>1, Zenon DEF LeaseTyped
  <2>2. /\ LeaseTyped' /\ PapersTyped' /\ CountsTyped' /\ SchedTyped' /\ LockTyped'
    BY <1>0, <1>1, <2>1 DEF LeaseTyped, PapersTyped, CountsTyped, SchedTyped, LockTyped, papers
  <2> QED  BY <1>2, <2>2, TypeSplitNext, Zenon
<1>4. JobsMean'
  <2>1. KeepsTenants /\ JobMeans(j)'  BY <1>1, <1>2 DEF KeepsTenants, JobMeans
  <2> QED  BY <1>0, <1>2, <2>1, MeansStay
<1>5. Counted'  BY <1>0, <1>1 DEF Counted
<1>6. LeaseOK'
  <2> SUFFICES ASSUME faults' = {} PROVE HalfJobs' = {} /\ Consistent'
    BY DEF LeaseOK
  <2>1. HalfJobs = {j} /\ HalfWay(j)
    BY <1>0, <1>1 DEF LeaseOK, HalfJobs, HalfPcs, HalfWay
  <2>2. HalfJobs' = {}  BY <1>2, <2>1 DEF HalfJobs, HalfPcs, Only
  <2>3. \A u \in Tenants : row[u].live = 0 /\ rent[u] = 0
    BY <1>1, <2>1 DEF HalfWay
  <2>4. status' = "vacant"  BY <1>1, <2>3 DEF Let
  <2> QED  BY <1>1, <2>2, <2>3, <2>4, NobodyLeft
<1>7. PapersOK'  BY <1>1 DEF IInv, PapersOK, papers
<1> QED  BY <1>3, <1>4, <1>5, <1>6, <1>7 DEF IInv

-----------------------------------------------------------------------------
(* The repair buttons, and a process that dies.                            *)
LEMMA SyncKeeps ==
  ASSUME IInv, NEW j \in Jobs, Sync(j)
  PROVE  IInv'
<1> DEFINE kinds == (IF job[j].copy # ByRents THEN {"race"} ELSE {})
                      \cup (IF job[j].copy = "vacant" /\ Rentless # {} THEN {"unseen"} ELSE {})
<1>0. /\ TypeOK /\ LeaseTyped /\ PapersTyped /\ CountsTyped
      /\ SchedTyped /\ LockTyped /\ JobTyped /\ LeaseOK /\ Counted /\ JobsMean
  BY TypeSplit DEF IInv
<1>1. /\ job[j].pc = "sync" /\ status' = job[j].copy /\ Blame(kinds)
      /\ UNCHANGED <<row, rent, papers, sched, lock, stints, endings, late>>
  BY Zenon DEF Sync
<1>2. JobTyped' /\ Only(j) /\ job'[j].pc = "idle"
  BY <1>0, FinishJob DEF Sync
<1>3. TypeOK'
  <2>1. status' \in {"vacant", "occupied"}  BY <1>0, <1>1 DEF JobsMean, JobMeans
  <2>2. /\ LeaseTyped' /\ PapersTyped' /\ CountsTyped' /\ SchedTyped' /\ LockTyped'
    BY <1>0, <1>1, <2>1 DEF LeaseTyped, PapersTyped, CountsTyped, SchedTyped, LockTyped, papers
  <2> QED  BY <1>2, <2>2, TypeSplitNext, Zenon
<1>4. JobsMean'
  <2>1. KeepsTenants /\ JobMeans(j)'  BY <1>1, <1>2 DEF KeepsTenants, JobMeans
  <2> QED  BY <1>0, <1>2, <2>1, MeansStay
<1>5. Counted'  BY <1>0, <1>1 DEF Counted
<1>6. ASSUME faults' = {} PROVE LeaseOK' /\ PapersOK'
  <2> HIDE DEF kinds
  <2>1. HalfJobs = {} /\ Consistent /\ kinds = {} /\ faults = {}
    BY <1>0, <1>1, <1>6, Blameless
  <2>2. status' = ByRents /\ (status' = "vacant" => Rentless = {})
    BY <1>1, <2>1 DEF kinds
  <2>3. status' = status
    <3>1. CASE Let
      <4>1. status' = "occupied"  BY <2>2, <3>1 DEF ByRents
      <4>2. \E t \in Tenants : row[t].live > 0
        BY <1>0, <2>1, <3>1 DEF Let, Consistent, LeaseTyped
      <4> QED  BY <2>1, <4>1, <4>2 DEF Consistent
    <3>2. CASE ~Let
      <4>1. status' = "vacant" /\ Rentless = {}  BY <2>2, <3>2 DEF ByRents
      <4>2. \A t \in Tenants : ~(row[t].live > 0)
        BY <1>0, <3>2, <4>1 DEF Let, Rentless, Residents, LivesIn, LeaseTyped
      <4> QED  BY <1>0, <2>1, <4>1, <4>2 DEF Consistent, LeaseTyped
    <3> QED  BY <3>1, <3>2
  <2>4. HalfJobs' = {}  BY <1>1, <1>2, <2>1, SameHalves DEF HalfPcs
  <2>5. Consistent'  BY <1>1, <2>1, <2>3 DEF Consistent
  <2>6. PapersOK'  BY <1>1, <2>1, <2>3 DEF IInv, PapersOK, papers
  <2> QED  BY <2>4, <2>5, <2>6 DEF LeaseOK
<1>7. LeaseOK' /\ PapersOK'
  <2>1. CASE faults' = {}  BY <1>6, <2>1
  <2>2. CASE faults' # {}  BY <2>2 DEF LeaseOK, PapersOK
  <2> QED  BY <2>1, <2>2
<1> QED  BY <1>3, <1>4, <1>5, <1>7 DEF IInv

(* What a repair button writes is blamed on it.                            *)
LEMMA RepairStep ==
  ASSUME IInv, LeaseTyped', \A t \in Tenants : row'[t].live <= row[t].live,
         faults' = faults \cup {"repair"},
         UNCHANGED <<papers, sched, lock, job, stints, endings, late>>
  PROVE  IInv'
<1>0. TypeOK /\ LeaseTyped /\ CountsTyped /\ Counted /\ JobsMean  BY TypeSplit DEF IInv
<1>1. TypeOK'
  <2>1. PapersTyped' /\ CountsTyped' /\ SchedTyped' /\ LockTyped' /\ JobTyped'
    BY <1>0, TypeSplit, Zenon DEF PapersTyped, CountsTyped, SchedTyped, LockTyped, JobTyped, papers
  <2> QED  BY <2>1, TypeSplitNext, Zenon
<1>2. JobsMean'  BY <1>0 DEF JobsMean, JobMeans
<1>3. Counted'
  <2> SUFFICES ASSUME NEW u \in Tenants PROVE endings'[u] + row'[u].live <= stints'[u]
    BY DEF Counted
  <2>1. /\ endings[u] + row[u].live <= stints[u] /\ row'[u].live <= row[u].live
        /\ endings[u] \in Nat /\ stints[u] \in Nat /\ row[u].live \in Nat /\ row'[u].live \in Nat
    BY <1>0 DEF Counted, LeaseTyped, CountsTyped
  <2> QED  BY <2>1
<1>4. faults' # {}  OBVIOUS
<1> QED  BY <1>1, <1>2, <1>3, <1>4 DEF IInv, LeaseOK, PapersOK

LEMMA FixConsistencyKeeps ==
  ASSUME IInv, FixConsistency
  PROVE  IInv'
<1>0. LeaseTyped  BY TypeSplit DEF IInv
<1>1. status' \in {"vacant", "occupied"}  BY <1>0, Zenon DEF FixConsistency, LeaseTyped
<1>2. rent' \in [Tenants -> Nat]  BY <1>0 DEF FixConsistency, LeaseTyped
<1>3. row' = [t \in Tenants |-> IF t \in Rentless THEN [live |-> 0, ended |-> 0] ELSE row[t]]
  BY DEF FixConsistency
<1>4. \A t \in Tenants : /\ row'[t] \in [live : Nat, ended : Nat]
                         /\ row'[t].live <= row[t].live
  BY <1>0, <1>3 DEF LeaseTyped
<1>5. LeaseTyped'  BY <1>1, <1>2, <1>3, <1>4 DEF LeaseTyped
<1> QED  BY <1>4, <1>5, RepairStep DEF FixConsistency

LEMMA FixDuplicateRentsKeeps ==
  ASSUME IInv, FixDuplicateRents
  PROVE  IInv'
<1>0. LeaseTyped  BY TypeSplit DEF IInv
<1>1. rent' \in [Tenants -> Nat]  BY <1>0 DEF FixDuplicateRents, LeaseTyped
<1>2. row' = [t \in Tenants |-> IF t \in Doubled
                THEN [live |-> 0, ended |-> row[t].ended + row[t].live] ELSE row[t]]
  BY DEF FixDuplicateRents
<1>3. \A t \in Tenants : /\ row'[t] \in [live : Nat, ended : Nat]
                         /\ row'[t].live <= row[t].live
  BY <1>0, <1>2 DEF LeaseTyped
<1>4. LeaseTyped'  BY <1>1, <1>2, <1>3 DEF LeaseTyped, FixDuplicateRents
<1> QED  BY <1>3, <1>4, RepairStep DEF FixDuplicateRents

LEMMA FixDuplicateRowsKeeps ==
  ASSUME IInv, NEW t \in Tenants, FixDuplicateRows(t)
  PROVE  IInv'
<1> DEFINE r == [live |-> 1, ended |-> row[t].ended + row[t].live - 1]
<1>0. LeaseTyped  BY TypeSplit DEF IInv
<1>1. row[t].live > 1 /\ row' = [row EXCEPT ![t] = r]  BY DEF FixDuplicateRows
<1>2. r \in [live : Nat, ended : Nat] /\ r.live = 1  BY <1>0, <1>1 DEF LeaseTyped
<1> HIDE DEF r
<1>3. /\ row' \in [Tenants -> [live : Nat, ended : Nat]]
      /\ \A u \in Tenants : row'[u].live <= row[u].live
  BY <1>0, <1>1, <1>2 DEF LeaseTyped
<1>4. LeaseTyped'  BY <1>0, <1>3 DEF LeaseTyped, FixDuplicateRows
<1> QED  BY <1>3, <1>4, RepairStep DEF FixDuplicateRows

LEMMA CrashKeeps ==
  ASSUME IInv, NEW j \in Jobs, Crash(j)
  PROVE  IInv'
<1>0. /\ TypeOK /\ LeaseTyped /\ PapersTyped /\ CountsTyped
      /\ SchedTyped /\ LockTyped /\ JobTyped /\ LeaseOK /\ Counted /\ JobsMean
  BY TypeSplit DEF IInv
<1>1. /\ lock' = [t \in Tenants |-> IF lock[t] = j THEN Nobody ELSE lock[t]]
      /\ Blame({})
      /\ UNCHANGED <<lease, papers, sched, stints, endings, late>>
  BY DEF Crash
<1>2. JobTyped' /\ Only(j) /\ job'[j].pc = "idle"
  BY <1>0, FinishJob DEF Crash
<1>3. TypeOK'
  <2>1. LockTyped'  BY <1>0, <1>1 DEF LockTyped
  <2>2. /\ LeaseTyped' /\ PapersTyped' /\ CountsTyped' /\ SchedTyped'
    BY <1>0, <1>1 DEF LeaseTyped, PapersTyped, CountsTyped, SchedTyped, lease, papers
  <2> QED  BY <1>2, <2>1, <2>2, TypeSplitNext, Zenon
<1>4. JobsMean'
  <2>1. KeepsTenants /\ JobMeans(j)'  BY <1>1, <1>2 DEF KeepsTenants, JobMeans
  <2> QED  BY <1>0, <1>2, <2>1, MeansStay
<1>5. Counted'  BY <1>0, <1>1 DEF Counted, lease
<1>6. ASSUME faults' = {} PROVE LeaseOK' /\ PapersOK'
  <2>1. HalfJobs = {} /\ Consistent /\ faults = {}  BY <1>0, <1>1, <1>6, Blameless
  <2>2. HalfJobs' = {}  BY <1>2, <2>1 DEF HalfJobs, HalfPcs, Only
  <2>3. Consistent'  BY <1>1, <2>1 DEF Consistent, lease
  <2>4. PapersOK'  BY <1>1, <2>1 DEF IInv, PapersOK, papers, lease
  <2> QED  BY <2>2, <2>3, <2>4 DEF LeaseOK
<1>7. LeaseOK' /\ PapersOK'
  <2>1. CASE faults' = {}  BY <1>6, <2>1
  <2>2. CASE faults' # {}  BY <2>2 DEF LeaseOK, PapersOK
  <2> QED  BY <2>1, <2>2
<1> QED  BY <1>3, <1>4, <1>5, <1>7 DEF IInv

-----------------------------------------------------------------------------
LEMMA InitInvariant == Init => IInv
<1> SUFFICES ASSUME Init PROVE IInv
  OBVIOUS
<1>1. PICK first \in Tenants \cup {Nobody} :
        /\ status = IF first = Nobody THEN "vacant" ELSE "occupied"
        /\ row = [t \in Tenants |-> [live |-> IF t = first THEN 1 ELSE 0, ended |-> 0]]
        /\ rent = [t \in Tenants |-> IF t = first THEN 1 ELSE 0]
        /\ stints = [t \in Tenants |-> IF t = first THEN 1 ELSE 0]
  BY Zenon DEF Init
<1>2. /\ app = [t \in Tenants |-> "none"]
      /\ filed = [t \in Tenants |-> 0]
      /\ sched = [s \in Schedules |-> NoRow]
      /\ lock = [t \in Tenants |-> Nobody]
      /\ job = [j \in Jobs |-> Idle]
      /\ endings = [t \in Tenants |-> 0]
      /\ late = {}
  BY Zenon DEF Init
<1>3. \A j \in Jobs : job[j].pc = "idle"  BY <1>2, IdleTyped
<1>4. TypeOK
  <2>1. LeaseTyped  BY <1>1 DEF LeaseTyped
  <2>2. PapersTyped /\ CountsTyped  BY <1>1, <1>2 DEF PapersTyped, CountsTyped
  <2>3. SchedTyped  BY <1>2 DEF SchedTyped, SchedRecord, NoRow, Somebody
  <2>4. LockTyped /\ JobTyped  BY <1>2, IdleTyped DEF LockTyped, JobTyped
  <2> QED  BY <2>1, <2>2, <2>3, <2>4, TypeSplit, Zenon
<1>5. JobsMean  BY <1>3 DEF JobsMean, JobMeans
<1>6. Counted  BY <1>1, <1>2 DEF Counted
<1>7. HalfJobs = {}  BY <1>3 DEF HalfJobs, HalfPcs
<1>8. LeaseOK
  <2> SUFFICES ASSUME faults = {} PROVE Consistent
    BY <1>7 DEF LeaseOK
  <2>1. \A t \in Tenants : row[t].live = (IF t = first THEN 1 ELSE 0) /\ rent[t] = row[t].live
    BY <1>1
  <2>2. status = "occupied" <=> \E t \in Tenants : row[t].live > 0
    <3>1. CASE first = Nobody
      <4>1. status = "vacant" /\ \A t \in Tenants : t # first
        BY <1>1, <3>1, NamesAssumption
      <4>2. \A t \in Tenants : row[t].live = 0  BY <1>1, <4>1
      <4> QED  BY <4>1, <4>2
    <3>2. CASE first # Nobody
      <4>1. status = "occupied" /\ first \in Tenants  BY <1>1, <3>2
      <4>2. row[first].live = 1  BY <1>1, <4>1
      <4> QED  BY <4>1, <4>2
    <3> QED  BY <3>1, <3>2
  <2> QED  BY <2>1, <2>2 DEF Consistent
<1>9. PapersOK  BY <1>2 DEF PapersOK
<1> QED  BY <1>4, <1>5, <1>6, <1>8, <1>9 DEF IInv

LEMMA StepInvariant == IInv /\ [Next]_vars => IInv'
<1> SUFFICES ASSUME IInv, [Next]_vars PROVE IInv'
  OBVIOUS
<1>1. ASSUME NEW j \in Callers, Request(j) PROVE IInv'
  <2>0. j \in Jobs  BY DEF Jobs
  <2>1. ASSUME NEW t \in Tenants, NEW by \in {"add", "kyc", "attach", "move_in"},
               AskBegin(j, by, t)
        PROVE  IInv'
    BY <2>0, <2>1, AskBeginKeeps
  <2>2. ASSUME NEW t \in Tenants, NEW by \in {"date", "lapse"}, AskSchedule(j, by, t) PROVE IInv'
    BY <2>0, <2>2, AskScheduleKeeps
  <2>3. ASSUME NEW t \in Tenants, AskSubmit(j, t) PROVE IInv'  BY <2>0, <2>3, AskSubmitKeeps
  <2>4. ASSUME NEW t \in Tenants, AskEnd(j, t) PROVE IInv'  BY <2>0, <2>4, AskEndKeeps
  <2>5. ASSUME NEW t \in Tenants, AskDeactivate(j, t) PROVE IInv'
    BY <2>0, <2>5, AskDeactivateKeeps
  <2>6. ASSUME NEW s \in Schedules, AskCancel(j, s) PROVE IInv'  BY <2>0, <2>6, AskCancelKeeps
  <2>7. ASSUME AskSync(j) PROVE IInv'  BY <2>0, <2>7, AskSyncKeeps
  <2> QED  BY <1>1, <2>1, <2>2, <2>3, <2>4, <2>5, <2>6, <2>7, Zenon DEF Request
<1>2. ASSUME NEW i \in Crons, StartSweep(i) PROVE IInv'  BY <1>2, StartSweepKeeps DEF Jobs
<1>3. ASSUME NEW i \in Crons, NEW t \in Tenants, Decline(i, t) PROVE IInv'
  BY <1>3, DeclineKeeps DEF Jobs
<1>4. ASSUME NEW j \in Jobs, Proceed(j) PROVE IInv'
  <2>1. CASE Begin(j)  BY <2>1, BeginKeeps
  <2>2. CASE Approve(j)  BY <2>2, ApproveKeeps
  <2>3. CASE Submit(j)  BY <2>3, SubmitKeeps
  <2>4. CASE SaveSchedule(j)  BY <2>4, SaveScheduleKeeps
  <2>5. CASE Cancel(j)  BY <2>5, CancelKeeps
  <2>6. CASE Sync(j)  BY <2>6, SyncKeeps
  <2>7. CASE PickDue(j)  BY <2>7, PickDueKeeps
  <2>8. CASE SweepDone(j)  BY <2>8, SweepDoneKeeps
  <2>9. CASE LockRow(j)  BY <2>9, LockRowKeeps
  <2>10. CASE EndTenancy(j)  BY <2>10, EndTenancyKeeps
  <2>11. CASE MarkProcessed(j)  BY <2>11, MarkProcessedKeeps
  <2>12. CASE DeactivateRow(j)  BY <2>12, DeactivateRowKeeps
  <2>13. CASE DeactivateRents(j)  BY <2>13, DeactivateRentsKeeps
  <2>14. CASE DeclineRow(j)  BY <2>14, DeclineRowKeeps
  <2>15. CASE DeclineVacate(j)  BY <2>15, DeclineVacateKeeps
  <2>16. CASE SkipDue(j)  BY <2>16, SkipDueKeeps
  <2> QED
    BY <1>4, <2>1, <2>2, <2>3, <2>4, <2>5, <2>6, <2>7, <2>8, <2>9, <2>10, <2>11, <2>12, <2>13,
       <2>14, <2>15, <2>16, Zenon DEF Proceed
<1>5. ASSUME NEW j \in Jobs, RollBack(j) PROVE IInv'  BY <1>5, RollBackKeeps
<1>6. ASSUME NEW j \in Jobs, Crash(j) PROVE IInv'  BY <1>6, CrashKeeps
<1>7. ASSUME NEW t \in Tenants, AttachFromOffer(t) PROVE IInv'  BY <1>7, AttachFromOfferKeeps
<1>8. ASSUME NEW s \in Schedules, DatePasses(s) PROVE IInv'  BY <1>8, DatePassesKeeps
<1>9. CASE Repair
  <2>1. ASSUME NEW t \in Tenants, FixDuplicateRows(t) PROVE IInv'
    BY <2>1, FixDuplicateRowsKeeps
  <2> QED  BY <1>9, <2>1, FixConsistencyKeeps, FixDuplicateRentsKeeps, Zenon DEF Repair
<1>10. CASE UNCHANGED vars
  <2>1. UNCHANGED <<lease, papers, sched, lock, job, stints, endings, late, faults>>
    BY <1>10, Zenon DEF vars, history
  <2>2. TypeOK'
    BY <2>1, Zenon DEF IInv, TypeOK, lease, papers
  <2>3. JobsMean'  BY <2>1 DEF IInv, JobsMean, JobMeans
  <2>4. Counted'  BY <2>1 DEF IInv, Counted, lease
  <2>5. HalfJobs' = HalfJobs  BY <2>1, Zenon DEF HalfJobs
  <2>6. LeaseOK'  BY <2>1, <2>5, LeaseStays DEF IInv
  <2>7. PapersOK'  BY <2>1 DEF IInv, PapersOK, lease, papers
  <2> QED  BY <2>2, <2>3, <2>4, <2>6, <2>7 DEF IInv
<1> QED
  BY <1>1, <1>2, <1>3, <1>4, <1>5, <1>6, <1>7, <1>8, <1>9, <1>10, Zenon DEF Next

(* The invariant holds in every behaviour.                                 *)
LEMMA Invariance == Spec => []IInv
<1> QED  BY InitInvariant, StepInvariant, PTL DEF Spec

(* Type correctness, for any number of tenants, schedules and processes.   *)
THEOREM OccupancyTyped == Spec => []TypeOK
<1>1. IInv => TypeOK  BY Zenon DEF IInv
<1> QED  BY <1>1, Invariance, PTL

(* However many crons, requests and repair buttons meet, no tenancy is     *)
(* reported ended more often than it began (processMoveTenantOut's lock).  *)
THEOREM TenancyEndsOnce == Spec => []EndedOnce
<1>1. IInv => EndedOnce
  <2> SUFFICES ASSUME IInv, NEW t \in Tenants
               PROVE  endings[t] + (IF LivesIn(t) THEN 1 ELSE 0) <= stints[t]
    BY DEF EndedOnce
  <2>1. LeaseTyped /\ CountsTyped  BY TypeSplit DEF IInv
  <2> QED  BY <2>1 DEF IInv, Counted, LivesIn, LeaseTyped, CountsTyped
<1> QED  BY <1>1, Invariance, PTL

(* As long as no unguarded check was overtaken, one household lives in the *)
(* property and owes one rent, whichever of the five services let it.      *)
THEOREM HouseholdIsOne == Spec => []OneHousehold
<1>1. IInv => OneHousehold
  <2> SUFFICES ASSUME IInv, faults = {}, ~HalfEnded
               PROVE  /\ Cardinality(Residents) <= 1
                      /\ \A t \in Tenants : row[t].live <= 1 /\ rent[t] <= row[t].live
    BY DEF OneHousehold
  <2>1. Consistent  BY DEF IInv, LeaseOK, HalfEnded, HalfJobs, HalfPcs
  <2>2. Cardinality(Residents) <= 1
    <3>1. CASE Residents = {}  BY <3>1, FS_EmptySet
    <3>2. CASE Residents # {}
      <4>1. PICK t \in Residents : TRUE  BY <3>2
      <4>2. Residents = {t}  BY <2>1, <4>1 DEF Consistent, Residents, LivesIn
      <4>3. Cardinality(Residents) = 1  BY <4>2, FS_Singleton, Zenon
      <4> QED  BY <4>3
    <3> QED  BY <3>1, <3>2
  <2> QED  BY <2>1, <2>2 DEF Consistent
<1> QED  BY <1>1, Invariance, PTL

(* And property_status says whether anybody lives there, though seven      *)
(* places write it, most of them without reading it.                       *)
THEOREM StatusIsTrue == Spec => []StatusTellsTruth
<1>1. IInv => StatusTellsTruth
  <2> SUFFICES ASSUME IInv, faults = {}, ~HalfEnded
               PROVE  status = "occupied" <=> Residents # {}
    BY DEF StatusTellsTruth
  <2>1. Consistent  BY DEF IInv, LeaseOK, HalfEnded, HalfJobs, HalfPcs
  <2> QED  BY <2>1 DEF Consistent, Residents, LivesIn
<1> QED  BY <1>1, Invariance, PTL

(* Every rival's application is answered when the property is let          *)
(* (rejectOtherPendingApplications), but for those `late` names.           *)
THEOREM RivalsAreAnswered == Spec => []NoApplicantWaits
<1>1. IInv => NoApplicantWaits  BY DEF IInv, PapersOK, NoApplicantWaits
<1> QED  BY <1>1, Invariance, PTL

-----------------------------------------------------------------------------
(* Whose end a schedule is.  Outside `left` an open schedule was made for  *)
(* the tenancy its tenant has now, for whatever ends that tenancy closes   *)
(* the schedule, and none begins while he lives there.                     *)
Timely(s) ==
  sched[s].open /\ s \notin left =>
    LivesIn(sched[s].tenant) /\ sched[s].of = stints[sched[s].tenant]
EndsTimely == faults = {} => \A s \in Schedules : Timely(s)

(* A sweep ends the tenancy of the tenant its schedule names.              *)
Aimed(i) ==
  job[i].pc \in {"end", "locked"} =>
    /\ job[i].s \in Schedules
    /\ job[i].t \in Tenants => sched[job[i].s].tenant = job[i].t
SweepsAimed == \A i \in Crons : Aimed(i)

EndsOK == EndsTimely /\ SweepsAimed

EndsOwn(i) ==
  job[i].pc = "locked" /\ job'[i].pc = "mark" =>
    LET s == job[i].s IN
    \/ sched[s].of = stints[job[i].t]
    \/ s \in left \/ ~sched[s].open
    \/ faults # {}
AllEndOwn == \A i \in Crons : EndsOwn(i)

LEMMA OneJob ==
  ASSUME JobTyped, NEW j \in Jobs, NEW op, job' = [job EXCEPT ![j] = op]
  PROVE  Only(j) /\ job'[j] = op
  BY DEF JobTyped, Only

(* One process moves: its next aim is right, and it does not pass from the *)
(* lock to the mark.                                                       *)
LEMMA SweepsStay ==
  ASSUME SweepsAimed, NEW j \in Jobs, Only(j), KeepsTenants, j \in Crons => Aimed(j)',
         job[j].pc # "locked" \/ job'[j].pc # "mark"
  PROVE  SweepsAimed' /\ AllEndOwn
<1>1. SweepsAimed'
  <2> SUFFICES ASSUME NEW i \in Crons, i # j PROVE Aimed(i)'  BY DEF SweepsAimed
  <2>1. job'[i] = job[i] /\ Aimed(i)  BY DEF SweepsAimed, Only, Jobs
  <2> QED  BY <2>1 DEF Aimed, KeepsTenants
<1>2. AllEndOwn
  <2> SUFFICES ASSUME NEW i \in Crons, job[i].pc = "locked", job'[i].pc = "mark" PROVE FALSE
    BY DEF AllEndOwn, EndsOwn
  <2>1. i # j => job'[i] = job[i]  BY DEF Only, Jobs
  <2> QED  BY <2>1
<1> QED  BY <1>1, <1>2

(* A step that leaves tenancies alone and opens no schedule.               *)
LEMMA EndsStay ==
  ASSUME EndsTimely, UNCHANGED <<row, stints, left>>, faults \subseteq faults',
         \A s \in Schedules : sched'[s].open => /\ sched[s].open
                                                /\ sched'[s].tenant = sched[s].tenant
                                                /\ sched'[s].of = sched[s].of
  PROVE  EndsTimely'
  BY DEF EndsTimely, Timely, LivesIn

(* A step of a process that leaves the schedules alone too.                *)
LEMMA PlainStep ==
  ASSUME EndsOK, NEW j \in Jobs, Only(j), UNCHANGED <<row, stints, left, sched>>,
         faults \subseteq faults', j \in Crons => job'[j].pc \notin {"end", "locked", "mark"}
  PROVE  EndsOK' /\ AllEndOwn
<1>1. EndsTimely'  BY EndsStay DEF EndsOK
<1>2. KeepsTenants  BY DEF KeepsTenants
<1>3. j \in Crons => Aimed(j)'  BY DEF Aimed
<1>4. SweepsAimed' /\ AllEndOwn
  <2>1. CASE j \in Crons  BY <1>2, <1>3, <2>1, SweepsStay DEF EndsOK
  <2>2. CASE j \notin Crons
    <3>1. \A i \in Crons : job'[i] = job[i]  BY <2>2 DEF Only, Jobs
    <3> QED  BY <3>1 DEF EndsOK, SweepsAimed, Aimed, AllEndOwn, EndsOwn
  <2> QED  BY <2>1, <2>2
<1> QED  BY <1>1, <1>4 DEF EndsOK

LEMMA RequestEnds ==
  ASSUME IInv, EndsOK, NEW j \in Callers, Request(j)
  PROVE  EndsOK' /\ AllEndOwn
<1>0. JobTyped /\ j \in Jobs /\ j \notin Crons  BY TypeSplit, SizeAssumption DEF IInv, Jobs
<1>1. ASSUME NEW op, Ask(j, op), UNCHANGED <<row, stints, left, sched>>, faults \subseteq faults'
      PROVE  EndsOK' /\ AllEndOwn
  <2>1. Only(j)  BY <1>0, <1>1, OneJob DEF Ask
  <2> QED  BY <1>0, <1>1, <2>1, PlainStep
<1>2. ASSUME NEW t \in Tenants, NEW by \in {"add", "kyc", "attach", "move_in"}, AskBegin(j, by, t)
      PROVE  EndsOK' /\ AllEndOwn
  BY <1>1, <1>2 DEF AskBegin, lease, history
<1>3. ASSUME NEW t \in Tenants, NEW by \in {"date", "lapse"}, AskSchedule(j, by, t)
      PROVE  EndsOK' /\ AllEndOwn
  BY <1>1, <1>3 DEF AskSchedule, lease, history
<1>4. ASSUME NEW t \in Tenants, AskSubmit(j, t) PROVE EndsOK' /\ AllEndOwn
  BY <1>1, <1>4 DEF AskSubmit, lease, history
<1>5. ASSUME NEW t \in Tenants, AskEnd(j, t) PROVE EndsOK' /\ AllEndOwn
  BY <1>1, <1>5 DEF AskEnd, lease, history
<1>6. ASSUME NEW t \in Tenants, AskDeactivate(j, t) PROVE EndsOK' /\ AllEndOwn
  BY <1>1, <1>6 DEF AskDeactivate, Blame
<1>7. ASSUME NEW s \in Schedules, AskCancel(j, s) PROVE EndsOK' /\ AllEndOwn
  BY <1>1, <1>7 DEF AskCancel, lease, history
<1>8. ASSUME AskSync(j) PROVE EndsOK' /\ AllEndOwn
  BY <1>1, <1>8 DEF AskSync, lease, history
<1> QED  BY <1>2, <1>3, <1>4, <1>5, <1>6, <1>7, <1>8, Zenon DEF Request

(* Steps that end or write something else.                                 *)
LEMMA FinishEnds ==
  ASSUME IInv, EndsOK, NEW j \in Jobs, Finish(j), UNCHANGED <<row, stints, left, sched>>,
         faults \subseteq faults'
  PROVE  EndsOK' /\ AllEndOwn
<1>1. Only(j) /\ job'[j].pc = "idle"  BY FinishJob, TypeSplit DEF IInv
<1> QED  BY <1>1, PlainStep

(* A schedule is closed or falls due.                                      *)
LEMMA CloseEnds ==
  ASSUME IInv, EndsOK, NEW j \in Jobs, Cancel(j) \/ MarkProcessed(j)
  PROVE  EndsOK' /\ AllEndOwn
<1>0. JobTyped /\ SchedTyped  BY TypeSplit DEF IInv
<1>1. Only(j) /\ job'[j].pc \in {"idle", "pick"}
  BY <1>0, FinishJob, ToJob DEF Cancel, MarkProcessed, Steps
<1>2. \A s \in Schedules : /\ sched'[s].open => sched[s].open
                           /\ sched'[s].tenant = sched[s].tenant
                           /\ sched'[s].of = sched[s].of
  BY <1>0 DEF Cancel, MarkProcessed, SchedTyped, SchedRecord
<1>3. UNCHANGED <<row, stints, left, faults>>  BY DEF Cancel, MarkProcessed, lease, history
<1>4. EndsTimely'  BY <1>2, <1>3, EndsStay DEF EndsOK
<1>5. KeepsTenants  BY <1>2 DEF KeepsTenants
<1>6. Aimed(j)'  BY <1>1 DEF Aimed
<1>7. SweepsAimed' /\ AllEndOwn  BY <1>1, <1>5, <1>6, SweepsStay DEF EndsOK
<1> QED  BY <1>4, <1>7 DEF EndsOK

LEMMA DatePassesEnds ==
  ASSUME IInv, EndsOK, NEW d \in Schedules, DatePasses(d)
  PROVE  EndsOK' /\ AllEndOwn
<1>0. JobTyped /\ SchedTyped  BY TypeSplit DEF IInv
<1>1. UNCHANGED <<row, stints, left, faults, job>>  BY DEF DatePasses, lease, history
<1>2. \A s \in Schedules : /\ sched'[s].open => sched[s].open
                           /\ sched'[s].tenant = sched[s].tenant
                           /\ sched'[s].of = sched[s].of
  BY <1>0 DEF DatePasses, SchedTyped, SchedRecord
<1>3. EndsTimely'  BY <1>1, <1>2, EndsStay DEF EndsOK
<1>4. SweepsAimed' /\ AllEndOwn
  BY <1>1, <1>2 DEF EndsOK, SweepsAimed, Aimed, AllEndOwn, EndsOwn
<1> QED  BY <1>3, <1>4 DEF EndsOK

(* A schedule is made or moved for the tenancy there is, or is put to      *)
(* `left`.                                                                 *)
LEMMA SaveScheduleEnds ==
  ASSUME IInv, EndsOK, NEW j \in Jobs, SaveSchedule(j)
  PROVE  EndsOK' /\ AllEndOwn
<1> DEFINE t == job[j].t
           s == job[j].s
<1>0. JobTyped /\ SchedTyped /\ CountsTyped  BY TypeSplit DEF IInv
<1>1. /\ t \in Tenants /\ s \in Schedules \cup {NoSchedule} /\ job[j].pc = "schedule"
      /\ s # NoSchedule => sched[s].tenant = t
  BY <1>0 DEF IInv, JobsMean, JobMeans, SaveSchedule, JobTyped, JobRecord
<1>2. Only(j) /\ job'[j].pc = "idle"  BY <1>0, FinishJob DEF SaveSchedule
<1>3. /\ UNCHANGED <<row, stints>>
      /\ left' = IF LivesIn(t) THEN left ELSE left \cup {n \in Schedules : sched'[n] # sched[n]}
      /\ faults \subseteq faults'
  BY DEF SaveSchedule, lease
<1>4. PICK m \in Schedules :
        /\ \A n \in Schedules : n # m => sched'[n] = sched[n]
        /\ sched'[m].tenant = t /\ (sched[m].tenant \in Tenants => sched[m].tenant = t)
        /\ sched'[m].open => sched'[m].of = stints[t] \/ (sched[m].open /\ sched'[m].of = sched[m].of)
  <2>1. CASE s # NoSchedule
    <3>1. sched' = [sched EXCEPT ![s] = Rewritten(s, job[j].by)]
      BY <2>1, Zenon DEF SaveSchedule
    <3>2. sched[s] \in SchedRecord  BY <1>0, <1>1, <2>1 DEF SchedTyped
    <3>3. /\ Rewritten(s, job[j].by).tenant = t
          /\ Rewritten(s, job[j].by).open <=> (sched[s].open \/ job[j].by = "lapse")
          /\ Rewritten(s, job[j].by).of = IF job[j].by = "lapse" \/ sched[s].open THEN stints[t]
                                          ELSE sched[s].of
      BY <1>1, <2>1, <3>2 DEF Rewritten, SchedRecord
    <3> HIDE DEF s
    <3>4. /\ sched'[s] = Rewritten(s, job[j].by)
          /\ \A n \in Schedules : n # s => sched'[n] = sched[n]
      BY <1>0, <1>1, <2>1, <3>1 DEF SchedTyped
    <3> QED  BY <1>1, <2>1, <3>3, <3>4
  <2>2. CASE s = NoSchedule
    <3>1. PICK new \in {n \in Schedules : sched[n].tenant = Nobody} :
            sched' = [sched EXCEPT ![new] = Inserted(t)]
      BY <2>2, Zenon DEF SaveSchedule
    <3>2. Inserted(t).tenant = t /\ Inserted(t).of = stints[t]  BY DEF Inserted, NoRow
    <3> HIDE DEF t
    <3>3. /\ sched'[new] = Inserted(t)
          /\ \A n \in Schedules : n # new => sched'[n] = sched[n]
      BY <1>0, <3>1 DEF SchedTyped
    <3> QED  BY <3>1, <3>2, <3>3, NamesAssumption
  <2> QED  BY <2>1, <2>2
<1>5. EndsTimely'
  <2> SUFFICES ASSUME faults = {}, NEW n \in Schedules, sched'[n].open, n \notin left'
               PROVE  LivesIn(sched'[n].tenant) /\ sched'[n].of = stints[sched'[n].tenant]
    BY <1>3 DEF EndsTimely, Timely, LivesIn
  <2>0. Timely(n)  BY DEF EndsOK, EndsTimely
  <2>1. n \notin left  BY <1>3
  <2>2. CASE sched'[n] = sched[n]  BY <2>0, <2>1, <2>2 DEF Timely
  <2>3. CASE sched'[n] # sched[n]
    <3>1. n = m /\ LivesIn(t)  BY <1>3, <1>4, <2>3
    <3>2. sched[m].open => sched[m].of = stints[sched[m].tenant] /\ sched[m].tenant \in Tenants
      BY <2>0, <2>1, <3>1 DEF Timely, LivesIn
    <3> QED  BY <1>4, <3>1, <3>2
  <2> QED  BY <2>2, <2>3
<1>6. KeepsTenants  BY <1>4 DEF KeepsTenants
<1>7. Aimed(j)'  BY <1>2 DEF Aimed
<1>8. SweepsAimed' /\ AllEndOwn  BY <1>1, <1>2, <1>6, <1>7, SweepsStay DEF EndsOK
<1> QED  BY <1>5, <1>8 DEF EndsOK

(* The sweep.                                                              *)
LEMMA PickDueEnds ==
  ASSUME IInv, EndsOK, NEW j \in Jobs, PickDue(j)
  PROVE  EndsOK' /\ AllEndOwn
<1>0. JobTyped /\ SchedTyped  BY TypeSplit DEF IInv
<1>1. PICK s \in job[j].todo :
        job' = [job EXCEPT ![j].pc = "end", ![j].s = s, ![j].t = sched[s].tenant,
                           ![j].todo = @ \ {s}]
  BY Zenon DEF PickDue
<1>2. /\ UNCHANGED <<row, stints, left, faults, sched>>
      /\ job[j].pc = "pick" /\ s \in Schedules
  BY <1>0, <1>1 DEF PickDue, lease, history, JobTyped, JobRecord
<1>3. Only(j) /\ job'[j].s = s /\ job'[j].t = sched[s].tenant /\ job'[j].pc = "end"
  BY <1>0, <1>1 DEF Only, JobTyped, JobRecord
<1>4. Aimed(j)'  BY <1>2, <1>3 DEF Aimed
<1>5. KeepsTenants  BY <1>2 DEF KeepsTenants
<1>6. SweepsAimed' /\ AllEndOwn  BY <1>2, <1>3, <1>4, <1>5, SweepsStay DEF EndsOK
<1> QED  BY <1>2, <1>6, EndsStay DEF EndsOK

LEMMA LockRowEnds ==
  ASSUME IInv, EndsOK, NEW j \in Jobs, LockRow(j)
  PROVE  EndsOK' /\ AllEndOwn
<1>0. JobTyped  BY TypeSplit DEF IInv
<1>1. UNCHANGED <<row, stints, left, faults, sched>> /\ job[j].pc = "end"
  BY DEF LockRow, lease, history
<1>2. CASE ActiveRow(job[j].t)
  <2>1. To(j, "locked")  BY <1>2 DEF LockRow
  <2>2. job'[j].s = job[j].s /\ job'[j].t = job[j].t /\ Only(j)
    BY <1>0, <2>1 DEF To, JobTyped, JobRecord, Only
  <2>3. j \in Crons => Aimed(j)'
    BY <1>1, <2>2 DEF EndsOK, SweepsAimed, Aimed
  <2>4. KeepsTenants  BY <1>1 DEF KeepsTenants
  <2>5. SweepsAimed' /\ AllEndOwn  BY <1>1, <2>2, <2>3, <2>4, SweepsStay DEF EndsOK
  <2> QED  BY <1>1, <2>5, EndsStay DEF EndsOK
<1>3. CASE ~ActiveRow(job[j].t)
  <2>1. Only(j) /\ job'[j].pc \in {"idle", "pick"}  BY <1>0, <1>3, GiveUpJob DEF LockRow
  <2> QED  BY <1>1, <2>1, PlainStep
<1> QED  BY <1>2, <1>3

LEMMA SweepEnds ==
  ASSUME IInv, EndsOK, NEW j \in Jobs, StartSweep(j) \/ RollBack(j)
  PROVE  EndsOK' /\ AllEndOwn
<1>0. JobTyped  BY TypeSplit DEF IInv
<1>1. UNCHANGED <<row, stints, left, faults, sched>>
  BY DEF StartSweep, RollBack, lease, history
<1>2. Only(j) /\ job'[j].pc \in {"idle", "pick"}
  <2>1. CASE StartSweep(j)
    <3> DEFINE op == [Idle EXCEPT !.pc = "pick", !.todo = Due]
    <3>1. job' = [job EXCEPT ![j] = op]  BY <2>1, Zenon DEF StartSweep
    <3>2. op.pc = "pick"  BY DEF Idle
    <3> HIDE DEF op
    <3> QED  BY <1>0, <3>1, <3>2, OneJob
  <2>2. CASE RollBack(j)  BY <1>0, <2>2, GiveUpJob DEF RollBack
  <2> QED  BY <2>1, <2>2
<1> QED  BY <1>1, <1>2, PlainStep

(* The tenancy ended is the schedule's own, and takes its schedules along. *)
LEMMA EndTenancyEnds ==
  ASSUME IInv, EndsOK, NEW j \in Jobs, EndTenancy(j)
  PROVE  EndsOK' /\ AllEndOwn
<1> DEFINE t == job[j].t
<1>0. JobTyped /\ SchedTyped /\ LeaseTyped  BY TypeSplit DEF IInv
<1>1. /\ job[j].pc = "locked" /\ ActiveRow(t)
      /\ EndRows(t) /\ CloseSchedules(t)
      /\ left' = left \ OpenEnds(t) /\ stints' = stints
      /\ Blame({})
  BY DEF EndTenancy
<1>2. t \in Tenants  BY <1>1 DEF ActiveRow, LivesIn
<1>3. Only(j) /\ job'[j].pc \in {"idle", "mark"}
  <2>1. CASE j \in Crons  BY <1>0, <2>1, ToJob DEF EndTenancy, Steps
  <2>2. CASE j \notin Crons  BY <1>0, <2>2, FinishJob DEF EndTenancy
  <2> QED  BY <2>1, <2>2
<1>4. \A s \in Schedules : /\ sched'[s].open => sched[s].open /\ s \notin OpenEnds(t)
                           /\ sched'[s].tenant = sched[s].tenant
                           /\ sched'[s].of = sched[s].of
  <2> SUFFICES ASSUME NEW s \in Schedules
               PROVE  /\ sched'[s].open => sched[s].open /\ s \notin OpenEnds(t)
                      /\ sched'[s].tenant = sched[s].tenant
                      /\ sched'[s].of = sched[s].of
    OBVIOUS
  <2>1. sched'[s] = IF s \in OpenEnds(t) THEN [sched[s] EXCEPT !.open = FALSE] ELSE sched[s]
    BY <1>1, Zenon DEF CloseSchedules
  <2>2. sched[s] \in SchedRecord  BY <1>0 DEF SchedTyped
  <2> QED  BY <2>1, <2>2 DEF SchedRecord, OpenEnds
<1>5. EndsTimely'
  <2> SUFFICES ASSUME faults' = {}, NEW s \in Schedules, sched'[s].open, s \notin left'
               PROVE  Timely(s)'
    BY DEF EndsTimely, Timely
  <2>1. Timely(s) /\ sched[s].open /\ s \notin OpenEnds(t) /\ s \notin left
    BY <1>1, <1>4 DEF EndsOK, EndsTimely, Blame
  <2>2. sched[s].tenant # t  BY <2>1 DEF OpenEnds
  <2>3. row'[sched[s].tenant] = row[sched[s].tenant]
    BY <1>0, <1>1, <2>1, <2>2 DEF EndRows, Timely, LivesIn, LeaseTyped
  <2> QED  BY <1>1, <1>4, <2>1, <2>3 DEF Timely, LivesIn
<1>6. KeepsTenants  BY <1>4 DEF KeepsTenants
<1>7. SweepsAimed'
  <2> SUFFICES ASSUME NEW i \in Crons PROVE Aimed(i)'  BY DEF SweepsAimed
  <2>1. CASE i = j  BY <1>3, <2>1 DEF Aimed
  <2>2. CASE i # j
    <3>1. job'[i] = job[i] /\ Aimed(i)  BY <1>3, <2>2 DEF EndsOK, SweepsAimed, Only, Jobs
    <3> QED  BY <1>6, <3>1 DEF Aimed, KeepsTenants
  <2> QED  BY <2>1, <2>2
<1>8. AllEndOwn
  <2> SUFFICES ASSUME NEW i \in Crons, job[i].pc = "locked", job'[i].pc = "mark"
               PROVE  EndsOwn(i)
    BY DEF AllEndOwn, EndsOwn
  <2>1. i = j  BY <1>3 DEF Only, Jobs
  <2>2. job[i].s \in Schedules /\ sched[job[i].s].tenant = job[i].t
    BY <1>1, <1>2, <2>1 DEF EndsOK, SweepsAimed, Aimed
  <2> QED  BY <2>2 DEF EndsOwn, EndsOK, EndsTimely, Timely
<1> QED  BY <1>5, <1>7, <1>8 DEF EndsOK

(* A tenancy ended statement by statement puts its schedules to `left`.    *)
LEMMA HalfEnds ==
  ASSUME EndsOK, NEW j \in Jobs, NEW t \in Tenants, Only(j),
         job'[j].pc \in {"end_rents", "decline_vacate"},
         \A u \in Tenants \ {t} : row'[u] = row[u],
         left' = left \cup OpenEnds(t),
         stints' = stints, sched' = sched, faults' = faults
  PROVE  EndsOK' /\ AllEndOwn
<1>1. EndsTimely'
  <2> SUFFICES ASSUME faults = {}, NEW s \in Schedules, sched[s].open, s \notin left'
               PROVE  Timely(s)'
    BY DEF EndsTimely, Timely
  <2>1. Timely(s) /\ s \notin left /\ sched[s].tenant # t
    BY DEF EndsOK, EndsTimely, OpenEnds
  <2>2. row'[sched[s].tenant] = row[sched[s].tenant]
    BY <2>1 DEF Timely, LivesIn
  <2> QED  BY <2>1, <2>2 DEF Timely, LivesIn
<1>2. KeepsTenants  BY DEF KeepsTenants
<1>3. Aimed(j)'  BY DEF Aimed
<1>4. SweepsAimed' /\ AllEndOwn  BY <1>2, <1>3, SweepsStay DEF EndsOK
<1> QED  BY <1>1, <1>4 DEF EndsOK

LEMMA HalfRowEnds ==
  ASSUME IInv, EndsOK, NEW j \in Jobs, DeactivateRow(j) \/ DeclineRow(j)
  PROVE  EndsOK' /\ AllEndOwn
<1> PICK t : t = job[j].t  OBVIOUS
<1>0. JobTyped /\ LeaseTyped  BY TypeSplit DEF IInv
<1>1. Only(j) /\ job'[j].pc \in {"end_rents", "decline_vacate"}
  BY <1>0, ToJob DEF DeactivateRow, DeclineRow, Steps
<1>2. /\ left' = left \cup OpenEnds(t)
      /\ UNCHANGED <<stints, sched, faults>>
  BY DEF DeactivateRow, DeclineRow
<1>3. \A u \in Tenants \ {t} : row'[u] = row[u]
  BY <1>0 DEF DeactivateRow, DeclineRow, EndRows, LeaseTyped
<1>4. CASE t \in Tenants
  BY <1>1, <1>2, <1>3, <1>4, HalfEnds
<1>5. CASE t \notin Tenants
  <2>1. \A u \in Tenants : row'[u] = row[u]  BY <1>3, <1>5
  <2>2. EndsTimely'
    BY <1>2, <2>1 DEF EndsOK, EndsTimely, Timely, LivesIn
  <2>3. KeepsTenants /\ Aimed(j)'  BY <1>1, <1>2 DEF KeepsTenants, Aimed
  <2>4. SweepsAimed' /\ AllEndOwn  BY <1>1, <2>3, SweepsStay DEF EndsOK
  <2> QED  BY <2>2, <2>4 DEF EndsOK
<1> QED  BY <1>4, <1>5

(* A tenancy begins where, without a fault, nobody has a schedule.         *)
LEMMA NewTenancyEnds ==
  ASSUME EndsOK, UNCHANGED <<sched, left>>, faults \subseteq faults',
         faults' = {} => Residents = {}
  PROVE  EndsTimely'
  BY DEF EndsOK, EndsTimely, Timely, Residents, LivesIn

LEMMA BeginEnds ==
  ASSUME IInv, EndsOK, NEW j \in Jobs, Begin(j)
  PROVE  EndsOK' /\ AllEndOwn
<1> DEFINE t == job[j].t
           by == job[j].by
<1>0. JobTyped /\ LeaseTyped /\ LeaseOK  BY TypeSplit DEF IInv
<1>1. /\ job[j].pc = "begin" /\ Blame(Overlet(by, t)) /\ UNCHANGED <<sched, left>>
      /\ IF by = "kyc" THEN To(j, "approve") ELSE Finish(j)
  BY Zenon DEF Begin
<1>2. t \in Tenants /\ by \in {"add", "kyc", "attach", "move_in"}
  BY <1>1 DEF IInv, JobsMean, JobMeans
<1>3. Only(j) /\ job'[j].pc \in {"idle", "approve"}
  <2>1. CASE by = "kyc"  BY <1>0, <1>1, <2>1, ToJob DEF Steps
  <2>2. CASE by # "kyc"  BY <1>0, <1>1, <2>2, FinishJob
  <2> QED  BY <2>1, <2>2
<1>4. ASSUME faults' = {} PROVE Residents = {}
  <2>1. Consistent /\ Overlet(by, t) = {}  BY <1>0, <1>1, <1>4, Blameless
  <2> QED  BY <1>0, <1>2, <2>1, NobodyLivesHere
<1>5. EndsTimely'  BY <1>1, <1>4, NewTenancyEnds DEF Blame
<1>6. KeepsTenants /\ Aimed(j)'  BY <1>1, <1>3 DEF KeepsTenants, Aimed
<1>7. SweepsAimed' /\ AllEndOwn  BY <1>1, <1>3, <1>6, SweepsStay DEF EndsOK
<1> QED  BY <1>5, <1>7 DEF EndsOK

LEMMA AttachFromOfferEnds ==
  ASSUME IInv, EndsOK, NEW t \in Tenants, AttachFromOffer(t)
  PROVE  EndsOK' /\ AllEndOwn
<1>0. LeaseTyped /\ LeaseOK  BY TypeSplit DEF IInv
<1>1. status # "occupied" /\ Blame({}) /\ UNCHANGED <<sched, left, job>>
  BY DEF AttachFromOffer
<1>2. ASSUME faults' = {} PROVE Residents = {}
  <2>1. Consistent  BY <1>0, <1>1, <1>2, Blameless
  <2> QED  BY <1>1, <2>1 DEF Consistent, Residents, LivesIn
<1>3. EndsTimely'  BY <1>1, <1>2, NewTenancyEnds DEF Blame
<1>4. SweepsAimed' /\ AllEndOwn  BY <1>1 DEF EndsOK, SweepsAimed, Aimed, AllEndOwn, EndsOwn
<1> QED  BY <1>3, <1>4 DEF EndsOK

LEMMA RepairEnds ==
  ASSUME EndsOK, Repair
  PROVE  EndsOK' /\ AllEndOwn
<1>1. UNCHANGED <<sched, job>> /\ faults' # {}
  BY DEF Repair, FixConsistency, FixDuplicateRents, FixDuplicateRows
<1> QED  BY <1>1 DEF EndsOK, EndsTimely, SweepsAimed, Aimed, AllEndOwn, EndsOwn

LEMMA EndsStep ==
  ASSUME IInv, EndsOK, [Next]_vars
  PROVE  EndsOK' /\ AllEndOwn
<1>0. JobTyped  BY TypeSplit DEF IInv
<1>1. ASSUME NEW j \in Callers, Request(j) PROVE EndsOK' /\ AllEndOwn  BY <1>1, RequestEnds
<1>2. ASSUME NEW i \in Crons, StartSweep(i) PROVE EndsOK' /\ AllEndOwn
  BY <1>2, SweepEnds DEF Jobs
<1>3. ASSUME NEW i \in Crons, NEW t \in Tenants, Decline(i, t) PROVE EndsOK' /\ AllEndOwn
  <2> DEFINE op == [Idle EXCEPT !.pc = "decline_row", !.t = t, !.n = row[t].ended]
  <2>1. job' = [job EXCEPT ![i] = op]  BY <1>3, Zenon DEF Decline
  <2>2. op.pc = "decline_row"  BY DEF Idle
  <2> HIDE DEF op
  <2>3. Only(i) /\ job'[i].pc = "decline_row" /\ i \in Jobs  BY <1>0, <2>1, <2>2, OneJob DEF Jobs
  <2>4. UNCHANGED <<row, stints, left, sched>> /\ faults \subseteq faults'
    BY <1>3 DEF Decline, Blame
  <2> QED  BY <2>3, <2>4, PlainStep
<1>4. ASSUME NEW j \in Jobs, Proceed(j) PROVE EndsOK' /\ AllEndOwn
  <2>1. CASE Approve(j) \/ Sync(j) \/ Submit(j) \/ SweepDone(j) \/ DeactivateRents(j) \/ DeclineVacate(j)
    <3>1. Finish(j) /\ UNCHANGED <<row, stints, left, sched>> /\ faults \subseteq faults'
      BY <2>1 DEF Approve, Sync, Submit, SweepDone, DeactivateRents, DeclineVacate, lease, history,
         Blame
    <3> QED  BY <3>1, FinishEnds
  <2>2. CASE SkipDue(j)
    <3>1. UNCHANGED <<row, stints, left, sched, faults>>  BY <2>2 DEF SkipDue, lease, history
    <3> QED  BY <3>1, <2>2, SkipDueKeeps, PlainStep
  <2> QED
    BY <1>4, <2>1, <2>2, BeginEnds, SaveScheduleEnds, CloseEnds, PickDueEnds, LockRowEnds,
       EndTenancyEnds, HalfRowEnds, Zenon DEF Proceed
<1>5. ASSUME NEW j \in Jobs, RollBack(j) PROVE EndsOK' /\ AllEndOwn  BY <1>5, SweepEnds
<1>6. ASSUME NEW j \in Jobs, Crash(j) PROVE EndsOK' /\ AllEndOwn
  <2>1. Finish(j) /\ UNCHANGED <<row, stints, left, sched>> /\ faults \subseteq faults'
    BY <1>6 DEF Crash, lease, Blame
  <2> QED  BY <2>1, FinishEnds
<1>7. ASSUME NEW t \in Tenants, AttachFromOffer(t) PROVE EndsOK' /\ AllEndOwn
  BY <1>7, AttachFromOfferEnds
<1>8. ASSUME NEW s \in Schedules, DatePasses(s) PROVE EndsOK' /\ AllEndOwn
  BY <1>8, DatePassesEnds
<1>9. CASE Repair  BY <1>9, RepairEnds
<1>10. CASE UNCHANGED vars
  <2>1. UNCHANGED <<row, stints, left, sched, job, faults>>
    BY <1>10, Zenon DEF vars, lease, history
  <2> QED
    BY <2>1 DEF EndsOK, EndsTimely, Timely, LivesIn, SweepsAimed, Aimed, AllEndOwn, EndsOwn
<1> QED
  BY <1>1, <1>2, <1>3, <1>4, <1>5, <1>6, <1>7, <1>8, <1>9, <1>10, Zenon DEF Next

(* The nightly sweep (processScheduledMoveOuts) works from rows it loaded  *)
(* long before, and still ends the tenancy each was made for, in any       *)
(* number of instances and whatever is scheduled, cancelled and moved, but *)
(* for the schedules that `left` and a cancellation in between name.       *)
THEOREM SweepEndsItsOwn == Spec => EndsItsOwnTenancy
<1>1. Init => EndsOK
  <2> SUFFICES ASSUME Init PROVE EndsOK
    OBVIOUS
  <2>1. sched = [s \in Schedules |-> NoRow] /\ job = [j \in Jobs |-> Idle]
    BY Zenon DEF Init
  <2> QED  BY <2>1 DEF EndsOK, EndsTimely, Timely, SweepsAimed, Aimed, NoRow, Idle, Jobs
<1>2. IInv /\ EndsOK /\ [Next]_vars => EndsOK'  BY EndsStep
<1>3. IInv /\ EndsOK /\ [Next]_vars => [\A i \in Crons :
        job[i].pc = "locked" /\ job'[i].pc = "mark" =>
          LET s == job[i].s IN
          \/ sched[s].of = stints[job[i].t]
          \/ s \in left \/ ~sched[s].open
          \/ faults # {}]_vars
  BY EndsStep DEF AllEndOwn, EndsOwn
<1> QED  BY <1>1, <1>2, <1>3, Invariance, PTL DEF Spec, EndsItsOwnTenancy
=============================================================================
